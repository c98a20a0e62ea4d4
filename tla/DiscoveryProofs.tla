-------------------------- MODULE DiscoveryProofs --------------------------
(***************************************************************************)
(* Proofs about Discovery for any number of providers, any timeout and any  *)
(* answering times: the call ends in time, and no provider is starved.  And *)
(* about PublicIp, for every address: the rules are those of the registries,*)
(* and for every answer: it counts exactly if it should.                    *)
(***************************************************************************)
EXTENDS PublicIp, TLAPS

Left == P - index + 1

\* What is left of the timeout is enough for the shares of the providers that
\* are left, but for the scheduling delays so far.
SharesLeft == Timeout - elapsed >= Share * Left - lag

\* The inductive invariant.
IInv == TypeOK /\ Timely /\ FastProviderWins /\ (result = "trying" => SharesLeft)

-----------------------------------------------------------------------------
\* Integer division.
LEMMA Division ==
  ASSUME NEW r \in Nat, NEW k \in Nat \ {0}
  PROVE  /\ r \div k \in Nat
         /\ k * (r \div k) <= r
         /\ r < k * (r \div k) + k
  BY Z3

\* Taking one of k equal parts (rounded down) from r leaves k - 1 shares when
\* r was enough for k shares, up to a deficit d.
LEMMA TakePart ==
  ASSUME NEW r \in Nat, NEW k \in Nat \ {0}, NEW s \in Nat, NEW d \in Nat,
         r >= s * k - d
  PROVE  /\ r - (r \div k) >= s * (k - 1) - d
         /\ r \div k >= s - d
<1> DEFINE q == r \div k
<1>1. q \in Nat /\ k * q <= r /\ r < k * q + k
  BY Division
<1> HIDE DEF q
<1>2. r - q >= s * (k - 1) - d
  <2>1. CASE q <= s
    BY <1>1, <2>1
  <2>2. CASE q > s
    <3>1. q * (k - 1) >= s * (k - 1)
      BY <1>1, <2>2
    <3>2. r - q >= q * (k - 1)
      BY <1>1
    <3> QED BY <1>1, <3>1, <3>2
  <2> QED BY <1>1, <2>1, <2>2
<1>3. q >= s - d
  <2> SUFFICES ASSUME q + 1 <= s - d PROVE FALSE
    BY <1>1
  <2>1. k * (q + 1) <= k * (s - d)
    BY <1>1
  <2>2. k * d >= d
    OBVIOUS
  <2>3. k * (s - d) = s * k - k * d /\ k * (q + 1) = k * q + k
    BY <1>1
  <2> QED BY <1>1, <2>1, <2>2, <2>3
<1> QED BY <1>2, <1>3 DEF q

\* The share of a provider, and what the next one may use.
LEMMA Shares ==
  ASSUME TypeOK
  PROVE  /\ Share \in Nat
         /\ Share * P <= Timeout
         /\ Remaining \in Nat
         /\ index <= P => /\ Left \in Nat \ {0}
                          /\ AttemptTimeout = Remaining \div Left
                          /\ AttemptTimeout \in Nat
                          /\ AttemptTimeout <= Remaining
<1>1. Share \in Nat /\ Share * P <= Timeout
  BY DiscoveryAssumption, Division DEF Share
<1>2. Remaining \in Nat
  BY DiscoveryAssumption DEF Remaining, TypeOK
<1>3. ASSUME index <= P
      PROVE  /\ Left \in Nat \ {0}
             /\ AttemptTimeout = Remaining \div Left
             /\ AttemptTimeout \in Nat
             /\ AttemptTimeout <= Remaining
  <2>1. Left \in Nat \ {0} /\ AttemptTimeout = Remaining \div Left
    BY <1>3, DiscoveryAssumption DEF Left, AttemptTimeout, TypeOK
  <2> DEFINE q == Remaining \div Left
  <2>2. q \in Nat /\ Left * q <= Remaining
    BY <1>2, <2>1, Division
  <2> HIDE DEF q
  <2>3. q <= Left * q
    BY <2>1, <2>2
  <2>4. q <= Remaining
    BY <1>2, <2>1, <2>2, <2>3
  <2> QED BY <2>1, <2>2, <2>4 DEF q
<1> QED BY <1>1, <1>2, <1>3

\* The initial states satisfy the inductive invariant.
LEMMA InitIInv == Init => IInv
<1> SUFFICES ASSUME Init PROVE IInv
  OBVIOUS
<1>1. TypeOK
  BY DiscoveryAssumption DEF Init, TypeOK, Result
<1>2. Timely /\ FastProviderWins
  BY DiscoveryAssumption DEF Init, Timely, FastProviderWins
<1>3. SharesLeft
  <2>1. elapsed = 0 /\ lag = 0 /\ Left = P
    BY DiscoveryAssumption DEF Init, Left
  <2>2. Share \in Nat /\ Share * P <= Timeout
    BY <1>1, Shares
  <2> QED BY <2>1, <2>2, DiscoveryAssumption DEF SharesLeft
<1> QED BY <1>1, <1>2, <1>3 DEF IInv

\* What an attempt of length t does to the invariant: t is at most the
\* attempt's timeout, and provider `index' was not passed over wrongly.
LEMMA SpendIInv ==
  ASSUME IInv, result = "trying", index <= P, AttemptTimeout > 0,
         NEW t \in Nat, t <= AttemptTimeout,
         NEW l \in 0..MaxLag, NEW res, NEW i,
         Spend(t, l, res, i),
         \/ res = "found" /\ i = index /\ good[index]
         \/ res = "trying" /\ i = index + 1
              /\ (~good[index] \/ delay[index] >= AttemptTimeout)
  PROVE  IInv'
<1> USE DiscoveryAssumption
<1>1. /\ Share \in Nat /\ Remaining \in Nat
      /\ Left \in Nat \ {0} /\ AttemptTimeout = Remaining \div Left
      /\ AttemptTimeout \in Nat /\ AttemptTimeout <= Remaining
  BY Shares DEF IInv
<1>2. Remaining = Timeout - elapsed
  BY <1>1 DEF Remaining, IInv, TypeOK
<1>3. /\ elapsed' = elapsed + t + l /\ lag' = lag + l /\ lag' <= MaxLag
      /\ elapsed \in Nat /\ lag \in Nat /\ l \in Nat
      /\ UNCHANGED <<delay, good, cutoff>>
      /\ \/ elapsed' <= cutoff /\ result' = res /\ index' = i
         \/ elapsed' >= cutoff /\ result' = "cancelled" /\ index' = index
  BY DEF Spend, IInv, TypeOK
<1>4. TypeOK'
  BY <1>3 DEF IInv, TypeOK, Result
<1>5. Timely'
  BY <1>1, <1>2, <1>3 DEF IInv, TypeOK, Timely
<1>6. /\ Remaining - AttemptTimeout >= Share * (Left - 1) - lag
      /\ AttemptTimeout >= Share - lag
  <2>1. Remaining >= Share * Left - lag
    BY <1>2 DEF IInv, SharesLeft
  <2> QED BY <1>1, <1>3, <2>1, TakePart
<1>7. result' = "trying" => SharesLeft'
  <2> SUFFICES ASSUME result' = "trying" PROVE SharesLeft'
    OBVIOUS
  <2>1. index' = index + 1
    BY <1>3
  <2>2. Left' = Left - 1 /\ Share' = Share
    BY <2>1 DEF Left, Share, IInv, TypeOK
  <2> DEFINE w == Share * (Left - 1)
  <2>3. w \in Int
    BY <1>1
  <2>4. Remaining - AttemptTimeout >= w - lag
    BY <1>6
  <2> HIDE DEF w
  <2>5. Timeout - elapsed' >= w - lag'
    BY <1>1, <1>2, <1>3, <2>3, <2>4
  <2> QED BY <2>2, <2>5 DEF SharesLeft, w
<1>8. FastProviderWins'
  <2>1. \A j \in Provider : Fast(j)' => Fast(j)
    <3> SUFFICES ASSUME NEW j \in Provider, Fast(j)' PROVE Fast(j)
      OBVIOUS
    <3>1. delay[j] \in Nat /\ Share' = Share
      BY DEF IInv, TypeOK, Share
    <3> QED BY <1>1, <1>3, <3>1 DEF Fast
  <2>2. i = index + 1 => ~Fast(index)
    <3> SUFFICES ASSUME i = index + 1, Fast(index) PROVE FALSE
      OBVIOUS
    <3>1. delay[index] \in Nat /\ index \in Provider
      BY DEF IInv, TypeOK, Provider
    <3> QED BY <1>1, <1>3, <1>6, <3>1 DEF Fast, IInv, TypeOK
  <2>3. \A j \in 1..(index' - 1) : ~Fast(j)'
    <3> SUFFICES ASSUME NEW j \in 1..(index' - 1) PROVE ~Fast(j)'
      OBVIOUS
    <3>1. index' \in {index, index + 1} /\ (index' = index + 1 => i = index + 1)
      BY <1>3 DEF IInv, TypeOK
    <3>2. index \in 1..P /\ P \in Nat
      BY DEF IInv, TypeOK
    <3>3. CASE index' = index
      <4>1. j \in 1..(index - 1) /\ j \in Provider
        BY <3>2, <3>3 DEF Provider
      <4> QED BY <2>1, <4>1 DEF IInv, FastProviderWins
    <3>4. CASE index' = index + 1
      <4>1. j \in Provider /\ (j \in 1..(index - 1) \/ j = index)
        BY <3>2, <3>4 DEF Provider
      <4> QED BY <2>1, <2>2, <3>1, <3>4, <4>1 DEF IInv, FastProviderWins
    <3> QED BY <3>1, <3>3, <3>4
  <2>4. result' \notin {"all_failed", "deadline"}
    BY <1>3
  <2>5. result' = "found" => good'[index']
    BY <1>3
  <2> QED BY <2>3, <2>4, <2>5 DEF FastProviderWins
<1> QED BY <1>4, <1>5, <1>7, <1>8 DEF IInv

\* The invariant is inductive.
LEMMA NextIInv == IInv /\ [Next]_vars => IInv'
<1> SUFFICES ASSUME IInv, [Next]_vars PROVE IInv'
  OBVIOUS
<1>1. CASE Answered
  <2>1. PICK l \in 0..MaxLag :
          IF good[index] THEN Spend(delay[index], l, "found", index)
                         ELSE Spend(delay[index], l, "trying", index + 1)
    BY <1>1 DEF Answered
  <2>2. delay[index] \in Nat
    BY <1>1 DEF Answered, IInv, TypeOK, Provider
  <2>3. result = "trying" /\ index <= P /\ AttemptTimeout > 0
        /\ delay[index] <= AttemptTimeout
    BY <1>1 DEF Answered
  <2>4. CASE good[index]
    BY <2>1, <2>2, <2>3, <2>4, SpendIInv
  <2>5. CASE ~good[index]
    BY <2>1, <2>2, <2>3, <2>5, SpendIInv
  <2> QED BY <2>4, <2>5
<1>2. CASE TimedOut
  <2>1. PICK l \in 0..MaxLag : Spend(AttemptTimeout, l, "trying", index + 1)
    BY <1>2 DEF TimedOut
  <2>2. result = "trying" /\ index <= P /\ AttemptTimeout > 0
        /\ delay[index] >= AttemptTimeout
    BY <1>2 DEF TimedOut
  <2>3. AttemptTimeout \in Nat
    BY <2>2, Shares DEF IInv
  <2> QED BY <2>1, <2>2, <2>3, SpendIInv
<1>3. CASE OutOfTime
  <2>1. /\ ~Fast(index) /\ \A j \in Provider : j > index => ~Fast(j)
        /\ lag >= Share
    <3>1. /\ Remaining \in Nat /\ Share \in Nat /\ Left \in Nat \ {0}
          /\ AttemptTimeout = Remaining \div Left
      BY <1>3, Shares DEF OutOfTime, IInv
    <3>2. Remaining >= Share * Left - lag
      BY <1>3, <3>1, DiscoveryAssumption DEF OutOfTime, IInv, SharesLeft, Remaining, TypeOK
    <3>3. lag \in Nat
      BY DEF IInv, TypeOK
    <3>4. AttemptTimeout >= Share - lag
      BY <3>1, <3>2, <3>3, TakePart
    <3>5. Share - lag <= 0
      BY <1>3, <3>4 DEF OutOfTime
    <3>6. \A j \in Provider : delay[j] \in Nat
      BY DEF IInv, TypeOK
    <3>7. index \in Provider
      BY <1>3 DEF OutOfTime, IInv, TypeOK, Provider
    <3> QED BY <3>1, <3>3, <3>5, <3>6, <3>7 DEF Fast
  <2>2. \A j \in Provider : ~Fast(j)
    BY <2>1 DEF IInv, TypeOK, FastProviderWins, Provider
  <2> QED BY <1>3, <2>1, <2>2 DEF OutOfTime, IInv, TypeOK, Timely, FastProviderWins, Fast, Share, Result
<1>4. CASE AllFailed
  <2>1. \A j \in Provider : ~Fast(j)
    BY <1>4, DiscoveryAssumption DEF AllFailed, IInv, TypeOK, FastProviderWins, Provider
  <2> QED BY <1>4, <2>1 DEF AllFailed, IInv, TypeOK, Timely, FastProviderWins, Fast, Share, Result
<1>5. CASE UNCHANGED vars
  BY <1>5 DEF vars, IInv, TypeOK, Timely, FastProviderWins, SharesLeft, Fast, Share, Left
<1> QED BY <1>1, <1>2, <1>3, <1>4, <1>5 DEF Next

\* The inductive invariant holds in every reachable state.
THEOREM Invariance == Spec => []IInv
BY InitIInv, NextIInv, PTL DEF Spec

\* Type correctness.
THEOREM TypeCorrect == Spec => []TypeOK
<1>1. IInv => TypeOK
  BY DEF IInv
<1> QED BY <1>1, Invariance, PTL

\* The discovery ends within its one timeout for all providers.
THEOREM TimelyAlways == Spec => []Timely
<1>1. IInv => Timely
  BY DEF IInv
<1> QED BY <1>1, Invariance, PTL

\* No provider that answers usefully within its share is ever passed over,
\* however many providers hang before it.
THEOREM FastProviderAlwaysWins == Spec => []FastProviderWins
<1>1. IInv => FastProviderWins
  BY DEF IInv
<1> QED BY <1>1, Invariance, PTL
-----------------------------------------------------------------------------
(* Addresses *)

Parts(f) == [1..3 -> 0..(2 ^ Width(f) - 1)]
Of(f, p) == [family |-> f, part |-> p]

\* How many values of its k-th part a prefix of length n lets differ.
Unit(f, n, k) == 2 ^ (Width(f) - Bits(n, k, Width(f)))

\* A prefix part by part.
LEMMA PrefixParts ==
  ASSUME NEW f, NEW p, NEW a, NEW b, NEW c, NEW n
  PROVE  Within(Of(f, p), <<a, b, c, n>>) <=>
           /\ p[1] \div Unit(f, n, 1) = a \div Unit(f, n, 1)
           /\ p[2] \div Unit(f, n, 2) = b \div Unit(f, n, 2)
           /\ p[3] \div Unit(f, n, 3) = c \div Unit(f, n, 3)
<1> DEFINE q == <<a, b, c, n>>
           u(k) == Unit(f, n, k)
<1>1. Within(Of(f, p), q) <=> \A k \in 1..3 : p[k] \div u(k) = q[k] \div u(k)
  BY DEF Within, Of, Unit
<1>2. (\A k \in 1..3 : p[k] \div u(k) = q[k] \div u(k)) <=>
      /\ p[1] \div u(1) = q[1] \div u(1)
      /\ p[2] \div u(2) = q[2] \div u(2)
      /\ p[3] \div u(3) = q[3] \div u(3)
  <2>1. (\A k \in 1..3 : k = 1 \/ k = 2 \/ k = 3) /\ 1 \in 1..3 /\ 2 \in 1..3 /\ 3 \in 1..3
    BY SMT
  <2> HIDE DEF u, q
  <2> QED BY <2>1, Zenon
<1>3. q[1] = a /\ q[2] = b /\ q[3] = c
  OBVIOUS
<1> HIDE DEF q
<1>4. Within(Of(f, p), q) <=>
           /\ p[1] \div u(1) = a \div u(1)
           /\ p[2] \div u(2) = b \div u(2)
           /\ p[3] \div u(3) = c \div u(3)
  <2> HIDE DEF u
  <2> QED BY <1>1, <1>2, <1>3, Zenon
<1> QED BY <1>4 DEF q

\* The parts of an address are numbers of its width.
LEMMA PartsBounded ==
  ASSUME NEW f \in AddressFamily, NEW p \in Parts(f)
  PROVE  \A k \in 1..3 : p[k] \in Int /\ 0 <= p[k] /\ p[k] <= 2 ^ Width(f) - 1
<1>1. ASSUME NEW m \in Int, NEW q \in [1..3 -> 0..m]
      PROVE  \A k \in 1..3 : q[k] \in Int /\ 0 <= q[k] /\ q[k] <= m
  OBVIOUS
<1>2. 2 ^ Width(f) - 1 \in Int
  BY DEF AddressFamily, Width
<1> QED BY <1>1, <1>2 DEF Parts

\* The units of each prefix length in the list of v4 addresses.
LEMMA V4Units ==
  /\ Unit("v4", 4, 1) = 16 /\ Unit("v4", 4, 2) = 256 /\ Unit("v4", 4, 3) = 256
  /\ Unit("v4", 8, 1) = 1 /\ Unit("v4", 8, 2) = 256 /\ Unit("v4", 8, 3) = 256
  /\ Unit("v4", 10, 1) = 1 /\ Unit("v4", 10, 2) = 64 /\ Unit("v4", 10, 3) = 256
  /\ Unit("v4", 12, 1) = 1 /\ Unit("v4", 12, 2) = 16 /\ Unit("v4", 12, 3) = 256
  /\ Unit("v4", 15, 1) = 1 /\ Unit("v4", 15, 2) = 2 /\ Unit("v4", 15, 3) = 256
  /\ Unit("v4", 16, 1) = 1 /\ Unit("v4", 16, 2) = 1 /\ Unit("v4", 16, 3) = 256
  /\ Unit("v4", 24, 1) = 1 /\ Unit("v4", 24, 2) = 1 /\ Unit("v4", 24, 3) = 1
  BY DEF Unit, Bits, Width

\* The parts of a v4 address.
LEMMA V4Bounds ==
  ASSUME NEW p \in Parts("v4")
  PROVE  /\ p[1] \in Int /\ 0 <= p[1] /\ p[1] <= 255
         /\ p[2] \in Int /\ 0 <= p[2] /\ p[2] <= 255
         /\ p[3] \in Int /\ 0 <= p[3] /\ p[3] <= 255
<1>1. 2 ^ Width("v4") - 1 = 255 /\ "v4" \in AddressFamily
  BY DEF Width, AddressFamily
<1>2. 1 \in 1..3 /\ 2 \in 1..3 /\ 3 \in 1..3
  OBVIOUS
<1> QED BY <1>1, <1>2, PartsBounded

\* The special ranges of v4 addresses as inequalities.
LEMMA V4Ranges ==
  ASSUME NEW p \in Parts("v4")
  PROVE
    /\ Within(Of("v4", p), <<0, 0, 0, 8>>) <=> p[1] = 0
    /\ Within(Of("v4", p), <<10, 0, 0, 8>>) <=> p[1] = 10
    /\ Within(Of("v4", p), <<172, 16, 0, 12>>) <=> p[1] = 172 /\ 16 <= p[2] /\ p[2] <= 31
    /\ Within(Of("v4", p), <<192, 168, 0, 16>>) <=> p[1] = 192 /\ p[2] = 168
    /\ Within(Of("v4", p), <<100, 64, 0, 10>>) <=> p[1] = 100 /\ 64 <= p[2] /\ p[2] <= 127
    /\ Within(Of("v4", p), <<127, 0, 0, 8>>) <=> p[1] = 127
    /\ Within(Of("v4", p), <<169, 254, 0, 16>>) <=> p[1] = 169 /\ p[2] = 254
    /\ Within(Of("v4", p), <<192, 0, 0, 24>>) <=> p[1] = 192 /\ p[2] = 0 /\ p[3] = 0
    /\ Within(Of("v4", p), <<192, 0, 2, 24>>) <=> p[1] = 192 /\ p[2] = 0 /\ p[3] = 2
    /\ Within(Of("v4", p), <<198, 51, 100, 24>>) <=> p[1] = 198 /\ p[2] = 51 /\ p[3] = 100
    /\ Within(Of("v4", p), <<203, 0, 113, 24>>) <=> p[1] = 203 /\ p[2] = 0 /\ p[3] = 113
    /\ Within(Of("v4", p), <<192, 31, 196, 24>>) <=> p[1] = 192 /\ p[2] = 31 /\ p[3] = 196
    /\ Within(Of("v4", p), <<192, 175, 48, 24>>) <=> p[1] = 192 /\ p[2] = 175 /\ p[3] = 48
    /\ Within(Of("v4", p), <<192, 52, 193, 24>>) <=> p[1] = 192 /\ p[2] = 52 /\ p[3] = 193
    /\ Within(Of("v4", p), <<192, 88, 99, 24>>) <=> p[1] = 192 /\ p[2] = 88 /\ p[3] = 99
    /\ Within(Of("v4", p), <<198, 18, 0, 15>>) <=> p[1] = 198 /\ 18 <= p[2] /\ p[2] <= 19
    /\ Within(Of("v4", p), <<224, 0, 0, 4>>) <=> 224 <= p[1] /\ p[1] <= 239
    /\ Within(Of("v4", p), <<240, 0, 0, 4>>) <=> 240 <= p[1]
<1>1. Within(Of("v4", p), <<0, 0, 0, 8>>) <=> p[1] = 0
  <2>1. Within(Of("v4", p), <<0, 0, 0, 8>>) <=>
          p[1] \div 1 = 0 \div 1 /\ p[2] \div 256 = 0 \div 256 /\ p[3] \div 256 = 0 \div 256
    BY V4Units, PrefixParts
  <2> QED BY <2>1, V4Bounds
<1>2. Within(Of("v4", p), <<10, 0, 0, 8>>) <=> p[1] = 10
  <2>1. Within(Of("v4", p), <<10, 0, 0, 8>>) <=>
          p[1] \div 1 = 10 \div 1 /\ p[2] \div 256 = 0 \div 256 /\ p[3] \div 256 = 0 \div 256
    BY V4Units, PrefixParts
  <2> QED BY <2>1, V4Bounds
<1>3. Within(Of("v4", p), <<172, 16, 0, 12>>) <=> p[1] = 172 /\ 16 <= p[2] /\ p[2] <= 31
  <2>1. Within(Of("v4", p), <<172, 16, 0, 12>>) <=>
          p[1] \div 1 = 172 \div 1 /\ p[2] \div 16 = 16 \div 16 /\ p[3] \div 256 = 0 \div 256
    BY V4Units, PrefixParts
  <2> QED BY <2>1, V4Bounds
<1>4. Within(Of("v4", p), <<192, 168, 0, 16>>) <=> p[1] = 192 /\ p[2] = 168
  <2>1. Within(Of("v4", p), <<192, 168, 0, 16>>) <=>
          p[1] \div 1 = 192 \div 1 /\ p[2] \div 1 = 168 \div 1 /\ p[3] \div 256 = 0 \div 256
    BY V4Units, PrefixParts
  <2> QED BY <2>1, V4Bounds
<1>5. Within(Of("v4", p), <<100, 64, 0, 10>>) <=> p[1] = 100 /\ 64 <= p[2] /\ p[2] <= 127
  <2>1. Within(Of("v4", p), <<100, 64, 0, 10>>) <=>
          p[1] \div 1 = 100 \div 1 /\ p[2] \div 64 = 64 \div 64 /\ p[3] \div 256 = 0 \div 256
    BY V4Units, PrefixParts
  <2> QED BY <2>1, V4Bounds
<1>6. Within(Of("v4", p), <<127, 0, 0, 8>>) <=> p[1] = 127
  <2>1. Within(Of("v4", p), <<127, 0, 0, 8>>) <=>
          p[1] \div 1 = 127 \div 1 /\ p[2] \div 256 = 0 \div 256 /\ p[3] \div 256 = 0 \div 256
    BY V4Units, PrefixParts
  <2> QED BY <2>1, V4Bounds
<1>7. Within(Of("v4", p), <<169, 254, 0, 16>>) <=> p[1] = 169 /\ p[2] = 254
  <2>1. Within(Of("v4", p), <<169, 254, 0, 16>>) <=>
          p[1] \div 1 = 169 \div 1 /\ p[2] \div 1 = 254 \div 1 /\ p[3] \div 256 = 0 \div 256
    BY V4Units, PrefixParts
  <2> QED BY <2>1, V4Bounds
<1>8. Within(Of("v4", p), <<192, 0, 0, 24>>) <=> p[1] = 192 /\ p[2] = 0 /\ p[3] = 0
  <2>1. Within(Of("v4", p), <<192, 0, 0, 24>>) <=>
          p[1] \div 1 = 192 \div 1 /\ p[2] \div 1 = 0 \div 1 /\ p[3] \div 1 = 0 \div 1
    BY V4Units, PrefixParts
  <2> QED BY <2>1, V4Bounds
<1>9. Within(Of("v4", p), <<192, 0, 2, 24>>) <=> p[1] = 192 /\ p[2] = 0 /\ p[3] = 2
  <2>1. Within(Of("v4", p), <<192, 0, 2, 24>>) <=>
          p[1] \div 1 = 192 \div 1 /\ p[2] \div 1 = 0 \div 1 /\ p[3] \div 1 = 2 \div 1
    BY V4Units, PrefixParts
  <2> QED BY <2>1, V4Bounds
<1>10. Within(Of("v4", p), <<198, 51, 100, 24>>) <=> p[1] = 198 /\ p[2] = 51 /\ p[3] = 100
  <2>1. Within(Of("v4", p), <<198, 51, 100, 24>>) <=>
          p[1] \div 1 = 198 \div 1 /\ p[2] \div 1 = 51 \div 1 /\ p[3] \div 1 = 100 \div 1
    BY V4Units, PrefixParts
  <2> QED BY <2>1, V4Bounds
<1>11. Within(Of("v4", p), <<203, 0, 113, 24>>) <=> p[1] = 203 /\ p[2] = 0 /\ p[3] = 113
  <2>1. Within(Of("v4", p), <<203, 0, 113, 24>>) <=>
          p[1] \div 1 = 203 \div 1 /\ p[2] \div 1 = 0 \div 1 /\ p[3] \div 1 = 113 \div 1
    BY V4Units, PrefixParts
  <2> QED BY <2>1, V4Bounds
<1>12. Within(Of("v4", p), <<192, 31, 196, 24>>) <=> p[1] = 192 /\ p[2] = 31 /\ p[3] = 196
  <2>1. Within(Of("v4", p), <<192, 31, 196, 24>>) <=>
          p[1] \div 1 = 192 \div 1 /\ p[2] \div 1 = 31 \div 1 /\ p[3] \div 1 = 196 \div 1
    BY V4Units, PrefixParts
  <2> QED BY <2>1, V4Bounds
<1>13. Within(Of("v4", p), <<192, 175, 48, 24>>) <=> p[1] = 192 /\ p[2] = 175 /\ p[3] = 48
  <2>1. Within(Of("v4", p), <<192, 175, 48, 24>>) <=>
          p[1] \div 1 = 192 \div 1 /\ p[2] \div 1 = 175 \div 1 /\ p[3] \div 1 = 48 \div 1
    BY V4Units, PrefixParts
  <2> QED BY <2>1, V4Bounds
<1>14. Within(Of("v4", p), <<192, 52, 193, 24>>) <=> p[1] = 192 /\ p[2] = 52 /\ p[3] = 193
  <2>1. Within(Of("v4", p), <<192, 52, 193, 24>>) <=>
          p[1] \div 1 = 192 \div 1 /\ p[2] \div 1 = 52 \div 1 /\ p[3] \div 1 = 193 \div 1
    BY V4Units, PrefixParts
  <2> QED BY <2>1, V4Bounds
<1>15. Within(Of("v4", p), <<192, 88, 99, 24>>) <=> p[1] = 192 /\ p[2] = 88 /\ p[3] = 99
  <2>1. Within(Of("v4", p), <<192, 88, 99, 24>>) <=>
          p[1] \div 1 = 192 \div 1 /\ p[2] \div 1 = 88 \div 1 /\ p[3] \div 1 = 99 \div 1
    BY V4Units, PrefixParts
  <2> QED BY <2>1, V4Bounds
<1>16. Within(Of("v4", p), <<198, 18, 0, 15>>) <=> p[1] = 198 /\ 18 <= p[2] /\ p[2] <= 19
  <2>1. Within(Of("v4", p), <<198, 18, 0, 15>>) <=>
          p[1] \div 1 = 198 \div 1 /\ p[2] \div 2 = 18 \div 2 /\ p[3] \div 256 = 0 \div 256
    BY V4Units, PrefixParts
  <2> QED BY <2>1, V4Bounds
<1>17. Within(Of("v4", p), <<224, 0, 0, 4>>) <=> 224 <= p[1] /\ p[1] <= 239
  <2>1. Within(Of("v4", p), <<224, 0, 0, 4>>) <=>
          p[1] \div 16 = 224 \div 16 /\ p[2] \div 256 = 0 \div 256 /\ p[3] \div 256 = 0 \div 256
    BY V4Units, PrefixParts
  <2> QED BY <2>1, V4Bounds
<1>18. Within(Of("v4", p), <<240, 0, 0, 4>>) <=> 240 <= p[1]
  <2>1. Within(Of("v4", p), <<240, 0, 0, 4>>) <=>
          p[1] \div 16 = 240 \div 16 /\ p[2] \div 256 = 0 \div 256 /\ p[3] \div 256 = 0 \div 256
    BY V4Units, PrefixParts
  <2> QED BY <2>1, V4Bounds
<1> QED BY <1>1, <1>2, <1>3, <1>4, <1>5, <1>6, <1>7, <1>8, <1>9,
              <1>10, <1>11, <1>12, <1>13, <1>14, <1>15, <1>16, <1>17, <1>18

\* The units of each prefix length in the list of v6 addresses.
LEMMA V6Units ==
  /\ Unit("v6", 1, 1) = 32768 /\ Unit("v6", 1, 2) = 65536 /\ Unit("v6", 1, 3) = 65536
  /\ Unit("v6", 2, 1) = 16384 /\ Unit("v6", 2, 2) = 65536 /\ Unit("v6", 2, 3) = 65536
  /\ Unit("v6", 3, 1) = 8192 /\ Unit("v6", 3, 2) = 65536 /\ Unit("v6", 3, 3) = 65536
  /\ Unit("v6", 16, 1) = 1 /\ Unit("v6", 16, 2) = 65536 /\ Unit("v6", 16, 3) = 65536
  /\ Unit("v6", 20, 1) = 1 /\ Unit("v6", 20, 2) = 4096 /\ Unit("v6", 20, 3) = 65536
  /\ Unit("v6", 23, 1) = 1 /\ Unit("v6", 23, 2) = 512 /\ Unit("v6", 23, 3) = 65536
  /\ Unit("v6", 32, 1) = 1 /\ Unit("v6", 32, 2) = 1 /\ Unit("v6", 32, 3) = 65536
  /\ Unit("v6", 48, 1) = 1 /\ Unit("v6", 48, 2) = 1 /\ Unit("v6", 48, 3) = 1
  BY DEF Unit, Bits, Width

\* The parts of a v6 address.
LEMMA V6Bounds ==
  ASSUME NEW p \in Parts("v6")
  PROVE  /\ p[1] \in Int /\ 0 <= p[1] /\ p[1] <= 65535
         /\ p[2] \in Int /\ 0 <= p[2] /\ p[2] <= 65535
         /\ p[3] \in Int /\ 0 <= p[3] /\ p[3] <= 65535
<1>1. 2 ^ Width("v6") - 1 = 65535 /\ "v6" \in AddressFamily
  BY DEF Width, AddressFamily
<1>2. 1 \in 1..3 /\ 2 \in 1..3 /\ 3 \in 1..3
  OBVIOUS
<1> QED BY <1>1, <1>2, PartsBounded

\* The special ranges of v6 addresses as inequalities.
LEMMA V6Ranges ==
  ASSUME NEW p \in Parts("v6")
  PROVE
    /\ Within(Of("v6", p), <<0, 0, 0, 3>>) <=> p[1] <= 8191
    /\ Within(Of("v6", p), <<16384, 0, 0, 2>>) <=> 16384 <= p[1] /\ p[1] <= 32767
    /\ Within(Of("v6", p), <<32768, 0, 0, 1>>) <=> 32768 <= p[1]
    /\ Within(Of("v6", p), <<8193, 0, 0, 23>>) <=> p[1] = 8193 /\ p[2] <= 511
    /\ Within(Of("v6", p), <<8193, 3512, 0, 32>>) <=> p[1] = 8193 /\ p[2] = 3512
    /\ Within(Of("v6", p), <<16383, 0, 0, 20>>) <=> p[1] = 16383 /\ p[2] <= 4095
    /\ Within(Of("v6", p), <<8194, 0, 0, 16>>) <=> p[1] = 8194
    /\ Within(Of("v6", p), <<9760, 79, 32768, 48>>) <=> p[1] = 9760 /\ p[2] = 79 /\ p[3] = 32768
    /\ Within(Of("v6", p), <<16382, 0, 0, 16>>) <=> p[1] = 16382
<1>1. Within(Of("v6", p), <<0, 0, 0, 3>>) <=> p[1] <= 8191
  <2>1. Within(Of("v6", p), <<0, 0, 0, 3>>) <=>
          p[1] \div 8192 = 0 \div 8192 /\ p[2] \div 65536 = 0 \div 65536
          /\ p[3] \div 65536 = 0 \div 65536
    BY V6Units, PrefixParts
  <2> QED BY <2>1, V6Bounds
<1>2. Within(Of("v6", p), <<16384, 0, 0, 2>>) <=> 16384 <= p[1] /\ p[1] <= 32767
  <2>1. Within(Of("v6", p), <<16384, 0, 0, 2>>) <=>
          p[1] \div 16384 = 16384 \div 16384 /\ p[2] \div 65536 = 0 \div 65536
          /\ p[3] \div 65536 = 0 \div 65536
    BY V6Units, PrefixParts
  <2> QED BY <2>1, V6Bounds
<1>3. Within(Of("v6", p), <<32768, 0, 0, 1>>) <=> 32768 <= p[1]
  <2>1. Within(Of("v6", p), <<32768, 0, 0, 1>>) <=>
          p[1] \div 32768 = 32768 \div 32768 /\ p[2] \div 65536 = 0 \div 65536
          /\ p[3] \div 65536 = 0 \div 65536
    BY V6Units, PrefixParts
  <2> QED BY <2>1, V6Bounds
<1>4. Within(Of("v6", p), <<8193, 0, 0, 23>>) <=> p[1] = 8193 /\ p[2] <= 511
  <2>1. Within(Of("v6", p), <<8193, 0, 0, 23>>) <=>
          p[1] \div 1 = 8193 \div 1 /\ p[2] \div 512 = 0 \div 512 /\ p[3] \div 65536 = 0 \div 65536
    BY V6Units, PrefixParts
  <2> QED BY <2>1, V6Bounds
<1>5. Within(Of("v6", p), <<8193, 3512, 0, 32>>) <=> p[1] = 8193 /\ p[2] = 3512
  <2>1. Within(Of("v6", p), <<8193, 3512, 0, 32>>) <=>
          p[1] \div 1 = 8193 \div 1 /\ p[2] \div 1 = 3512 \div 1 /\ p[3] \div 65536 = 0 \div 65536
    BY V6Units, PrefixParts
  <2> QED BY <2>1, V6Bounds
<1>6. Within(Of("v6", p), <<16383, 0, 0, 20>>) <=> p[1] = 16383 /\ p[2] <= 4095
  <2>1. Within(Of("v6", p), <<16383, 0, 0, 20>>) <=>
          p[1] \div 1 = 16383 \div 1 /\ p[2] \div 4096 = 0 \div 4096
          /\ p[3] \div 65536 = 0 \div 65536
    BY V6Units, PrefixParts
  <2> QED BY <2>1, V6Bounds
<1>7. Within(Of("v6", p), <<8194, 0, 0, 16>>) <=> p[1] = 8194
  <2>1. Within(Of("v6", p), <<8194, 0, 0, 16>>) <=>
          p[1] \div 1 = 8194 \div 1 /\ p[2] \div 65536 = 0 \div 65536
          /\ p[3] \div 65536 = 0 \div 65536
    BY V6Units, PrefixParts
  <2> QED BY <2>1, V6Bounds
<1>8. Within(Of("v6", p), <<9760, 79, 32768, 48>>) <=> p[1] = 9760 /\ p[2] = 79 /\ p[3] = 32768
  <2>1. Within(Of("v6", p), <<9760, 79, 32768, 48>>) <=>
          p[1] \div 1 = 9760 \div 1 /\ p[2] \div 1 = 79 \div 1 /\ p[3] \div 1 = 32768 \div 1
    BY V6Units, PrefixParts
  <2> QED BY <2>1, V6Bounds
<1>9. Within(Of("v6", p), <<16382, 0, 0, 16>>) <=> p[1] = 16382
  <2>1. Within(Of("v6", p), <<16382, 0, 0, 16>>) <=>
          p[1] \div 1 = 16382 \div 1 /\ p[2] \div 65536 = 0 \div 65536
          /\ p[3] \div 65536 = 0 \div 65536
    BY V6Units, PrefixParts
  <2> QED BY <2>1, V6Bounds
<1> QED BY <1>1, <1>2, <1>3, <1>4, <1>5, <1>6, <1>7, <1>8, <1>9

\* For every address: what is_public_address accepts is exactly what no registry of
\* special-purpose addresses lists.
THEOREM PublicExactly ==
  \A f \in AddressFamily : \A p \in Parts(f) :
    IsPublicAddress(Of(f, p)) <=> ~IsSpecial(Of(f, p))
<1>1. ASSUME NEW p \in Parts("v4")
      PROVE  IsPublicAddress(Of("v4", p)) <=> ~IsSpecial(Of("v4", p))
  <2> DEFINE In(q) == Within(Of("v4", p), q)
  <2>1. IsSpecial(Of("v4", p)) <=>
          \/ In(<<0, 0, 0, 8>>) \/ In(<<10, 0, 0, 8>>) \/ In(<<172, 16, 0, 12>>)
          \/ In(<<192, 168, 0, 16>>) \/ In(<<100, 64, 0, 10>>) \/ In(<<127, 0, 0, 8>>)
          \/ In(<<169, 254, 0, 16>>) \/ In(<<192, 0, 0, 24>>) \/ In(<<192, 0, 2, 24>>)
          \/ In(<<198, 51, 100, 24>>) \/ In(<<203, 0, 113, 24>>) \/ In(<<192, 31, 196, 24>>)
          \/ In(<<192, 175, 48, 24>>) \/ In(<<192, 52, 193, 24>>) \/ In(<<192, 88, 99, 24>>)
          \/ In(<<198, 18, 0, 15>>) \/ In(<<224, 0, 0, 4>>) \/ In(<<240, 0, 0, 4>>)
    <3>1. IsSpecial(Of("v4", p)) <=> \E q \in Special("v4") : In(q)
      BY DEF IsSpecial, Of
    <3> HIDE DEF In
    <3> QED BY <3>1 DEF Special
  <2>2. IsPublicAddress(Of("v4", p)) <=> IsPublicIpv4(p[1], p[2], p[3])
    BY DEF IsPublicAddress, Of
  <2>3. /\ p[1] \in Int /\ 0 <= p[1] /\ p[1] <= 255
        /\ p[2] \in Int /\ 0 <= p[2] /\ p[3] \in Int
    BY V4Bounds
  <2> QED BY <2>1, <2>2, <2>3, V4Ranges DEF IsPublicIpv4
<1>2. ASSUME NEW p \in Parts("v6")
      PROVE  IsPublicAddress(Of("v6", p)) <=> ~IsSpecial(Of("v6", p))
  <2> DEFINE In(q) == Within(Of("v6", p), q)
  <2>1. IsSpecial(Of("v6", p)) <=>
          \/ In(<<0, 0, 0, 3>>) \/ In(<<16384, 0, 0, 2>>) \/ In(<<32768, 0, 0, 1>>)
          \/ In(<<8193, 0, 0, 23>>) \/ In(<<8193, 3512, 0, 32>>) \/ In(<<16383, 0, 0, 20>>)
          \/ In(<<8194, 0, 0, 16>>) \/ In(<<9760, 79, 32768, 48>>) \/ In(<<16382, 0, 0, 16>>)
    <3>1. IsSpecial(Of("v6", p)) <=> \E q \in Special("v6") : In(q)
      BY DEF IsSpecial, Of
    <3> HIDE DEF In
    <3> QED BY <3>1 DEF Special
  <2>2. IsPublicAddress(Of("v6", p)) <=> IsPublicIpv6(p[1], p[2], p[3])
    BY DEF IsPublicAddress, Of
  <2>3. /\ p[1] \in Int /\ 0 <= p[1] /\ p[1] <= 65535
        /\ p[2] \in Int /\ 0 <= p[2] /\ p[2] <= 65535 /\ p[3] \in Int
    BY V6Bounds
  <2>4. /\ p[1] \div 8192 = 1 <=> 8192 <= p[1] /\ p[1] <= 16383
        /\ p[2] \div 4096 = 0 <=> p[2] <= 4095
    BY <2>3
  <2> QED BY <2>1, <2>2, <2>3, <2>4, V6Ranges DEF IsPublicIpv6
<1> QED BY <1>1, <1>2 DEF AddressFamily
-----------------------------------------------------------------------------
(* Answers *)

AnyAddress == UNION {{Of(f, p) : p \in Parts(f)} : f \in AddressFamily}
AnyLine == Line \cup {Ip(a) : a \in AnyAddress} \cup {Plain(a) : a \in AnyAddress}
AnyReply ==
  [ok : BOOLEAN, declared : Nat,
   arrived : {sizes \in Seq(Nat) : \A i, j \in DOMAIN sizes : i <= j => sizes[i] <= sizes[j]},
   utf8 : BOOLEAN, lines : Seq(AnyLine)]

\* The address that stands alone in the lines of an answer.
Single(lines, f) ==
  \E i \in DOMAIN lines :
    /\ lines[i].says = "ip" \/ (lines[i].says = "plain" /\ Len(lines) = 1)
    /\ lines[i].addr.family = f
    /\ ~IsSpecial(lines[i].addr)
    /\ \A j \in DOMAIN lines : j # i => lines[j].says \notin {"ip", "junk"}

\* An address is accepted for its family and for not being special.
LEMMA JudgeExactly ==
  ASSUME NEW a \in AnyAddress, NEW f
  PROVE  Judge(a, f).accepted <=> a.family = f /\ ~IsSpecial(a)
<1>1. PICK g \in AddressFamily : \E p \in Parts(g) : a = Of(g, p)
  BY DEF AnyAddress
<1>2. IsPublicAddress(a) <=> ~IsSpecial(a)
  BY <1>1, PublicExactly
<1>3. Judge(a, f).accepted <=> a.family = f /\ IsPublicAddress(a)
  BY DEF Judge, Rejected, Accepted
<1> QED BY <1>2, <1>3

\* What a line is.
LEMMA LineShape ==
  ASSUME NEW l \in AnyLine
  PROVE  /\ l.says \in {"other", "blank", "junk", "ip", "plain"}
         /\ l.says \in {"ip", "plain"} => l.addr \in AnyAddress
  BY DEF AnyLine, Line, Ip, Plain

\* The lines give an address when exactly one of them has a value, and that is one.
LEMMA ParseExactly ==
  ASSUME NEW lines \in Seq(AnyLine), NEW f
  PROVE  ParseProviderResponse(lines, f).accepted <=> Single(lines, f)
<1> DEFINE outcome == ParseProviderResponse(lines, f)
<1>1. /\ Len(lines) \in Nat /\ DOMAIN lines = 1..Len(lines)
      /\ \A i \in DOMAIN lines : lines[i] \in AnyLine
  OBVIOUS
<1>2. \A i \in DOMAIN lines :
        /\ lines[i].says \in {"other", "blank", "junk", "ip", "plain"}
        /\ lines[i].says \in {"ip", "plain"} => lines[i].addr \in AnyAddress
  BY <1>1, LineShape
<1>3. CASE lines = <<>>
  <2>1. outcome.accepted = FALSE
    BY <1>3 DEF ParseProviderResponse, Rejected
  <2> QED BY <1>3, <2>1 DEF Single
<1>4. CASE lines # <<>> /\ Len(lines) = 1 /\ lines[1].says = "plain"
  <2>1. outcome = Judge(lines[1].addr, f)
    BY <1>4 DEF ParseProviderResponse
  <2>2. 1 \in DOMAIN lines /\ \A i \in DOMAIN lines : i = 1
    BY <1>1, <1>4
  <2>3. outcome.accepted <=> lines[1].addr.family = f /\ ~IsSpecial(lines[1].addr)
    BY <1>2, <1>4, <2>1, <2>2, JudgeExactly
  <2> QED BY <1>4, <2>2, <2>3 DEF Single
<1>5. CASE lines # <<>> /\ ~(Len(lines) = 1 /\ lines[1].says = "plain")
  <2>1. \A i \in DOMAIN lines : ~(lines[i].says = "plain" /\ Len(lines) = 1)
    BY <1>1, <1>5
  <2>2. CASE ~\E i \in DOMAIN lines : Values(lines) = {i}
    <3>1. outcome.accepted = FALSE
      BY <1>5, <2>2 DEF ParseProviderResponse, Rejected
    <3>2. ~Single(lines, f)
      <4> SUFFICES ASSUME NEW i \in DOMAIN lines, lines[i].says = "ip",
                          \A j \in DOMAIN lines : j # i => lines[j].says \notin {"ip", "junk"}
                   PROVE  FALSE
        BY <2>1 DEF Single
      <4>1. Values(lines) = {i}
        BY DEF Values
      <4> QED BY <2>2, <4>1
    <3> QED BY <3>1, <3>2
  <2>3. CASE \E i \in DOMAIN lines : Values(lines) = {i}
    <3>1. PICK i \in DOMAIN lines : Values(lines) = {i}
      BY <2>3
    <3>2. (CHOOSE k \in DOMAIN lines : Values(lines) = {k}) = i
      BY <3>1
    <3>3. outcome = Parse(lines, i, f)
      BY <1>5, <2>3, <3>2 DEF ParseProviderResponse
    <3>4. /\ lines[i].says \in {"ip", "junk"}
          /\ \A j \in DOMAIN lines : j # i => lines[j].says \notin {"ip", "junk"}
      BY <3>1 DEF Values
    <3>5. Single(lines, f) <=> /\ lines[i].says = "ip" /\ lines[i].addr.family = f
                               /\ ~IsSpecial(lines[i].addr)
      BY <2>1, <3>4 DEF Single
    <3>6. CASE lines[i].says = "junk"
      <4>1. outcome.accepted = FALSE
        BY <3>3, <3>6 DEF Parse, Rejected
      <4> QED BY <3>5, <3>6, <4>1
    <3>7. CASE lines[i].says = "ip"
      <4>1. outcome = Judge(lines[i].addr, f)
        BY <3>3, <3>7 DEF Parse
      <4> QED BY <1>2, <3>5, <3>7, <4>1, JudgeExactly
    <3> QED BY <3>4, <3>6, <3>7
  <2> QED BY <2>2, <2>3
<1> QED BY <1>3, <1>4, <1>5

\* For every answer, whatever its chunks, lines and addresses: query_provider accepts
\* it exactly when it holds one public address of the family asked for and nothing
\* else that could be one, in a body within the limit.
THEOREM AnswersExactly ==
  \A r \in AnyReply, f \in AddressFamily : QueryProvider(r, f).accepted <=> Deserves(r, f)
<1> SUFFICES ASSUME NEW r \in AnyReply, NEW f \in AddressFamily
             PROVE  QueryProvider(r, f).accepted <=> Deserves(r, f)
  OBVIOUS
<1> DEFINE outcome == QueryProvider(r, f)
           sizes == r.arrived
           Large == \E k \in DOMAIN sizes : sizes[k] > MaxResponse
<1>1. /\ r.ok \in BOOLEAN /\ r.utf8 \in BOOLEAN /\ r.declared \in Nat /\ r.lines \in Seq(AnyLine)
      /\ sizes \in Seq(Nat)
      /\ \A i, j \in DOMAIN sizes : i <= j => sizes[i] <= sizes[j]
  BY DEF AnyReply
<1>2. Large <=> ~(sizes # <<>> => sizes[Len(sizes)] <= MaxResponse)
  <2> HIDE DEF sizes
  <2>1. /\ Len(sizes) \in Nat /\ DOMAIN sizes = 1..Len(sizes) /\ MaxResponse \in Nat
        /\ \A k \in DOMAIN sizes : sizes[k] \in Nat
    BY <1>1, PublicIpAssumption
  <2>2. CASE sizes = <<>>
    BY <2>2
  <2>3. CASE sizes # <<>>
    <3>1. Len(sizes) \in DOMAIN sizes
      BY <1>1, <2>1, <2>3
    <3>2. \A k \in DOMAIN sizes : sizes[k] <= sizes[Len(sizes)]
      BY <1>1, <2>1, <3>1
    <3> QED BY <2>1, <2>3, <3>1, <3>2
  <2> QED BY <2>2, <2>3
<1>3. Deserves(r, f) <=> r.ok /\ r.utf8 /\ r.declared <= MaxResponse /\ ~Large /\ Single(r.lines, f)
  <2> HIDE DEF Large
  <2> QED BY <1>2 DEF Deserves, Single
<1>4. r.declared > MaxResponse <=> ~(r.declared <= MaxResponse)
  BY <1>1, PublicIpAssumption
<1>5. outcome = IF ~r.ok THEN Rejected("HttpStatus")
               ELSE IF r.declared > MaxResponse THEN Rejected("ResponseTooLarge")
               ELSE IF Large THEN Rejected("ResponseTooLarge")
               ELSE IF ~r.utf8 THEN Rejected("NonUtf8Response")
               ELSE ParseProviderResponse(r.lines, f)
  BY DEF QueryProvider
<1>6. \A why : Rejected(why).accepted = FALSE
  BY DEF Rejected
<1>7. ParseProviderResponse(r.lines, f).accepted <=> Single(r.lines, f)
  BY <1>1, ParseExactly
<1> QED
  <2> HIDE DEF Large, outcome
  <2>1. CASE ~r.ok \/ r.declared > MaxResponse \/ Large \/ ~r.utf8
    <3>1. \E why : outcome = Rejected(why)
      BY <1>5, <2>1, Zenon
    <3>2. outcome.accepted = FALSE
      BY <1>6, <3>1, Zenon
    <3>3. ~Deserves(r, f)
      BY <1>3, <1>4, <2>1, Zenon
    <3> QED BY <3>2, <3>3, Zenon DEF outcome
  <2>2. CASE ~(~r.ok \/ r.declared > MaxResponse \/ Large \/ ~r.utf8)
    <3>1. outcome = ParseProviderResponse(r.lines, f)
      BY <1>5, <2>2, Zenon
    <3>2. Deserves(r, f) <=> Single(r.lines, f)
      BY <1>3, <1>4, <2>2, Zenon
    <3> QED BY <1>7, <3>1, <3>2, Zenon DEF outcome
  <2>3. QED BY <2>1, <2>2, Zenon

\* The addresses the run looks at are addresses.
LEMMA EdgesAreAddresses == \A f \in AddressFamily : Edges(f) \subseteq AnyAddress
<1> SUFFICES ASSUME NEW f \in AddressFamily, NEW a \in Edges(f)
             PROVE  a \in AnyAddress
  OBVIOUS
<1> DEFINE w == Width(f)
           Ends(prefix) ==
             {<<prefix[1], prefix[2], prefix[3]>>,
              [k \in 1..3 |-> prefix[k] + 2 ^ (w - Bits(prefix[4], k, w)) - 1]}
           Near(p) == {p} \cup {[p EXCEPT ![k] = @ + d] : k \in 1..3, d \in {-1, 1}}
           Triple(p) == p \in [1..3 -> {p[k] : k \in 1..3}]
<1>1. PICK q \in UNION {Near(p) : p \in UNION {Ends(prefix) : prefix \in Special(f)}} :
        /\ \A k \in 1..3 : q[k] \in 0..(2 ^ w - 1)
        /\ a = [family |-> f, part |-> q]
  BY DEF Edges
<1>2. PICK prefix \in Special(f) : \E p \in Ends(prefix) : q \in Near(p)
  <2> HIDE DEF Ends, Near
  <2> QED OBVIOUS
<1>3. PICK p \in Ends(prefix) : q \in Near(p)
  BY <1>2
<1>4. Triple(p)
  <2>1. CASE p = <<prefix[1], prefix[2], prefix[3]>>
    BY <2>1
  <2>2. CASE p = [k \in 1..3 |-> prefix[k] + 2 ^ (w - Bits(prefix[4], k, w)) - 1]
    <3> DEFINE e(k) == prefix[k] + 2 ^ (w - Bits(prefix[4], k, w)) - 1
    <3>1. p = [k \in 1..3 |-> e(k)]
      BY <2>2
    <3> HIDE DEF e
    <3> QED BY <3>1
  <2> QED BY <2>1, <2>2
<1>5. Triple(q)
  <2> HIDE DEF Ends
  <2>1. CASE q = p
    BY <1>4, <2>1
  <2>2. ASSUME NEW k \in 1..3, NEW d, q = [p EXCEPT ![k] = p[k] + d] PROVE Triple(q)
    <3> DEFINE x == p[k] + d
               S == {p[j] : j \in 1..3}
    <3>1. p \in [1..3 -> S] /\ q = [p EXCEPT ![k] = x]
      BY <1>4, <2>2
    <3> HIDE DEF x, S
    <3>2. DOMAIN q = 1..3 /\ q \in [1..3 -> S \cup {x}]
      BY <3>1
    <3> QED BY <3>2
  <2> QED BY <1>3, <2>1, <2>2
<1>6. q \in Parts(f)
  <2> DEFINE bound == 2 ^ w - 1
  <2>1. \A k \in 1..3 : q[k] \in 0..bound
    BY <1>1
  <2> HIDE DEF bound
  <2>2. q \in [1..3 -> 0..bound]
    BY <1>5, <2>1
  <2> QED BY <2>2 DEF Parts, bound
<1> QED BY <1>1, <1>6 DEF AnyAddress, Of

\* The two addresses of the other answers are addresses.
LEMMA SamplesAreAddresses ==
  (\A f \in AddressFamily : Good(f) \in AnyAddress) /\ Bad \in AnyAddress
<1>1. <<8, 8, 8>> \in Parts("v4") /\ <<10, 0, 0>> \in Parts("v4")
  <2>1. 2 ^ Width("v4") - 1 = 255
    BY DEF Width
  <2> QED BY <2>1 DEF Parts
<1>2. <<9734, 18176, 0>> \in Parts("v6")
  <2>1. 2 ^ Width("v6") - 1 = 65535
    BY DEF Width
  <2> QED BY <2>1 DEF Parts
<1> QED BY <1>1, <1>2 DEF Good, Bad, AnyAddress, Of, AddressFamily

\* The answers the run looks at are answers.
LEMMA RepliesAreReplies == Replies \subseteq AnyReply
<1> SUFFICES ASSUME NEW r \in Replies PROVE r \in AnyReply
  OBVIOUS
<1>1. Lines \subseteq AnyLine /\ Line \cup {Ip(Good("v4"))} \subseteq AnyLine
  BY SamplesAreAddresses DEF Lines, AnyLine, AddressFamily
<1>2. Texts \subseteq Seq(AnyLine)
  <2>1. \A n \in Nat, S \in SUBSET AnyLine : [1..n -> S] \subseteq Seq(AnyLine)
    <3> SUFFICES ASSUME NEW n \in Nat, NEW S \in SUBSET AnyLine, NEW t \in [1..n -> S]
                 PROVE  t \in Seq(AnyLine)
      OBVIOUS
    <3>1. t \in [1..n -> AnyLine]
      OBVIOUS
    <3> QED BY <3>1
  <2>2. <<>> \in Seq(AnyLine) /\ 1 \in Nat /\ 2 \in Nat /\ 3 \in Nat
    OBVIOUS
  <2> QED BY <1>1, <2>1, <2>2, Zenon DEF Texts
<1>3. \A a \in AnyAddress : <<Plain(a)>> \in Seq(AnyLine)
  BY DEF AnyLine
<1> DEFINE Sizes == {sizes \in Seq(Nat) : \A i, j \in DOMAIN sizes : i <= j => sizes[i] <= sizes[j]}
<1>4. /\ <<1>> \in Sizes /\ <<MaxResponse>> \in Sizes /\ <<MaxResponse + 1>> \in Sizes
      /\ <<MaxResponse, MaxResponse + 1>> \in Sizes
  BY PublicIpAssumption
<1>5. \A ok, utf8 \in BOOLEAN, declared \in Nat, arrived \in Sizes, lines \in Seq(AnyLine) :
        Reply(ok, declared, arrived, utf8, lines) \in AnyReply
  BY DEF Reply, AnyReply
<1> HIDE DEF Sizes
<1>6. CASE \E a \in UNION {Edges(f) : f \in AddressFamily} :
             r = Reply(TRUE, 0, <<1>>, TRUE, <<Plain(a)>>)
  BY <1>3, <1>4, <1>5, <1>6, EdgesAreAddresses
<1>7. CASE \E text \in Texts : r = Reply(TRUE, 0, <<1>>, TRUE, text)
  BY <1>2, <1>4, <1>5, <1>7
<1>8. CASE \E ok, utf8 \in BOOLEAN, declared \in {0, MaxResponse, MaxResponse + 1},
              arrived \in {<<MaxResponse>>, <<MaxResponse + 1>>, <<MaxResponse, MaxResponse + 1>>} :
             r = Reply(ok, declared, arrived, utf8, <<Plain(Good("v4"))>>)
  <2>1. {0, MaxResponse, MaxResponse + 1} \subseteq Nat
    BY PublicIpAssumption
  <2>2. <<Plain(Good("v4"))>> \in Seq(AnyLine)
    BY <1>3, SamplesAreAddresses DEF AddressFamily
  <2>3. PICK ok \in BOOLEAN, utf8 \in BOOLEAN, declared \in {0, MaxResponse, MaxResponse + 1},
             arrived \in {<<MaxResponse>>, <<MaxResponse + 1>>, <<MaxResponse, MaxResponse + 1>>} :
             r = Reply(ok, declared, arrived, utf8, <<Plain(Good("v4"))>>)
    BY <1>8
  <2>4. declared \in Nat /\ arrived \in Sizes
    BY <1>4, <2>1
  <2> QED BY <1>5, <2>2, <2>3, <2>4, Zenon
<1> DEFINE Shown == {Reply(TRUE, 0, <<1>>, TRUE, <<Plain(a)>>) :
                       a \in UNION {Edges(f) : f \in AddressFamily}}
           Written == {Reply(TRUE, 0, <<1>>, TRUE, text) : text \in Texts}
           Sent == {Reply(ok, declared, arrived, utf8, <<Plain(Good("v4"))>>) :
                      ok \in BOOLEAN, declared \in {0, MaxResponse, MaxResponse + 1},
                      arrived \in {<<MaxResponse>>, <<MaxResponse + 1>>,
                                   <<MaxResponse, MaxResponse + 1>>},
                      utf8 \in BOOLEAN}
<1>9. r \in Shown \/ r \in Written \/ r \in Sent
  <2>1. Replies = Shown \cup Written \cup Sent
    BY DEF Replies
  <2> HIDE DEF Shown, Written, Sent
  <2> QED BY <2>1
<1>10. ASSUME r \in Shown PROVE r \in AnyReply
  BY <1>6, <1>10
<1>11. ASSUME r \in Written PROVE r \in AnyReply
  BY <1>7, <1>11
<1>12. ASSUME r \in Sent PROVE r \in AnyReply
  BY <1>8, <1>12
<1> HIDE DEF Shown, Written, Sent
<1> QED BY <1>9, <1>10, <1>11, <1>12

\* The answer that was looked into was judged by query_provider.
Judged ==
  /\ family \in AddressFamily
  /\ last # NoReply =>
       last.reply \in AnyReply /\ (last.accepted <=> QueryProvider(last.reply, family).accepted)

\* For any number of providers, any answering times and any limit: an answer of a
\* provider is taken for the host's address exactly when it should be.
THEOREM AlwaysAcceptsExactlyPublic == ProviderSpec => []AcceptsExactlyPublic
<1>1. ProviderInit => Judged
  BY DEF ProviderInit, Judged
<1>2. Judged /\ [ProviderNext]_allVars => Judged'
  <2> SUFFICES ASSUME Judged, [ProviderNext]_allVars PROVE Judged'
    OBVIOUS
  <2>1. CASE UNCHANGED <<family, last>>
    BY <2>1 DEF Judged
  <2>2. CASE ProviderAnswered /\ last' # last
    <3>1. family' = family
      BY <2>2 DEF ProviderAnswered
    <3>2. PICK r \in Replies, yes \in BOOLEAN :
            /\ last' = [reply |-> r, accepted |-> yes]
            /\ yes <=> r \in Usable[family]
      <4>1. \A f \in AddressFamily : Usable[f] \subseteq Replies
        BY DEF Usable
      <4>2. \/ \E r \in Usable[family] : last' = [reply |-> r, accepted |-> TRUE]
            \/ \E r \in Replies \ Usable[family] : last' = [reply |-> r, accepted |-> FALSE]
        BY <2>2 DEF ProviderAnswered
      <4>3. CASE \E r \in Usable[family] : last' = [reply |-> r, accepted |-> TRUE]
        BY <4>1, <4>3, Zenon DEF Judged
      <4>4. CASE \E r \in Replies \ Usable[family] : last' = [reply |-> r, accepted |-> FALSE]
        BY <4>4, Zenon
      <4> QED BY <4>2, <4>3, <4>4
    <3>3. r \in Usable[family] <=> QueryProvider(r, family).accepted
      BY DEF Usable, Judged
    <3>4. last'.reply = r /\ last'.accepted = yes
      BY <3>2
    <3>5. r \in AnyReply
      BY RepliesAreReplies
    <3> QED BY <3>1, <3>2, <3>3, <3>4, <3>5 DEF Judged
  <2> QED BY <2>1, <2>2 DEF ProviderNext, ProviderAnswered, ProviderSilent, allVars
<1>3. Judged => AcceptsExactlyPublic
  BY AnswersExactly DEF Judged, AcceptsExactlyPublic
<1> QED BY <1>1, <1>2, <1>3, PTL DEF ProviderSpec

\* Looking into the answers adds nothing to discovery and takes nothing away from what it
\* promises: the providers with their answers implement Discovery, so that the call ends
\* in time and starves no provider for ProviderSpec too.
THEOREM ProvidersImplementDiscovery == ProviderSpec => Spec
<1>1. ProviderInit => Init
  BY DEF ProviderInit
<1>2. [ProviderNext]_allVars => [Next]_vars
  BY DEF ProviderNext, ProviderAnswered, ProviderSilent, Next, allVars
<1> QED BY <1>1, <1>2, PTL DEF ProviderSpec, Spec
=============================================================================
