----------------------------- MODULE SyncProofs -----------------------------
(***************************************************************************)
(* What a cycle of Sync promises holds for every configuration, whatever     *)
(* fails, is lost, comes late or is changed by others, and however often.    *)
(***************************************************************************)
EXTENDS Sync, FiniteSetTheorems, TLAPS

EntrySet == [id : Nat, addr : Addr, managed : BOOLEAN]

\* Where the daemon is between cycles, and where it plans a record.
Idle == {"stopped", "sleep", "discover"}
Working == {"zone", "find", "recheck", "mutate"}

TypeInv ==
  /\ public \in [Family -> Addr]
  /\ zoneId \in [Zone -> Nat] /\ lastZoneId \in Nat
  /\ dns \in [Record -> SUBSET EntrySet]
  /\ lastEntry \in [Record -> Nat]
  /\ zombies \in SUBSET Request
  /\ pc \in Idle \cup Working \cup {"next"}
  /\ cursor \in 0..(N - 1) /\ start \in 0..(N - 1) /\ offset \in 0..N
  /\ found \in [Family -> Addr \cup {NoAddr}]
  /\ cache \in [Keys -> Nat] /\ zid \in Nat
  /\ req \in Request \cup {NoReq}
  /\ late \in BOOLEAN /\ stop \in BOOLEAN
  /\ failures \in SUBSET Kind /\ interrupted \in BOOLEAN
  /\ calm \in BOOLEAN
  /\ foreign \in [Record -> Nat]
  /\ faults \in Nat /\ changes \in Nat

\* A mutation is in flight in one place only; it is the one of the record under
\* work.  A signal is pending only while one is, or just after it.
Shape ==
  /\ pc = "mutate" <=> req # NoReq
  /\ stop => pc \in {"mutate", "next"}
  /\ pc \in Idle => offset = 0
  /\ pc \in Working => offset < N /\ found[FamilyOf[Current]] # NoAddr
  /\ pc = "mutate" => req.rec = Current /\ req.addr = found[FamilyOf[Current]]

\* NoDuplicates with its reason: a creation in flight has found nothing but what
\* others have added since.
Single ==
  /\ \A r \in Record : IsFiniteSet(dns[r])
  /\ NoDuplicates
  /\ pc = "mutate" /\ req.status = "sent" /\ req.kind = "create" =>
       Cardinality(dns[req.rec]) <= foreign[req.rec]

\* In a calm cycle the mutation in flight still fits what the lookup found, and
\* one that was applied is there to see.
Unharmed ==
  calm /\ pc = "mutate" =>
    /\ req.status = "sent" /\ req.kind = "update" =>
         \E e \in dns[req.rec] : dns[req.rec] = {e} /\ e.id = req.entry
    /\ req.status = "sent" /\ req.kind = "create" => dns[req.rec] = {}
    /\ req.status = "applied" =>
         \E e \in dns[req.rec] : dns[req.rec] = {e} /\ e.addr = req.addr /\ e.managed

\* The record a cycle comes to after k others.
Nth(k) == ((start + k) % N) + 1

\* In a calm cycle without a failure, the addresses found are the host's and
\* the records already handled are in sync.
SyncedSoFar ==
  calm /\ failures = {} /\ pc \notin Idle =>
    /\ found = public
    /\ \A k \in 0..(offset - 1) : InSync(Nth(k))

IInv == TypeInv /\ Shape /\ Single /\ Unharmed /\ SyncedSoFar /\ SuccessMeansSynced
-----------------------------------------------------------------------------
(* Arithmetic and finite sets *)

\* The remainder of a number below 2n.
LEMMA Remainder ==
  ASSUME NEW n \in Nat \ {0}, NEW a \in Nat, a < n + n
  PROVE  a % n = IF a < n THEN a ELSE a - n
<1>1. CASE a < n
  BY <1>1, SMT
<1>2. CASE ~(a < n)
  BY <1>2, SMT
<1> QED
  BY <1>1, <1>2

\* A position of the plan names a record.
LEMMA NthIsRecord ==
  ASSUME TypeInv, NEW k \in 0..(N - 1)
  PROVE  Nth(k) \in Record
<1>1. N \in Nat \ {0} /\ start \in Nat /\ start + k < N + N /\ start + k \in Nat /\ start < N
  BY SyncAssumption DEF TypeInv
<1>2. (start + k) % N \in 0..(N - 1)
  BY <1>1, Remainder
<1> QED
  BY <1>1, <1>2 DEF Nth, Record

\* A cycle comes to every record.
LEMMA EveryRecordHasATurn ==
  ASSUME TypeInv, NEW r \in Record
  PROVE  \E k \in 0..(N - 1) : Nth(k) = r
<1> DEFINE k == IF start < r THEN r - 1 - start ELSE r - 1 - start + N
<1>1. /\ N \in Nat \ {0} /\ start \in Nat /\ start < N /\ r \in 1..N
  BY SyncAssumption DEF TypeInv, Record
<1>2. k \in 0..(N - 1)
  BY <1>1
<1> DEFINE a == start + k
<1>3. a \in Nat /\ a < N + N /\ (IF a < N THEN a ELSE a - N) = r - 1
  BY <1>1
<1> HIDE DEF a
<1> DEFINE m == a % N
<1>4. m = IF a < N THEN a ELSE a - N
  BY <1>1, <1>3, Remainder, Zenon
<1> HIDE DEF m
<1>5. m + 1 = r
  <2>1. m = r - 1 /\ r \in Int
    BY <1>1, <1>3, <1>4
  <2> QED
    BY <2>1
<1> HIDE DEF k
<1>6. Nth(k) = r
  BY <1>5 DEF Nth, a, m
<1> QED
  BY <1>2, <1>6

\* Replacing one entry by another makes a set no larger.
LEMMA Replaced ==
  ASSUME NEW S, IsFiniteSet(S), NEW T \in SUBSET S, NEW x \in S \ T, NEW y
  PROVE  IsFiniteSet(T \cup {y}) /\ Cardinality(T \cup {y}) <= Cardinality(S)
<1>1. IsFiniteSet(S \ {x}) /\ Cardinality(S \ {x}) = Cardinality(S) - 1
  BY FS_RemoveElement
<1>2. IsFiniteSet(T) /\ Cardinality(T) <= Cardinality(S) - 1
  <2>1. T \in SUBSET (S \ {x})
    OBVIOUS
  <2> QED
    BY <1>1, <2>1, FS_Subset
<1>3. /\ IsFiniteSet(T \cup {y})
      /\ Cardinality(T \cup {y}) = IF y \in T THEN Cardinality(T) ELSE Cardinality(T) + 1
  BY <1>2, FS_AddElement
<1>4. Cardinality(T) \in Nat /\ Cardinality(S) \in Nat
  BY <1>2, FS_CardinalityType
<1> QED
  BY <1>2, <1>3, <1>4

\* Adding an entry makes a set larger by at most one.
LEMMA Added ==
  ASSUME NEW S, IsFiniteSet(S), NEW y
  PROVE  /\ IsFiniteSet(S \cup {y}) /\ Cardinality(S) \in Nat
         /\ Cardinality(S \cup {y}) \in Nat /\ Cardinality(S \cup {y}) <= Cardinality(S) + 1
<1>1. IsFiniteSet(S \cup {y}) /\ Cardinality(S \cup {y}) = IF y \in S THEN Cardinality(S) ELSE Cardinality(S) + 1
  BY FS_AddElement
<1>2. Cardinality(S) \in Nat
  BY FS_CardinalityType
<1> QED
  BY <1>1, <1>2

\* The absence of a request is no request.
LEMMA NoReqIsNoRequest == NoReq \notin Request
<1>1. \A q \in Request : q.kind # "none"
  BY DEF Request
<1> QED
  BY <1>1 DEF NoReq
-----------------------------------------------------------------------------
(* How a step of the process ends *)

\* The step changes nothing in Cloudflare's records.
Quiet ==
  /\ UNCHANGED <<public, zoneId, lastZoneId, dns, lastEntry, calm, foreign>>
  /\ zombies' \in SUBSET Request
  /\ faults' \in Nat /\ changes' \in Nat

\* The state of the world keeps its type.
LEMMA QuietType ==
  ASSUME TypeInv, Quiet
  PROVE  /\ public' \in [Family -> Addr]
         /\ zoneId' \in [Zone -> Nat] /\ lastZoneId' \in Nat
         /\ dns' \in [Record -> SUBSET EntrySet]
         /\ lastEntry' \in [Record -> Nat]
         /\ zombies' \in SUBSET Request
         /\ calm' \in BOOLEAN
         /\ foreign' \in [Record -> Nat]
         /\ faults' \in Nat /\ changes' \in Nat
  BY DEF TypeInv, Quiet

\* No record is touched, and no creation is sent.
LEMMA QuietSingle ==
  ASSUME IInv, Quiet, pc' # "mutate"
  PROVE  Single'
  BY DEF IInv, Quiet, Single, NoDuplicates

\* CycleDropped preserves the inductive invariant.
LEMMA CycleDroppedSafe ==
  ASSUME IInv, Quiet, CycleDropped, req' = NoReq, pc' \in {"stopped", "sleep"}, stop' = FALSE,
         cursor' \in 0..(N - 1), cache' \in [Keys -> Nat],
         failures' \in SUBSET Kind, interrupted' \in BOOLEAN,
         pc' = "sleep" /\ failures' = {} /\ ~interrupted' /\ calm => \A r \in Record : InSync(r)
  PROVE  IInv'
<1>1. TypeInv'
  <2>1. 0 \in 0..(N - 1) /\ 0 \in 0..N
    BY SyncAssumption
  <2> QED
    BY <2>1, QuietType DEF IInv, TypeInv, CycleDropped, NothingFound, NoId, Idle
<1>2. Shape'
  BY DEF Shape, Idle, Working, CycleDropped
<1>3. Single'
  BY QuietSingle
<1>4. Unharmed' /\ SyncedSoFar'
  BY DEF Unharmed, SyncedSoFar, Idle
<1>5. SuccessMeansSynced'
  BY DEF Quiet, SuccessMeansSynced, InSync
<1> QED
  BY <1>1, <1>2, <1>3, <1>4, <1>5 DEF IInv

\* ProcessGone preserves the inductive invariant.
LEMMA ProcessGoneSafe ==
  ASSUME IInv, Quiet, ProcessGone, req' = NoReq
  PROVE  IInv'
<1>1. EmptyCache \in [Keys -> Nat] /\ 0 \in 0..(N - 1)
  BY SyncAssumption DEF EmptyCache, NoId
<1> QED
  BY <1>1, CycleDroppedSafe DEF ProcessGone

\* EndCycle preserves the inductive invariant.
LEMMA EndCycleSafe ==
  ASSUME IInv, Quiet, NEW kinds \in SUBSET Kind, NEW cut \in BOOLEAN,
         NEW newCache \in [Keys -> Nat], EndCycle(kinds, cut, newCache), req' = NoReq,
         calm /\ failures = {} /\ kinds = {} /\ ~cut => \A r \in Record : InSync(r)
  PROVE  IInv'
<1>1. CASE stop
  BY <1>1, ProcessGoneSafe DEF EndCycle
<1>2. CASE ~stop
  <2>1. /\ CycleDropped /\ pc' = "sleep" /\ cache' = newCache
        /\ failures' = failures \cup kinds /\ interrupted' = cut
        /\ cursor' = cursor /\ stop' = stop
    BY <1>2 DEF EndCycle
  <2>2. stop' = FALSE /\ cursor' \in 0..(N - 1) /\ failures' \in SUBSET Kind
    BY <1>2, <2>1 DEF IInv, TypeInv
  <2> QED
    BY <2>1, <2>2, CycleDroppedSafe
<1> QED
  BY <1>1, <1>2

\* The cycle's locals, when the cycle goes on.
LEMMA NextRecordSafe ==
  ASSUME IInv, Quiet, NEW kinds \in SUBSET Kind, NEW newCache \in [Keys -> Nat],
         NextRecord(kinds, newCache), req' = NoReq,
         offset < N, pc \notin Idle,
         calm /\ failures = {} /\ kinds = {} => InSync(Current)
  PROVE  IInv'
<1>1. /\ failures' = failures \cup kinds /\ offset' = offset + 1 /\ pc' = "next"
      /\ zid' = NoId /\ cache' = newCache
      /\ UNCHANGED <<cursor, start, found, late, stop, interrupted>>
  BY DEF NextRecord
<1>2. N \in Nat /\ offset \in Nat /\ offset' \in 0..N /\ offset \in 0..(N - 1)
  BY <1>1, SyncAssumption DEF IInv, TypeInv
<1>3. TypeInv'
  BY <1>1, <1>2, QuietType DEF IInv, TypeInv, NoId
<1>4. Shape'
  BY <1>1 DEF Shape, Idle, Working
<1>5. Single'
  BY <1>1, QuietSingle
<1>6. Unharmed' /\ SuccessMeansSynced'
  BY <1>1 DEF Unharmed, SuccessMeansSynced
<1>7. SyncedSoFar'
  <2> SUFFICES ASSUME calm, failures = {}, kinds = {}
               PROVE  found' = public' /\ \A k \in 0..(offset' - 1) : InSync(Nth(k))'
    BY <1>1 DEF Quiet, SyncedSoFar
  <2>1. found = public /\ \A k \in 0..(offset - 1) : InSync(Nth(k))
    BY DEF IInv, SyncedSoFar
  <2>2. Nth(offset) = Current
    BY DEF Nth, Current
  <2>3. \A k \in 0..(offset' - 1) : k \in 0..(offset - 1) \/ k = offset
    BY <1>1, <1>2
  <2>4. \A k \in 0..(offset' - 1) : InSync(Nth(k))
    BY <2>1, <2>2, <2>3
  <2> QED
    BY <1>1, <2>1, <2>4 DEF Quiet, InSync, Nth
<1> QED
  BY <1>3, <1>4, <1>5, <1>6, <1>7 DEF IInv

\* RecordFails preserves the inductive invariant.
LEMMA RecordFailsSafe ==
  ASSUME IInv, Quiet, NEW kind \in Kind, NEW newCache \in [Keys -> Nat],
         RecordFails(kind, newCache), req' = NoReq, offset < N, pc \notin Idle
  PROVE  IInv'
<1>1. CASE kind \in {"auth", "rate"}
  BY <1>1, EndCycleSafe DEF RecordFails
<1>2. CASE kind \notin {"auth", "rate"}
  BY <1>2, NextRecordSafe DEF RecordFails
<1> QED
  BY <1>1, <1>2

\* A record's planning goes on.
LEMMA PlanOnSafe ==
  ASSUME IInv, Quiet, NEW next \in {"zone", "find", "recheck"}, PlanOn(next),
         cache' \in [Keys -> Nat], zid' \in Nat, req' = NoReq, offset < N,
         pc \notin Idle, ~stop, found[FamilyOf[Current]] # NoAddr
  PROVE  IInv'
<1>1. /\ pc' = next
      /\ UNCHANGED <<cursor, start, offset, found, late, stop, failures, interrupted>>
  BY DEF PlanOn
<1>2. TypeInv'
  BY <1>1, QuietType DEF IInv, TypeInv, Working
<1>3. Shape'
  BY <1>1 DEF Shape, Idle, Working, Current
<1>4. Single'
  BY <1>1, QuietSingle
<1>5. Unharmed' /\ SuccessMeansSynced'
  BY <1>1 DEF Unharmed, SuccessMeansSynced
<1>6. SyncedSoFar'
  BY <1>1 DEF IInv, SyncedSoFar, Quiet, InSync, Nth
<1> QED
  BY <1>2, <1>3, <1>4, <1>5, <1>6 DEF IInv

\* What the record under work is.
LEMMA CurrentIsRecord ==
  ASSUME IInv, offset < N
  PROVE  /\ Current \in Record /\ FamilyOf[Current] \in Family
         /\ Key(Current) \in Keys /\ ZoneOf[Current] \in Zone
<1>1. offset \in 0..(N - 1)
  BY SyncAssumption DEF IInv, TypeInv
<1>2. Current = Nth(offset)
  BY DEF Current, Nth
<1>3. Current \in Record
  BY <1>1, <1>2, NthIsRecord DEF IInv
<1> QED
  BY <1>3, SyncAssumption DEF Family, Keys

\* SendMutation preserves the inductive invariant.
LEMMA SendMutationSafe ==
  ASSUME IInv, Quiet, pc \in {"find", "recheck"}, ~stop,
         NEW kind \in {"update", "create"}, NEW id \in Nat, SendMutation(kind, id),
         kind = "update" => \E e \in dns[Current] : dns[Current] = {e} /\ e.id = id,
         kind = "create" => dns[Current] = {}
  PROVE  IInv'
<1>1. /\ pc' = "mutate"
      /\ req' = [kind |-> kind, rec |-> Current, zid |-> zid, entry |-> id,
                 addr |-> found[FamilyOf[Current]], status |-> "sent"]
      /\ UNCHANGED <<cursor, start, offset, found, late, stop, failures, interrupted, cache, zid>>
  BY DEF SendMutation, PlanOn
<1>2. offset < N /\ found[FamilyOf[Current]] # NoAddr
  BY DEF IInv, Shape, Working
<1>3. Current \in Record /\ FamilyOf[Current] \in Family
  BY <1>2, CurrentIsRecord
<1>4. found[FamilyOf[Current]] \in Addr
  BY <1>2, <1>3 DEF IInv, TypeInv
<1>5. req' \in Request
  BY <1>1, <1>3, <1>4 DEF IInv, TypeInv, Request
<1>6. /\ req'.kind = kind /\ req'.rec = Current /\ req'.entry = id
      /\ req'.addr = found[FamilyOf[Current]] /\ req'.status = "sent"
  BY <1>1
<1>7. TypeInv'
  BY <1>1, <1>5, QuietType DEF IInv, TypeInv, Working
<1>8. Shape'
  <2>1. req' # NoReq
    BY <1>5, NoReqIsNoRequest
  <2> QED
    BY <1>1, <1>2, <1>6, <2>1 DEF Shape, Idle, Working, Current
<1>9. Single'
  <2>1. \A r \in Record : IsFiniteSet(dns'[r]) /\ Cardinality(dns'[r]) <= 1 + foreign'[r]
    BY DEF IInv, Single, NoDuplicates, Quiet
  <2>2. kind = "create" => Cardinality(dns[Current]) = 0 /\ foreign[Current] \in Nat
    BY <1>3, FS_EmptySet DEF IInv, TypeInv
  <2>3. req'.kind = "create" => Cardinality(dns'[req'.rec]) <= foreign'[req'.rec]
    BY <1>6, <2>2 DEF Quiet
  <2> QED
    BY <2>1, <2>3 DEF Single, NoDuplicates
<1>10. Unharmed'
  BY <1>1, <1>6 DEF Unharmed, Quiet
<1>11. SyncedSoFar'
  BY <1>1 DEF IInv, SyncedSoFar, Quiet, InSync, Nth, Idle
<1>12. SuccessMeansSynced'
  BY <1>1 DEF SuccessMeansSynced
<1> QED
  BY <1>7, <1>8, <1>9, <1>10, <1>11, <1>12 DEF IInv
-----------------------------------------------------------------------------
(* The steps of the process *)

\* A step whose only effect outside the process is none at all.
LEMMA QuietStep ==
  ASSUME IInv, UNCHANGED <<external, calm, foreign, changes>>, faults' \in Nat
  PROVE  Quiet
  BY DEF external, Quiet, IInv, TypeInv

\* A failing step is counted.
LEMMA FaultCounted == IInv /\ Fault => faults' \in Nat
  BY DEF Fault, IInv, TypeInv

\* BeginCycle preserves the inductive invariant.
LEMMA BeginCycleSafe ==
  ASSUME IInv, BeginCycle, pc \in {"stopped", "sleep"}
  PROVE  IInv'
<1>1. /\ pc' = "discover" /\ failures' = {} /\ interrupted' = FALSE /\ calm' = TRUE
      /\ UNCHANGED <<public, zoneId, lastZoneId, dns, lastEntry, zombies, cursor, cache,
                     start, offset, found, zid, req, late, stop, foreign, faults, changes>>
  BY DEF BeginCycle, external
<1>2. TypeInv'
  BY <1>1 DEF IInv, TypeInv, Idle
<1>3. Shape'
  BY <1>1 DEF IInv, Shape, Idle, Working
<1>4. Single' /\ Unharmed' /\ SyncedSoFar' /\ SuccessMeansSynced'
  BY <1>1 DEF IInv, Single, NoDuplicates, Unharmed, SyncedSoFar, SuccessMeansSynced, Idle
<1> QED
  BY <1>2, <1>3, <1>4 DEF IInv

\* Signal preserves the inductive invariant.
LEMMA SignalSafe == IInv /\ Signal => IInv'
<1> SUFFICES ASSUME IInv, Signal PROVE IInv'
  OBVIOUS
<1>1. CASE req # NoReq
  <2>1. /\ stop' = TRUE
        /\ UNCHANGED <<public, zoneId, lastZoneId, dns, lastEntry, zombies, pc, cursor, start,
                       offset, found, cache, zid, late, failures, interrupted, req, calm,
                       foreign, faults, changes>>
    BY <1>1 DEF Signal, external
  <2>2. TypeInv' /\ Shape'
    BY <1>1, <2>1 DEF IInv, TypeInv, Shape, Current
  <2>3. Single' /\ Unharmed'
    BY <2>1 DEF IInv, Single, NoDuplicates, Unharmed
  <2>4. SyncedSoFar' /\ SuccessMeansSynced'
    BY <2>1 DEF IInv, SyncedSoFar, SuccessMeansSynced, InSync, Nth
  <2> QED
    BY <2>2, <2>3, <2>4 DEF IInv
<1>2. CASE req = NoReq
  <2>1. Quiet
    BY QuietStep DEF Signal, IInv, TypeInv
  <2> QED
    BY <1>2, <2>1, ProcessGoneSafe DEF Signal
<1> QED
  BY <1>1, <1>2

\* Discover preserves the inductive invariant.
LEMMA DiscoverSafe == IInv /\ Discover => IInv'
<1> SUFFICES ASSUME IInv, Discover PROVE IInv'
  OBVIOUS
<1>1. PICK failed \in SUBSET Family :
        /\ IF failed \subseteq Broken THEN UNCHANGED faults ELSE Fault
        /\ found' = [f \in Family |-> IF f \in failed THEN NoAddr ELSE public[f]]
        /\ failures' = IF failed = {} THEN {} ELSE {"transient"}
  BY DEF Discover
<1>2. /\ pc = "discover" /\ pc' = "next" /\ start' = cursor /\ cursor' = (cursor + 1) % N
      /\ UNCHANGED <<public, zoneId, lastZoneId, dns, lastEntry, zombies, offset, cache, zid,
                     req, late, stop, interrupted, calm, foreign, changes>>
  BY DEF Discover, external
<1>3. Quiet
  BY <1>1, <1>2, FaultCounted DEF Quiet, IInv, TypeInv
<1>4. cursor' \in 0..(N - 1)
  <2> DEFINE a == cursor + 1
             m == a % N
  <2>1. N \in Nat \ {0} /\ a \in Nat /\ a < N + N
    BY SyncAssumption DEF IInv, TypeInv
  <2> HIDE DEF a
  <2>2. m = IF a < N THEN a ELSE a - N
    BY <2>1, Remainder, Zenon
  <2> HIDE DEF m
  <2>3. m \in 0..(N - 1)
    BY <2>1, <2>2
  <2> QED
    BY <1>2, <2>3 DEF m, a
<1>5. TypeInv'
  BY <1>1, <1>2, <1>3, <1>4, QuietType DEF IInv, TypeInv, Kind
<1>6. Shape'
  BY <1>2 DEF IInv, Shape, Idle, Working
<1>7. Single' /\ Unharmed' /\ SuccessMeansSynced'
  BY <1>2, <1>3, QuietSingle DEF Unharmed, SuccessMeansSynced
<1>8. SyncedSoFar'
  <2> SUFFICES ASSUME failures' = {}
               PROVE  found' = public' /\ \A k \in 0..(offset' - 1) : InSync(Nth(k))'
    BY DEF SyncedSoFar
  <2>1. failed = {}
    BY <1>1
  <2>2. found' = public
    BY <1>1, <2>1 DEF IInv, TypeInv
  <2>3. offset' = 0
    BY <1>2 DEF IInv, Shape, Idle
  <2> QED
    BY <1>2, <2>2, <2>3
<1> QED
  BY <1>5, <1>6, <1>7, <1>8 DEF IInv

\* Loop preserves the inductive invariant.
LEMMA LoopSafe == IInv /\ Loop => IInv'
<1> SUFFICES ASSUME IInv, Loop PROVE IInv'
  OBVIOUS
<1>1. /\ pc = "next" /\ req = NoReq /\ req' = NoReq /\ pc \notin Idle
      /\ cache \in [Keys -> Nat] /\ zid \in Nat /\ interrupted \in BOOLEAN
      /\ offset \in 0..N
  BY DEF Loop, IInv, TypeInv, Shape, Idle
<1>2. Quiet
  BY QuietStep DEF Loop, IInv, TypeInv
<1>3. CASE offset = N
  <2>1. calm /\ failures = {} => \A r \in Record : InSync(r)
    <3> SUFFICES ASSUME calm, failures = {}, NEW r \in Record PROVE InSync(r)
      OBVIOUS
    <3>1. \A k \in 0..(N - 1) : InSync(Nth(k))
      BY <1>1, <1>3 DEF IInv, SyncedSoFar
    <3> QED
      BY <3>1, EveryRecordHasATurn DEF IInv
  <2> QED
    BY <1>1, <1>2, <1>3, <2>1, EndCycleSafe DEF Loop
<1>4. CASE offset # N /\ stop
  BY <1>1, <1>2, <1>4, EndCycleSafe DEF Loop
<1>5. CASE offset # N /\ ~stop
  <2>1. offset < N
    BY <1>1, <1>5, SyncAssumption
  <2>2. Current \in Record /\ FamilyOf[Current] \in Family
    BY <2>1, CurrentIsRecord
  <2>3. CASE found[FamilyOf[Current]] = NoAddr
    <3>1. found # public
      BY <2>2, <2>3, SyncAssumption DEF IInv, TypeInv
    <3>2. ~(calm /\ failures = {})
      BY <1>1, <3>1 DEF IInv, SyncedSoFar
    <3>3. NextRecord({}, cache)
      BY <1>5, <2>3 DEF Loop
    <3> QED
      BY <1>1, <1>2, <2>1, <3>2, <3>3, NextRecordSafe
  <2>4. CASE found[FamilyOf[Current]] # NoAddr
    <3>1. PlanOn("zone") /\ UNCHANGED <<cache, zid>>
      BY <1>5, <2>4 DEF Loop
    <3> QED
      BY <1>1, <1>2, <1>5, <2>1, <2>4, <3>1, PlanOnSafe
  <2> QED
    BY <2>3, <2>4
<1> QED
  BY <1>3, <1>4, <1>5

\* An invalidated zone cache still maps keys to ids.
LEMMA InvalidatedType ==
  ASSUME IInv, NEW id
  PROVE  Invalidated(id) \in [Keys -> Nat]
  BY DEF IInv, TypeInv, Invalidated, NoId

\* ResolveZone preserves the inductive invariant.
LEMMA ResolveZoneSafe == IInv /\ ResolveZone => IInv'
<1> SUFFICES ASSUME IInv, ResolveZone PROVE IInv'
  OBVIOUS
<1>1. /\ pc = "zone" /\ req' = NoReq /\ pc \notin Idle /\ offset < N /\ ~stop
      /\ cache \in [Keys -> Nat] /\ found[FamilyOf[Current]] # NoAddr
  BY DEF ResolveZone, IInv, TypeInv, Shape, Idle, Working
<1>2. Quiet
  BY QuietStep DEF ResolveZone, IInv, TypeInv
<1>3. Key(Current) \in Keys /\ zoneId[ZoneOf[Current]] \in Nat
  BY <1>1, CurrentIsRecord DEF IInv, TypeInv
<1>4. CASE zid' = cache[Key(Current)] /\ PlanOn("find") /\ UNCHANGED cache
  <2>1. zid' \in Nat /\ cache' \in [Keys -> Nat]
    BY <1>1, <1>3, <1>4
  <2> QED
    BY <1>1, <1>2, <1>4, <2>1, PlanOnSafe
<1>5. CASE /\ zid' = zoneId[ZoneOf[Current]]
           /\ cache' = [cache EXCEPT ![Key(Current)] = zoneId[ZoneOf[Current]]]
           /\ PlanOn("find")
  <2>1. zid' \in Nat /\ cache' \in [Keys -> Nat]
    BY <1>1, <1>3, <1>5
  <2> QED
    BY <1>1, <1>2, <1>5, <2>1, PlanOnSafe
<1>6. CASE RecordFails("permanent", cache)
  BY <1>1, <1>2, <1>6, RecordFailsSafe DEF Kind
<1> QED
  BY <1>4, <1>5, <1>6 DEF ResolveZone

\* plan_record has returned with the entry it found, or with none.
LEMMA ExecutePlanSafe ==
  ASSUME IInv, Quiet, pc \in {"find", "recheck"}, NEW upToDate \in BOOLEAN,
         NEW kind \in {"update", "create"}, NEW id \in Nat, ExecutePlan(upToDate, kind, id),
         kind = "update" => \E e \in dns[Current] : dns[Current] = {e} /\ e.id = id,
         kind = "create" => dns[Current] = {},
         calm /\ failures = {} /\ upToDate => InSync(Current)
  PROVE  IInv'
<1>1. /\ req = NoReq /\ offset < N /\ pc \notin Idle /\ ~stop /\ cache \in [Keys -> Nat]
  BY DEF IInv, TypeInv, Shape, Idle, Working
<1>2. CASE EndCycle({"transient"}, FALSE, cache) /\ UNCHANGED req
  BY <1>1, <1>2, EndCycleSafe DEF Kind
<1>3. CASE upToDate /\ NextRecord({}, cache) /\ UNCHANGED req
  BY <1>1, <1>3, NextRecordSafe
<1>4. CASE SendMutation(kind, id)
  BY <1>1, <1>4, SendMutationSafe
<1> QED
  BY <1>2, <1>3, <1>4 DEF ExecutePlan

\* Find preserves the inductive invariant.
LEMMA FindSafe == IInv /\ Find => IInv'
<1> SUFFICES ASSUME IInv, Find PROVE IInv'
  OBVIOUS
<1>1. /\ pc \in {"find", "recheck"} /\ req = NoReq /\ pc \notin Idle /\ offset < N /\ ~stop
      /\ cache \in [Keys -> Nat] /\ zid \in Nat /\ found[FamilyOf[Current]] # NoAddr
  BY DEF Find, IInv, TypeInv, Shape, Idle, Working
<1>2. Quiet
  BY QuietStep DEF Find, IInv, TypeInv
<1>3. ASSUME NEW c \in [Keys -> Nat], RecordFails("permanent", c), UNCHANGED req
      PROVE  IInv'
  BY <1>1, <1>2, <1>3, RecordFailsSafe DEF Kind
<1>4. CASE RecordFails("permanent", Invalidated(zid)) /\ UNCHANGED req
  BY <1>3, <1>4, InvalidatedType
<1>5. CASE RecordFails("permanent", cache) /\ UNCHANGED req
  BY <1>1, <1>3, <1>5
<1>6. CASE \E e \in dns[Current] :
             dns[Current] = {e} /\ ExecutePlan(UpToDate(e), "update", e.id)
  <2>1. PICK e \in dns[Current] :
          dns[Current] = {e} /\ ExecutePlan(UpToDate(e), "update", e.id)
    BY <1>6
  <2>2. e \in EntrySet
    BY <1>1, <2>1, CurrentIsRecord DEF IInv, TypeInv
  <2>3. e.id \in Nat /\ e.managed \in BOOLEAN
    BY <2>2 DEF EntrySet
  <2>4. calm /\ failures = {} /\ UpToDate(e) => InSync(Current)
    BY <1>1, <2>1 DEF IInv, SyncedSoFar, UpToDate, InSync
  <2>5. UpToDate(e) \in BOOLEAN
    BY <2>3 DEF UpToDate
  <2> QED
    BY <1>1, <1>2, <2>1, <2>3, <2>4, <2>5, ExecutePlanSafe
<1>7. CASE PlanOn("recheck") /\ UNCHANGED <<cache, zid, req>>
  BY <1>1, <1>2, <1>7, PlanOnSafe
<1>8. CASE dns[Current] = {} /\ ExecutePlan(FALSE, "create", NoId)
  BY <1>1, <1>2, <1>8, ExecutePlanSafe DEF NoId
<1> QED
  BY <1>4, <1>5, <1>6, <1>7, <1>8 DEF Find

\* ReadFails preserves the inductive invariant.
LEMMA ReadFailsSafe == IInv /\ ReadFails => IInv'
<1> SUFFICES ASSUME IInv, ReadFails PROVE IInv'
  OBVIOUS
<1>1. /\ pc \notin Idle /\ offset < N /\ req' = NoReq /\ cache \in [Keys -> Nat]
  BY DEF ReadFails, InPlan, IInv, TypeInv, Shape, Idle, Working
<1>2. Quiet
  BY QuietStep, FaultCounted DEF ReadFails
<1>3. PICK kind \in Kind : RecordFails(kind, cache)
  BY DEF ReadFails
<1> QED
  BY <1>1, <1>2, <1>3, RecordFailsSafe

\* Deadline preserves the inductive invariant.
LEMMA DeadlineSafe == IInv /\ DeadlineExceeded => IInv'
<1> SUFFICES ASSUME IInv, DeadlineExceeded PROVE IInv'
  OBVIOUS
<1>1. Quiet /\ req' = NoReq /\ cache \in [Keys -> Nat]
  BY QuietStep DEF DeadlineExceeded, InPlan, IInv, TypeInv, Shape
<1> QED
  BY <1>1, EndCycleSafe DEF DeadlineExceeded, Kind

\* MutationAnswered preserves the inductive invariant.
LEMMA MutationAnsweredSafe == IInv /\ MutationAnswered => IInv'
<1> SUFFICES ASSUME IInv, MutationAnswered PROVE IInv'
  OBVIOUS
<1>1. /\ pc = "mutate" /\ pc \notin Idle /\ offset < N /\ req' = NoReq
      /\ cache \in [Keys -> Nat]
      /\ req.rec = Current /\ req.addr = found[FamilyOf[Current]]
  BY DEF MutationAnswered, IInv, TypeInv, Shape, Idle, Working
<1>2. Quiet
  BY QuietStep DEF MutationAnswered, IInv, TypeInv
<1>3. CASE req.status = "applied" /\ NextRecord({}, cache)
  <2>1. calm /\ failures = {} => InSync(Current)
    BY <1>1, <1>3 DEF IInv, Unharmed, SyncedSoFar, InSync
  <2> QED
    BY <1>1, <1>2, <1>3, <2>1, NextRecordSafe
<1>4. CASE RecordFails("permanent", Invalidated(req.zid))
  BY <1>1, <1>2, <1>4, RecordFailsSafe, InvalidatedType DEF Kind
<1> QED
  BY <1>3, <1>4 DEF MutationAnswered

\* Giving up on a request leaves it, at most, on its way.
LEMMA AbandonType ==
  ASSUME IInv, Abandon(req)
  PROVE  zombies' \in SUBSET Request
  BY DEF Abandon, IInv, TypeInv

\* MutationFails preserves the inductive invariant.
LEMMA MutationFailsSafe == IInv /\ MutationFails => IInv'
<1> SUFFICES ASSUME IInv, MutationFails PROVE IInv'
  OBVIOUS
<1>1. /\ pc = "mutate" /\ pc \notin Idle /\ offset < N /\ req' = NoReq
      /\ cache \in [Keys -> Nat]
  BY DEF MutationFails, IInv, TypeInv, Shape, Idle, Working
<1>2. Quiet
  BY FaultCounted, AbandonType DEF MutationFails, Quiet, IInv, TypeInv
<1>3. PICK kind \in Kind : RecordFails(kind, cache)
  BY DEF MutationFails, Kind
<1> QED
  BY <1>1, <1>2, <1>3, RecordFailsSafe

\* Crash preserves the inductive invariant.
LEMMA CrashSafe == IInv /\ Crash => IInv'
<1> SUFFICES ASSUME IInv, Crash PROVE IInv'
  OBVIOUS
<1>1. Quiet
  BY FaultCounted, AbandonType DEF Crash, Quiet, IInv, TypeInv
<1> QED
  BY <1>1, ProcessGoneSafe DEF Crash

\* Expire preserves the inductive invariant.
LEMMA ExpireSafe ==
  ASSUME IInv, Expire, faults' \in Nat
  PROVE  IInv'
<1>1. /\ late' = TRUE
      /\ UNCHANGED <<public, zoneId, lastZoneId, dns, lastEntry, zombies, pc, cursor, start,
                     offset, found, cache, zid, req, stop, failures, interrupted, calm,
                     foreign, changes>>
  BY DEF Expire, external
<1>2. TypeInv' /\ Shape'
  BY <1>1 DEF IInv, TypeInv, Shape, Current
<1>3. Single' /\ Unharmed'
  BY <1>1 DEF IInv, Single, NoDuplicates, Unharmed
<1>4. SyncedSoFar' /\ SuccessMeansSynced'
  BY <1>1 DEF IInv, SyncedSoFar, SuccessMeansSynced, InSync, Nth
<1> QED
  BY <1>2, <1>3, <1>4 DEF IInv
-----------------------------------------------------------------------------
(* Cloudflare and the world *)

\* The records after a step of Cloudflare or of somebody else: none has grown
\* by more entries than were counted as foreign.
Matched ==
  /\ dns' \in [Record -> SUBSET EntrySet]
  /\ foreign' \in [Record -> Nat]
  /\ \A r \in Record : /\ IsFiniteSet(dns'[r])
                       /\ Cardinality(dns'[r]) + foreign[r] <= Cardinality(dns[r]) + foreign'[r]

\* A step that others take: the cycle is not calm any more.
LEMMA WorldSafe ==
  ASSUME IInv, UNCHANGED process, calm' = FALSE, Matched,
         public' \in [Family -> Addr], zoneId' \in [Zone -> Nat], lastZoneId' \in Nat,
         lastEntry' \in [Record -> Nat], zombies' \in SUBSET Request,
         faults' \in Nat, changes' \in Nat
  PROVE  IInv'
<1>1. UNCHANGED <<pc, cursor, start, offset, found, cache, zid, req, late, stop, failures,
                  interrupted>>
  BY DEF process
<1>2. TypeInv' /\ Shape'
  BY <1>1 DEF IInv, TypeInv, Shape, Matched, Current
<1>3. ASSUME NEW r \in Record
      PROVE  /\ IsFiniteSet(dns'[r])
             /\ Cardinality(dns'[r]) <= 1 + foreign'[r]
             /\ Cardinality(dns[r]) <= foreign[r] => Cardinality(dns'[r]) <= foreign'[r]
  <2>1. Cardinality(dns'[r]) \in Nat /\ Cardinality(dns[r]) \in Nat
    BY FS_CardinalityType DEF IInv, Single, Matched
  <2>2. foreign[r] \in Nat /\ foreign'[r] \in Nat
    BY DEF IInv, TypeInv, Matched
  <2>3. Cardinality(dns[r]) <= 1 + foreign[r]
    BY DEF IInv, Single, NoDuplicates
  <2> QED
    BY <2>1, <2>2, <2>3 DEF Matched
<1>4. pc = "mutate" => req.rec \in Record
  BY DEF IInv, TypeInv, Shape, Request
<1>5. Single'
  BY <1>1, <1>3, <1>4 DEF IInv, Single, NoDuplicates
<1>6. Unharmed' /\ SyncedSoFar' /\ SuccessMeansSynced'
  BY DEF Unharmed, SyncedSoFar, SuccessMeansSynced
<1> QED
  BY <1>2, <1>5, <1>6 DEF IInv

\* What Cloudflare makes of a request it can process.
LEMMA ApplyCounts ==
  ASSUME IInv, NEW q \in Request, Applicable(q), Apply(q)
  PROVE  /\ dns' \in [Record -> SUBSET EntrySet] /\ lastEntry' \in [Record -> Nat]
         /\ \A r \in Record : IsFiniteSet(dns'[r])
         /\ \A r \in Record \ {q.rec} : dns'[r] = dns[r]
         /\ q.kind = "update" => Cardinality(dns'[q.rec]) <= Cardinality(dns[q.rec])
         /\ q.kind = "create" => Cardinality(dns'[q.rec]) <= Cardinality(dns[q.rec]) + 1
<1>1. /\ q.rec \in Record /\ q.entry \in Nat /\ q.addr \in Addr /\ q.kind \in {"update", "create"}
  BY DEF Request
<1>2. /\ dns \in [Record -> SUBSET EntrySet] /\ lastEntry \in [Record -> Nat]
      /\ \A r \in Record : IsFiniteSet(dns[r])
  BY DEF IInv, TypeInv, Single
<1>3. CASE q.kind = "create"
  <2> DEFINE y == Entry(lastEntry[q.rec] + 1, q.addr, TRUE)
  <2>1. y \in EntrySet /\ lastEntry[q.rec] + 1 \in Nat
    BY <1>1, <1>2 DEF Entry, EntrySet
  <2>2. /\ dns' = [dns EXCEPT ![q.rec] = dns[q.rec] \cup {y}]
        /\ lastEntry' = [lastEntry EXCEPT ![q.rec] = lastEntry[q.rec] + 1]
    BY <1>1, <1>2, <1>3 DEF Apply
  <2> HIDE DEF y
  <2>3. dns' \in [Record -> SUBSET EntrySet] /\ lastEntry' \in [Record -> Nat]
    BY <1>1, <1>2, <2>1, <2>2
  <2>4. dns'[q.rec] = dns[q.rec] \cup {y} /\ \A r \in Record \ {q.rec} : dns'[r] = dns[r]
    BY <1>1, <1>2, <2>2
  <2>5. IsFiniteSet(dns'[q.rec]) /\ Cardinality(dns'[q.rec]) <= Cardinality(dns[q.rec]) + 1
    <3>1. IsFiniteSet(dns[q.rec])
      BY <1>1, <1>2
    <3>2. /\ IsFiniteSet(dns[q.rec] \cup {y})
          /\ Cardinality(dns[q.rec] \cup {y}) <= Cardinality(dns[q.rec]) + 1
      BY <3>1, Added, Zenon
    <3> QED
      BY <2>4, <3>2
  <2> QED
    BY <1>1, <1>2, <1>3, <2>3, <2>4, <2>5
<1>4. CASE q.kind = "update"
  <2> DEFINE y == Entry(q.entry, q.addr, TRUE)
             T == {e \in dns[q.rec] : e.id # q.entry}
  <2>1. y \in EntrySet
    BY <1>1 DEF Entry, EntrySet
  <2>2. dns' = [dns EXCEPT ![q.rec] = T \cup {y}] /\ lastEntry' = lastEntry
    BY <1>1, <1>2, <1>4 DEF Apply
  <2>3. PICK x \in dns[q.rec] : x.id = q.entry
    BY <1>4 DEF Applicable
  <2>4. T \in SUBSET dns[q.rec] /\ x \in dns[q.rec] \ T
    BY <2>3
  <2> HIDE DEF y, T
  <2>5. dns' \in [Record -> SUBSET EntrySet]
    BY <1>1, <1>2, <2>1, <2>2, <2>4
  <2>6. dns'[q.rec] = T \cup {y} /\ \A r \in Record \ {q.rec} : dns'[r] = dns[r]
    BY <1>1, <1>2, <2>2
  <2>7. IsFiniteSet(dns'[q.rec]) /\ Cardinality(dns'[q.rec]) <= Cardinality(dns[q.rec])
    <3>1. IsFiniteSet(dns[q.rec])
      BY <1>1, <1>2
    <3>2. IsFiniteSet(T \cup {y}) /\ Cardinality(T \cup {y}) <= Cardinality(dns[q.rec])
      BY <2>4, <3>1, Replaced, Zenon
    <3> QED
      BY <2>6, <3>2
  <2> QED
    BY <1>1, <1>2, <1>4, <2>2, <2>5, <2>6, <2>7
<1> QED
  BY <1>1, <1>3, <1>4

\* ProcessZombie preserves the inductive invariant.
LEMMA ProcessZombieSafe == IInv /\ ProcessZombie => IInv'
<1> SUFFICES ASSUME IInv, ProcessZombie PROVE IInv'
  OBVIOUS
<1>1. PICK q \in zombies :
        /\ zombies' = zombies \ {q}
        /\ IF Applicable(q)
           THEN /\ Apply(q) /\ calm' = FALSE
                /\ foreign' = [foreign EXCEPT ![q.rec] = @ + (IF q.kind = "create" THEN 1 ELSE 0)]
           ELSE UNCHANGED <<dns, lastEntry, calm, foreign>>
        /\ UNCHANGED <<public, zoneId, lastZoneId, process, faults, changes>>
  BY DEF ProcessZombie
<1>2. q \in Request /\ q.rec \in Record /\ q.kind \in {"update", "create"}
      /\ zombies' \in SUBSET Request
  BY <1>1 DEF IInv, TypeInv, Request
<1>3. CASE Applicable(q)
  <2>1. Apply(q) /\ calm' = FALSE
    BY <1>1, <1>3
  <2>2. foreign' \in [Record -> Nat]
        /\ foreign'[q.rec] = foreign[q.rec] + (IF q.kind = "create" THEN 1 ELSE 0)
        /\ \A r \in Record \ {q.rec} : foreign'[r] = foreign[r]
    BY <1>1, <1>2, <1>3 DEF IInv, TypeInv
  <2>3. ASSUME NEW r \in Record
        PROVE  Cardinality(dns'[r]) + foreign[r] <= Cardinality(dns[r]) + foreign'[r]
    <3>1. IsFiniteSet(dns[r]) /\ IsFiniteSet(dns'[r])
      BY <1>2, <1>3, <2>1, ApplyCounts DEF IInv, Single
    <3>2. Cardinality(dns'[r]) \in Nat /\ Cardinality(dns[r]) \in Nat /\ foreign[r] \in Nat
      BY <3>1, FS_CardinalityType DEF IInv, TypeInv
    <3>3. CASE r = q.rec
      <4>1. Cardinality(dns'[r]) <= Cardinality(dns[r]) + (IF q.kind = "create" THEN 1 ELSE 0)
        BY <1>2, <1>3, <2>1, <3>2, <3>3, ApplyCounts
      <4> QED
        BY <2>2, <3>2, <3>3, <4>1
    <3>4. CASE r # q.rec
      <4>1. dns'[r] = dns[r] /\ foreign'[r] = foreign[r]
        BY <1>2, <1>3, <2>1, <2>2, <3>4, ApplyCounts
      <4> QED
        BY <3>2, <4>1
    <3> QED
      BY <3>3, <3>4
  <2>4. Matched /\ lastEntry' \in [Record -> Nat]
    BY <1>2, <1>3, <2>1, <2>2, <2>3, ApplyCounts DEF Matched
  <2> QED
    BY <1>1, <1>2, <2>1, <2>4, WorldSafe DEF IInv, TypeInv
<1>4. CASE ~Applicable(q)
  <2>1. UNCHANGED <<public, zoneId, lastZoneId, dns, lastEntry, pc, cursor, start, offset,
                    found, cache, zid, req, late, stop, failures, interrupted, calm, foreign,
                    faults, changes>>
    BY <1>1, <1>4 DEF process
  <2>2. TypeInv' /\ Shape'
    BY <1>2, <2>1 DEF IInv, TypeInv, Shape, Current
  <2>3. Single' /\ Unharmed'
    BY <2>1 DEF IInv, Single, NoDuplicates, Unharmed
  <2>4. SyncedSoFar' /\ SuccessMeansSynced'
    BY <2>1 DEF IInv, SyncedSoFar, SuccessMeansSynced, InSync, Nth
  <2> QED
    BY <2>2, <2>3, <2>4 DEF IInv
<1> QED
  BY <1>3, <1>4

\* Somebody changes the world, and not more records than are counted.
LEMMA ChangeSafe ==
  ASSUME IInv, Change, Matched, public' \in [Family -> Addr], zoneId' \in [Zone -> Nat],
         lastZoneId' \in Nat, lastEntry' \in [Record -> Nat]
  PROVE  IInv'
<1>1. /\ calm' = FALSE /\ UNCHANGED process
      /\ zombies' \in SUBSET Request /\ faults' \in Nat /\ changes' \in Nat
  BY DEF Change, IInv, TypeInv
<1> QED
  BY <1>1, WorldSafe

\* A step that leaves the entries alone matches them with themselves.
LEMMA UntouchedMatched ==
  ASSUME IInv, UNCHANGED <<dns, foreign>>
  PROVE  Matched
<1>1. \A r \in Record : IsFiniteSet(dns[r]) /\ Cardinality(dns[r]) \in Nat /\ foreign[r] \in Nat
  BY FS_CardinalityType DEF IInv, TypeInv, Single
<1>2. \A r \in Record : Cardinality(dns[r]) + foreign[r] <= Cardinality(dns[r]) + foreign[r]
  BY <1>1
<1> QED
  BY <1>1, <1>2 DEF Matched, IInv, TypeInv

\* NewAddress preserves the inductive invariant.
LEMMA NewAddressSafe == IInv /\ NewAddress => IInv'
<1> SUFFICES ASSUME IInv, NewAddress PROVE IInv'
  OBVIOUS
<1>1. public' \in [Family -> Addr]
  BY DEF NewAddress, IInv, TypeInv
<1> QED
  BY <1>1, UntouchedMatched, ChangeSafe DEF NewAddress, IInv, TypeInv

\* MoveZone preserves the inductive invariant.
LEMMA MoveZoneSafe == IInv /\ MoveZone => IInv'
<1> SUFFICES ASSUME IInv, MoveZone PROVE IInv'
  OBVIOUS
<1>1. zoneId' \in [Zone -> Nat] /\ lastZoneId' \in Nat
  BY DEF MoveZone, NoId, IInv, TypeInv
<1> QED
  BY <1>1, UntouchedMatched, ChangeSafe DEF MoveZone, IInv, TypeInv

\* One record's entries are replaced by as many, or by fewer.
LEMMA ShrunkMatched ==
  ASSUME IInv, UNCHANGED foreign, NEW r \in Record, NEW S \in SUBSET EntrySet,
         dns' = [dns EXCEPT ![r] = S], IsFiniteSet(S), Cardinality(S) <= Cardinality(dns[r])
  PROVE  Matched
<1>1. /\ dns \in [Record -> SUBSET EntrySet] /\ foreign \in [Record -> Nat]
      /\ \A s \in Record : IsFiniteSet(dns[s])
  BY DEF IInv, TypeInv, Single
<1>2. /\ dns' \in [Record -> SUBSET EntrySet] /\ dns'[r] = S
      /\ \A s \in Record \ {r} : dns'[s] = dns[s]
  BY <1>1
<1>3. ASSUME NEW s \in Record
      PROVE  IsFiniteSet(dns'[s]) /\ Cardinality(dns'[s]) + foreign[s] <= Cardinality(dns[s]) + foreign'[s]
  <2>1. IsFiniteSet(dns'[s])
    BY <1>1, <1>2
  <2>2. Cardinality(dns'[s]) \in Nat /\ Cardinality(dns[s]) \in Nat /\ foreign[s] \in Nat
    BY <1>1, <2>1, FS_CardinalityType
  <2>3. Cardinality(dns'[s]) <= Cardinality(dns[s])
    <3>1. CASE s = r
      BY <1>2, <3>1
    <3>2. CASE s # r
      BY <1>2, <2>2, <3>2
    <3> QED
      BY <3>1, <3>2
  <2> QED
    BY <2>1, <2>2, <2>3
<1> QED
  BY <1>1, <1>2, <1>3 DEF Matched

\* EditEntry preserves the inductive invariant.
LEMMA EditEntrySafe == IInv /\ EditEntry => IInv'
<1> SUFFICES ASSUME IInv, EditEntry PROVE IInv'
  OBVIOUS
<1>1. PICK r \in Record, e \in UNION {dns[q] : q \in Record} :
        /\ e \in dns[r]
        /\ dns' = [dns EXCEPT ![r] = (@ \ {e}) \cup {[e EXCEPT !.managed = FALSE]}]
  BY DEF EditEntry
<1> DEFINE y == [e EXCEPT !.managed = FALSE]
           S == (dns[r] \ {e}) \cup {y}
<1>2. dns \in [Record -> SUBSET EntrySet] /\ IsFiniteSet(dns[r])
  BY DEF IInv, TypeInv, Single
<1>3. e \in EntrySet /\ dns[r] \in SUBSET EntrySet
  BY <1>1, <1>2
<1>4. y \in EntrySet
  BY <1>3 DEF EntrySet
<1>5. dns' = [dns EXCEPT ![r] = S]
  BY <1>1, <1>2
<1> HIDE DEF y
<1>6. IsFiniteSet(S) /\ Cardinality(S) <= Cardinality(dns[r]) /\ S \in SUBSET EntrySet
  <2>1. dns[r] \ {e} \in SUBSET dns[r] /\ e \in dns[r] \ (dns[r] \ {e})
    BY <1>1
  <2> QED
    BY <1>2, <1>3, <1>4, <2>1, Replaced
<1> HIDE DEF S
<1>7. Matched
  BY <1>5, <1>6, ShrunkMatched DEF EditEntry
<1> QED
  BY <1>7, ChangeSafe DEF EditEntry, IInv, TypeInv

\* DeleteEntry preserves the inductive invariant.
LEMMA DeleteEntrySafe == IInv /\ DeleteEntry => IInv'
<1> SUFFICES ASSUME IInv, DeleteEntry PROVE IInv'
  OBVIOUS
<1>1. PICK r \in Record : \E e \in dns[r] : dns' = [dns EXCEPT ![r] = @ \ {e}]
  BY DEF DeleteEntry
<1>2. PICK e \in dns[r] : dns' = [dns EXCEPT ![r] = @ \ {e}]
  BY <1>1
<1> DEFINE S == dns[r] \ {e}
<1>3. dns \in [Record -> SUBSET EntrySet] /\ IsFiniteSet(dns[r])
  BY DEF IInv, TypeInv, Single
<1>4. S \in SUBSET EntrySet /\ S \in SUBSET dns[r] /\ dns' = [dns EXCEPT ![r] = S]
  BY <1>2, <1>3
<1> HIDE DEF S
<1>5. IsFiniteSet(S) /\ Cardinality(S) <= Cardinality(dns[r])
  BY <1>3, <1>4, FS_Subset
<1>6. Matched
  BY <1>4, <1>5, ShrunkMatched DEF DeleteEntry
<1> QED
  BY <1>6, ChangeSafe DEF DeleteEntry, IInv, TypeInv

\* AddEntry preserves the inductive invariant.
LEMMA AddEntrySafe == IInv /\ AddEntry => IInv'
<1> SUFFICES ASSUME IInv, AddEntry PROVE IInv'
  OBVIOUS
<1>1. PICK r \in Record, a \in Addr :
        /\ dns' = [dns EXCEPT ![r] = @ \cup {Entry(lastEntry[r] + 1, a, FALSE)}]
        /\ lastEntry' = [lastEntry EXCEPT ![r] = @ + 1]
        /\ foreign' = [foreign EXCEPT ![r] = @ + 1]
  BY DEF AddEntry
<1> DEFINE y == Entry(lastEntry[r] + 1, a, FALSE)
<1>2. /\ dns \in [Record -> SUBSET EntrySet] /\ lastEntry \in [Record -> Nat]
      /\ foreign \in [Record -> Nat] /\ \A s \in Record : IsFiniteSet(dns[s])
  BY DEF IInv, TypeInv, Single
<1>3. y \in EntrySet
  BY <1>2 DEF Entry, EntrySet
<1>4. dns' = [dns EXCEPT ![r] = dns[r] \cup {y}]
  BY <1>1, <1>2
<1> HIDE DEF y
<1>5. /\ dns' \in [Record -> SUBSET EntrySet] /\ dns'[r] = dns[r] \cup {y}
      /\ \A s \in Record \ {r} : dns'[s] = dns[s] /\ foreign'[s] = foreign[s]
      /\ foreign' \in [Record -> Nat] /\ foreign'[r] = foreign[r] + 1
      /\ lastEntry' \in [Record -> Nat]
  <2>1. /\ dns' \in [Record -> SUBSET EntrySet] /\ dns'[r] = dns[r] \cup {y}
        /\ \A s \in Record \ {r} : dns'[s] = dns[s]
    BY <1>2, <1>3, <1>4
  <2>2. /\ foreign' \in [Record -> Nat] /\ foreign'[r] = foreign[r] + 1
        /\ \A s \in Record \ {r} : foreign'[s] = foreign[s]
        /\ lastEntry' \in [Record -> Nat]
    BY <1>1, <1>2
  <2> QED
    BY <2>1, <2>2
<1>6. ASSUME NEW s \in Record
      PROVE  IsFiniteSet(dns'[s]) /\ Cardinality(dns'[s]) + foreign[s] <= Cardinality(dns[s]) + foreign'[s]
  <2>1. foreign[s] \in Nat /\ Cardinality(dns[s]) \in Nat
    BY <1>2, FS_CardinalityType
  <2>2. CASE s = r
    <3>1. /\ IsFiniteSet(dns'[s]) /\ Cardinality(dns'[s]) \in Nat
          /\ Cardinality(dns'[s]) <= Cardinality(dns[s]) + 1
      <4>1. /\ IsFiniteSet(dns[r] \cup {y}) /\ Cardinality(dns[r] \cup {y}) \in Nat
            /\ Cardinality(dns[r] \cup {y}) <= Cardinality(dns[r]) + 1
        BY <1>2, Added, Zenon
      <4> QED
        BY <1>5, <2>2, <4>1
    <3> QED
      BY <1>5, <2>1, <2>2, <3>1
  <2>3. CASE s # r
    <3>1. dns'[s] = dns[s] /\ foreign'[s] = foreign[s]
      BY <1>5, <2>3
    <3> QED
      BY <1>2, <2>1, <3>1
  <2> QED
    BY <2>2, <2>3
<1>7. Matched
  BY <1>5, <1>6 DEF Matched
<1> QED
  BY <1>5, <1>7, ChangeSafe DEF AddEntry, IInv, TypeInv

\* The mutation in flight reaches Cloudflare: in a calm cycle it leaves exactly
\* the entry it was meant to leave.
LEMMA AppliedAlone ==
  ASSUME IInv, calm, pc = "mutate", req.status = "sent", Apply(req), Applicable(req)
  PROVE  \E e \in dns'[req.rec] : dns'[req.rec] = {e} /\ e.addr = req.addr /\ e.managed
<1>1. req \in Request /\ req.rec \in Record /\ req.kind \in {"update", "create"}
      /\ dns \in [Record -> SUBSET EntrySet]
  BY DEF IInv, TypeInv, Shape, Request
<1>2. CASE req.kind = "create"
  <2>1. dns'[req.rec] = {Entry(lastEntry[req.rec] + 1, req.addr, TRUE)}
    BY <1>1, <1>2 DEF Apply, IInv, Unharmed
  <2> QED
    BY <2>1 DEF Entry
<1>3. CASE req.kind = "update"
  <2>1. PICK e \in dns[req.rec] : dns[req.rec] = {e} /\ e.id = req.entry
    BY <1>3 DEF IInv, Unharmed
  <2>2. dns'[req.rec] = {x \in dns[req.rec] : x.id # req.entry} \cup {Entry(req.entry, req.addr, TRUE)}
    BY <1>1, <1>3 DEF Apply
  <2>3. dns'[req.rec] = {Entry(req.entry, req.addr, TRUE)}
    BY <2>1, <2>2
  <2> QED
    BY <2>3 DEF Entry
<1> QED
  BY <1>1, <1>2, <1>3

\* ProcessMutation preserves the inductive invariant.
LEMMA ProcessMutationSafe == IInv /\ ProcessMutation => IInv'
<1> SUFFICES ASSUME IInv, ProcessMutation PROVE IInv'
  OBVIOUS
<1>1. /\ pc = "mutate" /\ req.status = "sent"
      /\ req' = [req EXCEPT !.status = IF Applicable(req) THEN "applied" ELSE "notfound"]
      /\ UNCHANGED <<public, zoneId, lastZoneId, zombies, pc, cursor, start, offset, found,
                     cache, zid, late, stop, failures, interrupted, calm, foreign, faults,
                     changes>>
  BY DEF ProcessMutation
<1>2. /\ req \in Request /\ req.rec \in Record /\ req.kind \in {"update", "create"}
      /\ req.rec = Current /\ req.addr = found[FamilyOf[Current]]
  BY <1>1 DEF IInv, TypeInv, Shape, Request
<1>3. /\ req' \in Request /\ req'.rec = req.rec /\ req'.addr = req.addr
      /\ req'.status = IF Applicable(req) THEN "applied" ELSE "notfound"
  BY <1>1, <1>2 DEF Request
<1>4. CASE Applicable(req)
  <2>1. Apply(req)
    BY <1>4 DEF ProcessMutation
  <2>2. /\ dns' \in [Record -> SUBSET EntrySet] /\ lastEntry' \in [Record -> Nat]
        /\ \A r \in Record : IsFiniteSet(dns'[r])
        /\ \A r \in Record \ {req.rec} : dns'[r] = dns[r]
    BY <1>2, <1>4, <2>1, ApplyCounts
  <2>3. TypeInv'
    BY <1>1, <1>3, <2>2 DEF IInv, TypeInv
  <2>4. Shape'
    BY <1>1, <1>2, <1>3, NoReqIsNoRequest DEF IInv, Shape, Current
  <2>5. ASSUME NEW r \in Record
        PROVE  Cardinality(dns'[r]) <= 1 + foreign'[r]
    <3>1. CASE r # req.rec
      BY <1>1, <2>2, <3>1 DEF IInv, Single, NoDuplicates
    <3>2. CASE r = req.rec
      <4>1. /\ Cardinality(dns[r]) \in Nat /\ Cardinality(dns'[r]) \in Nat /\ foreign[r] \in Nat
        BY <2>2, FS_CardinalityType DEF IInv, TypeInv, Single
      <4>2. CASE req.kind = "create"
        <5>1. Cardinality(dns[r]) <= foreign[r]
          BY <1>1, <3>2, <4>2 DEF IInv, Single
        <5>2. Cardinality(dns'[r]) <= Cardinality(dns[r]) + 1
          BY <1>2, <1>4, <2>1, <3>2, <4>2, ApplyCounts
        <5> QED
          BY <1>1, <4>1, <5>1, <5>2
      <4>3. CASE req.kind = "update"
        <5>1. Cardinality(dns[r]) <= 1 + foreign[r]
          BY DEF IInv, Single, NoDuplicates
        <5>2. Cardinality(dns'[r]) <= Cardinality(dns[r])
          BY <1>2, <1>4, <2>1, <3>2, <4>3, ApplyCounts
        <5> QED
          BY <1>1, <4>1, <5>1, <5>2
      <4> QED
        BY <1>2, <4>2, <4>3
    <3> QED
      BY <3>1, <3>2
  <2>6. Single'
    BY <1>3, <1>4, <2>2, <2>5 DEF Single, NoDuplicates
  <2>7. calm => \E e \in dns'[req.rec] :
                  dns'[req.rec] = {e} /\ e.addr = req.addr /\ e.managed
    BY <1>1, <1>4, <2>1, AppliedAlone
  <2>8. Unharmed'
    BY <1>1, <1>3, <1>4, <2>7 DEF Unharmed
  <2>9. SyncedSoFar'
    <3> SUFFICES ASSUME calm, failures = {}
                 PROVE  found' = public' /\ \A k \in 0..(offset' - 1) : InSync(Nth(k))'
      BY <1>1 DEF SyncedSoFar
    <3>1. found = public /\ \A k \in 0..(offset - 1) : InSync(Nth(k))
      BY <1>1 DEF IInv, SyncedSoFar, Idle
    <3>2. \E e \in dns'[Current] :
            dns'[Current] = {e} /\ e.addr = public'[FamilyOf[Current]] /\ e.managed
      BY <1>1, <1>2, <2>7, <3>1
    <3>3. ASSUME NEW k \in 0..(offset - 1)
          PROVE  InSync(Nth(k))'
      <4>1. Nth(k)' = Nth(k) /\ Nth(k) \in Record
        <5>1. k \in 0..(N - 1)
          BY SyncAssumption DEF IInv, TypeInv
        <5> QED
          BY <1>1, <5>1, NthIsRecord DEF IInv, Nth
      <4>2. CASE Nth(k) = Current
        BY <3>2, <4>1, <4>2 DEF InSync
      <4>3. CASE Nth(k) # Current
        BY <1>1, <1>2, <2>2, <3>1, <4>1, <4>3 DEF InSync
      <4> QED
        BY <4>2, <4>3
    <3> QED
      BY <1>1, <3>1, <3>3
  <2>10. SuccessMeansSynced'
    BY <1>1 DEF SuccessMeansSynced
  <2> QED
    BY <2>3, <2>4, <2>6, <2>8, <2>9, <2>10 DEF IInv
<1>5. CASE ~Applicable(req)
  <2>1. UNCHANGED <<dns, lastEntry>> /\ req'.status = "notfound"
    BY <1>3, <1>5 DEF ProcessMutation
  <2>2. TypeInv'
    BY <1>1, <1>3, <2>1 DEF IInv, TypeInv
  <2>3. Shape'
    BY <1>1, <1>2, <1>3, NoReqIsNoRequest DEF IInv, Shape, Current
  <2>4. Single' /\ Unharmed'
    BY <1>1, <2>1 DEF IInv, Single, NoDuplicates, Unharmed
  <2>5. SyncedSoFar' /\ SuccessMeansSynced'
    BY <1>1, <2>1 DEF IInv, SyncedSoFar, SuccessMeansSynced, InSync, Nth
  <2> QED
    BY <2>2, <2>3, <2>4, <2>5 DEF IInv
<1> QED
  BY <1>4, <1>5
-----------------------------------------------------------------------------
(* The theorems *)

\* The inductive invariant holds at first.
LEMMA InitSafe == Init => IInv
<1> SUFFICES ASSUME Init PROVE IInv
  OBVIOUS
<1>1. \A r \in Record : dns[r] = {} \/ \E a \in Addr : dns[r] = {Entry(1, a, TRUE)}
  BY DEF Init
<1>2. TypeInv
  <2>1. \A a \in Addr : Entry(1, a, TRUE) \in EntrySet
    BY DEF Entry, EntrySet
  <2>2. dns \in [Record -> SUBSET EntrySet]
    <3>1. dns \in [Record -> {{}} \cup {{Entry(1, a, TRUE)} : a \in Addr}]
      BY DEF Init
    <3>2. {{}} \cup {{Entry(1, a, TRUE)} : a \in Addr} \subseteq SUBSET EntrySet
      BY <2>1, Zenon
    <3> QED
      BY <3>1, <3>2
  <2>3. 0 \in 0..(N - 1) /\ 0 \in 0..N
    BY SyncAssumption
  <2> QED
    BY <2>2, <2>3 DEF Init, TypeInv, Idle, NoId
<1>3. Shape
  BY DEF Init, Shape, Idle, Working
<1>4. Single
  <2>1. ASSUME NEW r \in Record
        PROVE  IsFiniteSet(dns[r]) /\ Cardinality(dns[r]) <= 1
    <3>1. CASE dns[r] = {}
      BY <3>1, FS_EmptySet
    <3>2. CASE \E x : dns[r] = {x}
      <4>1. PICK x : dns[r] = {x}
        BY <3>2
      <4>2. IsFiniteSet({x}) /\ Cardinality({x}) = 1
        BY FS_Singleton
      <4> QED
        BY <4>1, <4>2
    <3> QED
      BY <1>1, <3>1, <3>2
  <2> QED
    BY <2>1 DEF Init, Single, NoDuplicates
<1>5. Unharmed /\ SyncedSoFar /\ SuccessMeansSynced
  BY DEF Init, Unharmed, SyncedSoFar, SuccessMeansSynced
<1> QED
  BY <1>2, <1>3, <1>4, <1>5 DEF IInv

\* Every step preserves the inductive invariant.
LEMMA StepSafe == IInv /\ [Next]_vars => IInv'
<1> SUFFICES ASSUME IInv, [Next]_vars PROVE IInv'
  OBVIOUS
<1>1. CASE UNCHANGED vars
  <2>1. UNCHANGED <<public, zoneId, lastZoneId, dns, lastEntry, zombies, pc, cursor, start,
                    offset, found, cache, zid, req, late, stop, failures, interrupted, calm,
                    foreign, faults, changes>>
    BY <1>1 DEF vars, external, process
  <2>2. TypeInv' /\ Shape'
    BY <2>1 DEF IInv, TypeInv, Shape, Current
  <2>3. Single' /\ Unharmed'
    BY <2>1 DEF IInv, Single, NoDuplicates, Unharmed
  <2>4. SyncedSoFar' /\ SuccessMeansSynced'
    BY <2>1 DEF IInv, SyncedSoFar, SuccessMeansSynced, InSync, Nth
  <2> QED
    BY <2>2, <2>3, <2>4 DEF IInv
<1>2. CASE Start \/ Wake
  BY <1>2, BeginCycleSafe DEF Start, Wake
<1>3. CASE Signal \/ Discover \/ Loop \/ ResolveZone \/ Find \/ DeadlineExceeded
  BY <1>3, SignalSafe, DiscoverSafe, LoopSafe, ResolveZoneSafe, FindSafe, DeadlineSafe
<1>4. CASE ProcessMutation \/ MutationAnswered \/ ReadFails \/ MutationFails \/ Crash
  BY <1>4, ProcessMutationSafe, MutationAnsweredSafe, ReadFailsSafe, MutationFailsSafe, CrashSafe
<1>5. CASE ExpireOnSlow \/ ExpireEarly
  BY <1>5, ExpireSafe, FaultCounted DEF ExpireOnSlow, ExpireEarly, IInv, TypeInv
<1>6. CASE World
  BY <1>6, ProcessZombieSafe, NewAddressSafe, MoveZoneSafe, EditEntrySafe, DeleteEntrySafe,
     AddEntrySafe DEF World
<1> QED
  BY <1>1, <1>2, <1>3, <1>4, <1>5, <1>6 DEF Next, Progress, Failure

\* The inductive invariant holds in every reachable state.
LEMMA Inductive == Spec => []IInv
  BY InitSafe, StepSafe, PTL DEF Spec

\* For any records, zones and addresses and any number of failures, restarts and
\* changes: a cycle whose report is a success has left every record in sync
\* (run_cycle_inner, CycleReport::is_success), if nothing else changed.
THEOREM SuccessAlwaysSynced == Spec => []SuccessMeansSynced
<1>1. IInv => SuccessMeansSynced
  BY DEF IInv
<1> QED
  BY <1>1, Inductive, PTL

\* For any records and any number of lost answers, crashes and late requests:
\* the updater never creates a second entry by itself (plan_record looks twice
\* and execute_record_plan has one request in flight).
THEOREM NeverDuplicates == Spec => []NoDuplicates
<1>1. IInv => NoDuplicates
  BY DEF IInv, Single
<1> QED
  BY <1>1, Inductive, PTL

\* A mutation starts in time, and the daemon does not stop without its answer.
BoundedStep ==
  /\ (req = NoReq /\ req' # NoReq) => (~late /\ ~stop)
  /\ (req # NoReq /\ pc' = "stopped") => faults' = faults + 1

\* A step that leaves the mutation alone, or ends it without stopping.
LEMMA KeepsBound ==
  ASSUME IInv, req' \in {req, NoReq}, pc' \in {pc, "next"} \/ req = NoReq
  PROVE  BoundedStep
<1>1. req # NoReq => pc = "mutate"
  BY DEF IInv, Shape
<1> QED
  BY <1>1 DEF BoundedStep

\* A find that sends a mutation does so in time, with none under way.
LEMMA FindBounded == IInv /\ Find => BoundedStep
<1> SUFFICES ASSUME IInv, Find PROVE BoundedStep
  OBVIOUS
<1>1. req = NoReq /\ ~stop
  BY DEF Find, IInv, Shape
<1>2. req' # req => ~late
  BY DEF Find, ExecutePlan, SendMutation
<1> QED
  BY <1>1, <1>2 DEF BoundedStep

\* Every step of the daemon, and every step of the world, respects the bounds.
LEMMA StepBounded == IInv /\ [Next]_vars => BoundedStep
<1> SUFFICES ASSUME IInv, [Next]_vars PROVE BoundedStep
  OBVIOUS
<1>1. CASE UNCHANGED vars \/ World
  <2>1. req' = req /\ pc' = pc
    BY <1>1 DEF vars, World, ProcessZombie, NewAddress, MoveZone, EditEntry, DeleteEntry,
       AddEntry, Change, process
  <2> QED
    BY <2>1, KeepsBound
<1>2. CASE Start \/ Wake
  BY <1>2, KeepsBound DEF Start, Wake, BeginCycle, IInv, Shape
<1>3. CASE Signal
  <2>1. req' = req /\ (req # NoReq => pc' = pc)
    BY <1>3 DEF Signal
  <2> QED
    BY <2>1, KeepsBound
<1>4. CASE Discover \/ Loop \/ ResolveZone \/ DeadlineExceeded \/ ReadFails
  <2>1. req' = req /\ pc # "mutate"
    BY <1>4 DEF Discover, Loop, ResolveZone, DeadlineExceeded, ReadFails, InPlan
  <2> QED
    BY <2>1, KeepsBound DEF IInv, Shape
<1>5. CASE Find
  BY <1>5, FindBounded
<1>6. CASE ProcessMutation
  BY <1>6 DEF ProcessMutation, BoundedStep, IInv, Shape
<1>7. CASE MutationAnswered
  <2>1. req' = NoReq /\ pc' = "next"
    BY <1>7 DEF MutationAnswered, NextRecord, RecordFails
  <2> QED
    BY <2>1, KeepsBound
<1>8. CASE MutationFails \/ Crash
  BY <1>8 DEF MutationFails, Crash, Fault, BoundedStep
<1>9. CASE ExpireOnSlow \/ ExpireEarly
  <2>1. req' = req /\ pc' = pc
    BY <1>9 DEF ExpireOnSlow, ExpireEarly, Expire
  <2> QED
    BY <2>1, KeepsBound
<1> QED
  BY <1>1, <1>2, <1>3, <1>4, <1>5, <1>6, <1>7, <1>8, <1>9 DEF Next, Progress, Failure

\* For any configuration a mutation starts only before the cycle's deadline and
\* before a shutdown is requested, and only a kill stops the daemon without its
\* answer (CycleControl::begin_mutation, run_daemon).
THEOREM MutationsAlwaysBounded == Spec => MutationsBounded
<1>1. IInv /\ [Next]_vars => [BoundedStep]_vars
  BY StepBounded
<1>2. Spec => [][BoundedStep]_vars
  BY <1>1, Inductive, PTL DEF Spec
<1> QED
  BY <1>2 DEF MutationsBounded, BoundedStep
=============================================================================
