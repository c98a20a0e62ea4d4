------------------------- MODULE RuntimeLockProofs -------------------------
(***************************************************************************)
(* Proofs about RuntimeLock for any number of processes, configurations,    *)
(* accounts and any hash function: guards exclude each other, refusals are  *)
(* never circular, and the lock implements Ownership.                       *)
(***************************************************************************)
EXTENDS RuntimeLock, FiniteSetTheorems, WellFoundedInduction, TLAPS

\* One lock file has at most one holder.
OneHolder ==
  \A p, q \in Proc :
    (p # q /\ LockDir(p) = LockDir(q)) => held[p] \cap held[q] = {}

\* The locks already taken are below those still to take, and a refused
\* process holds only locks below the one it was refused at.
Ascending ==
  \A p \in Proc :
    /\ stage[p] = "acquiring" =>
         \A g \in held[p], h \in Hashes(p) \ held[p] : g < h
    /\ stage[p] \in {"built", "acquiring", "running"} => refusedAt[p] = NoHash
    /\ (stage[p] = "dropping" /\ refusedAt[p] # NoHash) =>
         \A g \in held[p] : g < refusedAt[p]

\* The inductive invariant.
IInv == TypeOK /\ OneHolder /\ Ascending

-----------------------------------------------------------------------------
\* A function on a finite, nonempty set takes a largest value.
LEMMA FiniteMax ==
  ASSUME NEW S, IsFiniteSet(S), S # {}, NEW f \in [S -> Int]
  PROVE  \E x \in S : \A y \in S : f[y] <= f[x]
<1> DEFINE Above(x) == {y \in S : f[y] > f[x]}
           F == {Above(x) : x \in S}
<1>1. IsWellFoundedOn(StrictSubsetOrdering(S), SUBSET S)
  BY FS_StrictSubsetOrderingWellFounded, FS_FiniteSubsetsOfFinite
<1>2. F # {} /\ F \subseteq SUBSET S
  <2>1. PICK x \in S : TRUE
    OBVIOUS
  <2>2. Above(x) \in F
    OBVIOUS
  <2>3. \A A \in F : A \subseteq S
    OBVIOUS
  <2> QED BY <2>2, <2>3
<1>3. \E A \in F : \A B \in F : ~(<<B, A>> \in StrictSubsetOrdering(S))
  <2> HIDE DEF F
  <2> QED BY <1>1, <1>2, WFMin
<1>4. PICK x \in S : \A B \in F : ~(<<B, Above(x)>> \in StrictSubsetOrdering(S))
  BY <1>3
<1>5. ASSUME NEW y \in S, ~(f[y] <= f[x]) PROVE FALSE
  <2>1. f[y] > f[x] /\ f[x] \in Int /\ f[y] \in Int
    BY <1>5
  <2>2. Above(y) \subseteq Above(x) /\ y \in Above(x) /\ y \notin Above(y)
    BY <2>1
  <2>3. <<Above(y), Above(x)>> \in StrictSubsetOrdering(S)
    BY <2>2 DEF StrictSubsetOrdering
  <2> QED BY <2>3, <1>4
<1> QED BY <1>5

\* The hashes of a configuration are natural numbers.
LEMMA HashesType == \A p \in Proc : Hashes(p) \in SUBSET Nat /\ Hashes(p) # {}
  BY ConfigAssumption DEF Hashes

-----------------------------------------------------------------------------
\* The initial states satisfy the inductive invariant.
LEMMA InitIInv == Init => IInv
<1> SUFFICES ASSUME Init PROVE IInv
  OBVIOUS
<1>1. TypeOK
  BY HashesType, ConfigAssumption DEF Init, TypeOK, Stage, Root, NoHash
<1>2. OneHolder
  BY DEF Init, OneHolder
<1>3. Ascending
  BY DEF Init, Ascending
<1> QED BY <1>1, <1>2, <1>3 DEF IInv

\* Taking the next lock, or being refused it, keeps the invariant: the only
\* action that adds to `held'.
LEMMA TryLockIInv ==
  ASSUME IInv, NEW p \in Proc, TryLock(p)
  PROVE  IInv'
<1> USE HashesType DEF IInv
<1>1. PICK h \in Hashes(p) :
        /\ IsNext(p, h)
        /\ \/ /\ Free(p, h)
              /\ held' = [held EXCEPT ![p] = @ \cup {h}]
              /\ stage' = [stage EXCEPT ![p] =
                   IF Hashes(p) = held[p] \cup {h} THEN "running" ELSE @]
              /\ UNCHANGED refusedAt
           \/ /\ ~Free(p, h)
              /\ refusedAt' = [refusedAt EXCEPT ![p] = h]
              /\ stage' = [stage EXCEPT ![p] = "dropping"]
              /\ UNCHANGED held
  BY DEF TryLock
<1>2. h \in Nat /\ h \notin held[p] /\ stage[p] = "acquiring"
      /\ UNCHANGED <<installed, root, faults>>
  BY <1>1 DEF IsNext, TryLock
<1>3. \A q \in Proc : LockDir(q)' = LockDir(q)
  BY <1>2 DEF LockDir
<1>4. \A q \in Proc : Hashes(q)' = Hashes(q)
  BY DEF Hashes
<1>5. \A g \in held[p] : g < h
  BY <1>1, <1>2 DEF Ascending, IsNext
<1>6. CASE ~Free(p, h)
  <2>1. /\ refusedAt' = [refusedAt EXCEPT ![p] = h]
        /\ stage' = [stage EXCEPT ![p] = "dropping"]
        /\ UNCHANGED held
    BY <1>1, <1>6
  <2>2. TypeOK'
    BY <2>1, <1>2, <1>4 DEF TypeOK, Stage
  <2>3. OneHolder'
    BY <2>1, <1>3 DEF OneHolder
  <2>4. Ascending'
    BY <2>1, <1>2, <1>4, <1>5 DEF Ascending, TypeOK
  <2> QED BY <2>2, <2>3, <2>4
<1>7. CASE Free(p, h)
  <2>1. /\ held' = [held EXCEPT ![p] = @ \cup {h}]
        /\ stage' = [stage EXCEPT ![p] =
             IF Hashes(p) = held[p] \cup {h} THEN "running" ELSE @]
        /\ UNCHANGED refusedAt
    BY <1>1, <1>7
  <2>2. TypeOK'
    BY <2>1, <1>2, <1>4 DEF TypeOK, Stage
  <2>3. OneHolder'
    <3>1. \A q \in Proc \ {p} : LockDir(q) = LockDir(p) => h \notin held[q]
      BY <1>7 DEF Free
    <3> QED BY <2>1, <3>1, <1>3 DEF OneHolder, TypeOK
  <2>4. Ascending'
    <3>1. \A g \in Hashes(p) \ (held[p] \cup {h}) : h < g
      BY <1>1, <1>2 DEF IsNext
    <3>2. \A g \in held[p] \cup {h}, k \in Hashes(p) \ (held[p] \cup {h}) : g < k
      BY <3>1, <1>2 DEF Ascending
    <3>3. held'[p] = held[p] \cup {h} /\ \A q \in Proc \ {p} : held'[q] = held[q]
      BY <2>1 DEF TypeOK
    <3>4. stage'[p] \in {"acquiring", "running"}
          /\ \A q \in Proc \ {p} : stage'[q] = stage[q]
      BY <2>1, <1>2 DEF TypeOK
    <3>5. refusedAt[p] = NoHash
      BY <1>2 DEF Ascending
    <3> QED BY <3>2, <3>3, <3>4, <3>5, <2>1, <1>4 DEF Ascending
  <2> QED BY <2>2, <2>3, <2>4
<1> QED BY <1>6, <1>7

\* Every other step of a process keeps it: it adds to no `held', and it moves
\* the process to another directory only while it holds nothing.
LEMMA OtherStepsIInv ==
  ASSUME IInv, NEW p \in Proc, Step(p), ~TryLock(p)
  PROVE  IInv'
<1> USE HashesType DEF IInv
<1>0. \A q \in Proc : Hashes(q)' = Hashes(q)
  BY DEF Hashes
<1>1. CASE Build(p)
  <2>1. \A q \in Proc \ {p} : LockDir(q)' = LockDir(q)
    BY <1>1 DEF Build, LockDir, TypeOK
  <2>2. held[p] = {} /\ held' = held
    BY <1>1 DEF Build, TypeOK
  <2>3. TypeOK'
    BY <1>1, <1>0 DEF Build, TypeOK, Stage, Root, NoHash
  <2>4. OneHolder'
    BY <2>1, <2>2 DEF OneHolder
  <2>5. Ascending'
    BY <1>1, <1>0, <2>2 DEF Build, Ascending, TypeOK
  <2> QED BY <2>3, <2>4, <2>5
<1>2. CASE ~Build(p)
  <2>1. UNCHANGED root /\ \A q \in Proc : LockDir(q)' = LockDir(q)
    BY <1>2 DEF Step, Prepare, BeginRelease, DropFile, AcquireFails, Crash, LockDir
  <2>2. \A q \in Proc : held'[q] \subseteq held[q]
    BY <1>2 DEF Step, Prepare, BeginRelease, DropFile, AcquireFails, Crash, TypeOK
  <2>3. UNCHANGED refusedAt
    BY <1>2 DEF Step, Prepare, BeginRelease, DropFile, AcquireFails, Crash
  <2>4. OneHolder'
    BY <2>1, <2>2 DEF OneHolder
  <2>5. CASE Prepare(p)
    <3>1. TypeOK'
      BY <2>5, <1>0 DEF Prepare, TypeOK, Stage
    <3>2. Ascending'
      BY <2>5, <1>0 DEF Prepare, Ascending, TypeOK
    <3> QED BY <3>1, <3>2, <2>4
  <2>6. CASE BeginRelease(p)
    <3>1. TypeOK'
      BY <2>6, <1>0 DEF BeginRelease, TypeOK, Stage
    <3>2. Ascending'
      BY <2>6, <1>0 DEF BeginRelease, Ascending, TypeOK
    <3> QED BY <3>1, <3>2, <2>4
  <2>7. CASE DropFile(p)
    <3>1. TypeOK'
      BY <2>7, <1>0 DEF DropFile, TypeOK, Stage
    <3>2. Ascending'
      BY <2>7, <1>0 DEF DropFile, Ascending, TypeOK
    <3> QED BY <3>1, <3>2, <2>4
  <2>8. CASE AcquireFails(p)
    <3>1. TypeOK'
      BY <2>8, <1>0, ConfigAssumption DEF AcquireFails, TypeOK, Stage
    <3>2. Ascending'
      BY <2>8, <1>0 DEF AcquireFails, Ascending, TypeOK
    <3> QED BY <3>1, <3>2, <2>4
  <2>9. CASE Crash(p)
    <3>1. TypeOK'
      BY <2>9, <1>0, ConfigAssumption DEF Crash, TypeOK, Stage
    <3>2. Ascending'
      BY <2>9, <1>0 DEF Crash, Ascending, TypeOK
    <3> QED BY <3>1, <3>2, <2>4
  <2> QED BY <1>2, <2>5, <2>6, <2>7, <2>8, <2>9 DEF Step
<1> QED BY <1>1, <1>2

\* The invariant is inductive.
LEMMA NextIInv == IInv /\ [Next]_vars => IInv'
<1> SUFFICES ASSUME IInv, [Next]_vars PROVE IInv'
  OBVIOUS
<1>1. CASE Install
  BY <1>1 DEF IInv, Install, TypeOK, OneHolder, Ascending, LockDir, Hashes
<1>2. CASE UNCHANGED vars
  BY <1>2 DEF IInv, vars, TypeOK, OneHolder, Ascending, LockDir, Hashes
<1>3. ASSUME NEW p \in Proc, Step(p) PROVE IInv'
  BY <1>3, TryLockIInv, OtherStepsIInv
<1> QED BY <1>1, <1>2, <1>3 DEF Next

\* The inductive invariant holds in every reachable state.
THEOREM Invariance == Spec => []IInv
BY InitIInv, NextIInv, PTL DEF Spec

\* Type correctness, with what each stage of a process implies for its locks.
THEOREM TypeCorrect == Spec => []TypeOK
<1>1. IInv => TypeOK
  BY DEF IInv
<1> QED BY <1>1, Invariance, PTL

-----------------------------------------------------------------------------
\* In one lock directory, guards of two processes never cover a common record:
\* each holds all its hashes, and one file has one holder.
LEMMA IInvExcludes == IInv => GuardsExclude
<1> SUFFICES ASSUME IInv, NEW p \in Proc, NEW q \in Proc, p # q,
                    stage[p] = "running", stage[q] = "running",
                    LockDir(p) = LockDir(q),
                    NEW r \in Managed[p] \cap Managed[q]
             PROVE  FALSE
  BY DEF GuardsExclude
<1>1. HashOf[r] \in held[p] /\ HashOf[r] \in held[q]
  BY DEF IInv, TypeOK, Hashes
<1> QED BY <1>1 DEF IInv, OneHolder

\* Two processes with a guard in the same lock directory manage disjoint
\* records, for every number of processes, every overlap of their
\* configurations and every hash function.
THEOREM GuardsExcludeAlways == Spec => []GuardsExclude
BY IInvExcludes, Invariance, PTL

\* No set of processes is refused in a circle: take the one refused at the
\* highest lock; whoever holds that lock was refused at a still higher one.
LEMMA IInvNoCircle == IInv => NoCircularRefusal
<1> SUFFICES ASSUME IInv, NEW S \in SUBSET Proc, S # {},
                    \A p \in S : \E q \in S : RefusedBy(p, q)
             PROVE  FALSE
  BY DEF NoCircularRefusal
<1> DEFINE f == [p \in S |-> refusedAt[p]]
<1>1. IsFiniteSet(S)
  BY ConfigAssumption, FS_Subset
<1>2. f \in [S -> Int]
  BY DEF IInv, TypeOK, NoHash
<1>3. \E x \in S : \A y \in S : f[y] <= f[x]
  <2> HIDE DEF f
  <2> QED BY <1>1, <1>2, FiniteMax
<1>4. PICK p \in S : \A q \in S : refusedAt[q] <= refusedAt[p]
  BY <1>3
<1>5. PICK q \in S : RefusedBy(p, q)
  OBVIOUS
<1>6. stage[q] = "dropping" /\ refusedAt[q] # NoHash
  BY DEF RefusedBy
<1>7. refusedAt[p] < refusedAt[q]
  BY <1>5, <1>6 DEF RefusedBy, IInv, Ascending
<1>8. refusedAt[p] \in Int /\ refusedAt[q] \in Int
  BY <1>2
<1> QED BY <1>4, <1>7, <1>8

\* Starters that race for overlapping records never all refuse each other:
\* thanks to the ascending order, refusals form no cycle.
THEOREM NoCircularRefusalAlways == Spec => []NoCircularRefusal
BY IInvNoCircle, Invariance, PTL
-----------------------------------------------------------------------------
\* A configuration is never empty, so neither is what its guard owns.
LEMMA GuardsNonEmpty ==
  ASSUME NEW p \in Proc, TypeOK
  PROVE  /\ LockDir(p) \in Dir
         /\ {LockDir(p)} \X Managed[p] # {}
<1>1. LockDir(p) \in Dir
  BY ConfigAssumption DEF TypeOK, LockDir, Dir, Root
<1>2. PICK r \in Managed[p] : TRUE
  BY ConfigAssumption
<1>3. <<LockDir(p), r>> \in {LockDir(p)} \X Managed[p]
  OBVIOUS
<1> QED BY <1>1, <1>3

\* The step that completes an acquisition is Ownership's Take: nobody else's
\* guard covers any of the records.
LEMMA TryLockImplements ==
  ASSUME IInv, IInv', NEW p \in Proc, TryLock(p)
  PROVE  [Owner!Next]_Guards
<1>1. UNCHANGED root /\ \A q \in Proc : LockDir(q)' = LockDir(q)
  BY DEF TryLock, LockDir
<1>2. \A q \in Proc \ {p} : stage'[q] = stage[q]
  BY DEF TryLock, IInv, TypeOK
<1>3. stage[p] = "acquiring" /\ Guards[p] = {}
  BY DEF TryLock, Guards
<1>4. CASE stage'[p] # "running"
  BY <1>1, <1>2, <1>3, <1>4 DEF Guards
<1>5. CASE stage'[p] = "running"
  <2> DEFINE R == {LockDir(p)} \X Managed[p]
  <2>1. R \in {{d} \X Managed[p] : d \in Dir} /\ R # {}
    BY GuardsNonEmpty DEF IInv
  <2>2. \A q \in Proc : Guards[q] \cap R = {}
    <3>1. GuardsExclude'
      BY IInvExcludes, PTL
    <3> SUFFICES ASSUME NEW q \in Proc \ {p}, stage[q] = "running",
                        LockDir(q) = LockDir(p)
                 PROVE  Managed[q] \cap Managed[p] = {}
      BY <1>3 DEF Guards
    <3> QED BY <3>1, <1>1, <1>2, <1>5 DEF GuardsExclude
  <2>3. Guards' = [Guards EXCEPT ![p] = R]
    BY <1>1, <1>2, <1>5 DEF Guards
  <2>4. Owner!Take(p)
    BY <1>3, <2>1, <2>2, <2>3 DEF Owner!Take
  <2> QED BY <2>4 DEF Owner!Next
<1> QED BY <1>4, <1>5

\* Every other step releases a guard or changes none.
LEMMA OtherStepsImplement ==
  ASSUME IInv, NEW p \in Proc, Step(p), ~TryLock(p)
  PROVE  [Owner!Next]_Guards
<1>1. CASE Build(p)
  <2>1. Guards' = Guards
    BY <1>1 DEF Build, Guards, LockDir, IInv, TypeOK
  <2> QED BY <2>1
<1>2. CASE ~Build(p)
  <2>1. \A q \in Proc : LockDir(q)' = LockDir(q)
    BY <1>2 DEF Step, Prepare, BeginRelease, DropFile, AcquireFails, Crash, LockDir
  <2>2. \A q \in Proc \ {p} : stage'[q] = stage[q]
    BY <1>2 DEF Step, Prepare, BeginRelease, DropFile, AcquireFails, Crash, IInv, TypeOK
  <2>3. stage'[p] # "running"
    BY <1>2 DEF Step, Prepare, BeginRelease, DropFile, AcquireFails, Crash, IInv, TypeOK
  <2>4. CASE stage[p] # "running"
    <3>1. Guards' = Guards
      BY <2>1, <2>2, <2>3, <2>4 DEF Guards
    <3> QED BY <3>1
  <2>5. CASE stage[p] = "running"
    <3>1. Guards[p] # {}
      BY <2>5, GuardsNonEmpty DEF Guards, IInv
    <3>2. Guards' = [Guards EXCEPT ![p] = {}]
      BY <2>1, <2>2, <2>3 DEF Guards
    <3>3. Owner!Release(p)
      BY <3>1, <3>2 DEF Owner!Release
    <3> QED BY <3>3 DEF Owner!Next
  <2> QED BY <2>4, <2>5
<1> QED BY <1>1, <1>2

\* Taking and dropping lock files one at a time implements Ownership, where a
\* guard is taken and given back in one step.
THEOREM LockImplementsOwnership == Spec => ImplementsOwnership
<1>1. Init => Owner!Init
  BY DEF Init, Owner!Init, Guards
<1>2. IInv /\ IInv' /\ [Next]_vars => [Owner!Next]_Guards
  <2> SUFFICES ASSUME IInv, IInv', [Next]_vars PROVE [Owner!Next]_Guards
    OBVIOUS
  <2>1. CASE Install
    BY <2>1 DEF Install, Guards, LockDir
  <2>2. CASE UNCHANGED vars
    BY <2>2 DEF vars, Guards, LockDir
  <2>3. ASSUME NEW p \in Proc, Step(p) PROVE [Owner!Next]_Guards
    BY <2>3, TryLockImplements, OtherStepsImplement
  <2> QED BY <2>1, <2>2, <2>3 DEF Next
<1> QED BY <1>1, <1>2, Invariance, PTL DEF Spec, ImplementsOwnership, Owner!Spec
=============================================================================
