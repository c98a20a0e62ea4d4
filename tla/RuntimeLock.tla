---------------------------- MODULE RuntimeLock ----------------------------
(***************************************************************************)
(* The cross-process runtime lock of src/updater.rs: every process that may *)
(* change DNS opens one lock file per managed record, in the order of the   *)
(* records' hashes, and gives up at the first file another process holds.   *)
(* The directory of the files is chosen when the Updater is built.          *)
(*                                                                          *)
(* The operating system's advisory lock is modelled by `held' alone: a file *)
(* is free when no process holds it, and closing it (also by dying) frees   *)
(* it.  A file is identified by its directory and its hash.                 *)
(***************************************************************************)
EXTENDS Integers, FiniteSets

CONSTANTS
  Proc,         \* processes: the service, `once', `check --allow-create' ...
  Record,       \* DNS resources (zone, type, name)
  User,         \* operating-system accounts
  Managed,      \* Managed[p]: the records of p's configuration
  HashOf,       \* resource_lock_hash; two records may share a hash
  UserOf,       \* the account p runs under
  ServiceUser,  \* the owner of /var/lib/cirrusync
  MaxFaults     \* bound on crashes and I/O failures

ASSUME ConfigAssumption ==
  /\ IsFiniteSet(Proc)
  /\ Managed \in [Proc -> SUBSET Record]
  /\ \A p \in Proc : Managed[p] # {}
  /\ HashOf \in [Record -> Nat]
  /\ UserOf \in [Proc -> User]
  /\ ServiceUser \in User
  /\ MaxFaults \in Nat

VARIABLES
  installed,    \* /var/lib/cirrusync exists
  stage,        \* where each process is in its life
  root,         \* RuntimeLockIdentity::lock_root, fixed at construction
  held,         \* hashes of the lock files a process has locked
  refusedAt,    \* the path of an AlreadyRunning error, NoHash otherwise
  faults        \* crashes and I/O failures so far

vars == <<installed, stage, root, held, refusedAt, faults>>

NoHash == -1

Stage == {"exited", "built", "acquiring", "running", "dropping"}

Root == {"installed", "temporary"}

\* The sorted, deduplicated hashes of p's records, as a set.
Hashes(p) == {HashOf[r] : r \in Managed[p]}

\* The lock directory: /var/lib/cirrusync, or /tmp/cirrusync-runtime-<uid>.
LockDir(p) ==
  IF root[p] = "installed" THEN <<"installed", ServiceUser>>
                           ELSE <<"temporary", UserOf[p]>>

Dir == Root \X User

\* Mutant of Free: the lock is taken without looking at who holds it (a shared
\* instead of an exclusive lock).
SharedFree(p, h) == TRUE

\* No other process has locked the file with hash h of p's directory.
Free(p, h) == \A q \in Proc \ {p} : LockDir(q) = LockDir(p) => h \notin held[q]

\* Mutant of IsNext: resource_hashes is not sorted, the locks are taken in any
\* order.
UnsortedIsNext(p, h) == h \in Hashes(p) \ held[p]

\* The loop of acquire() is at the lowest hash it has not locked yet.
IsNext(p, h) ==
  /\ h \in Hashes(p) \ held[p]
  /\ \A g \in Hashes(p) \ held[p] : h <= g

Init ==
  /\ installed \in BOOLEAN
  /\ stage = [p \in Proc |-> "exited"]
  /\ root = [p \in Proc |-> "temporary"]
  /\ held = [p \in Proc |-> {}]
  /\ refusedAt = [p \in Proc |-> NoHash]
  /\ faults = 0

\* The installer, or systemd's StateDirectory=, creates the state directory.
Install ==
  /\ ~installed
  /\ installed' = TRUE
  /\ UNCHANGED <<stage, root, held, refusedAt, faults>>

\* A process starts (again) and Updater::new fixes its lock directory.
Build(p) ==
  /\ stage[p] = "exited"
  /\ stage' = [stage EXCEPT ![p] = "built"]
  /\ root' = [root EXCEPT ![p] = IF installed THEN "installed" ELSE "temporary"]
  /\ refusedAt' = [refusedAt EXCEPT ![p] = NoHash]
  /\ UNCHANGED <<installed, held, faults>>

\* prepare_lock_parent: the directory must belong to the process's account.
Prepare(p) ==
  /\ stage[p] = "built"
  /\ stage' = [stage EXCEPT ![p] =
       IF root[p] = "installed" /\ UserOf[p] # ServiceUser
       THEN "exited" ELSE "acquiring"]
  /\ UNCHANGED <<installed, root, held, refusedAt, faults>>

\* Mutant of TryLock: the guard is handed out after the first lock.
FirstLockOnly(p) ==
  /\ stage[p] = "acquiring"
  /\ \E h \in Hashes(p) :
       /\ IsNext(p, h)
       /\ Free(p, h)
       /\ held' = [held EXCEPT ![p] = @ \cup {h}]
       /\ stage' = [stage EXCEPT ![p] = "running"]
  /\ UNCHANGED <<installed, root, refusedAt, faults>>

\* One iteration of acquire(): open_runtime_lock and try_lock_exclusive.
TryLock(p) ==
  /\ stage[p] = "acquiring"
  /\ \E h \in Hashes(p) :
       /\ IsNext(p, h)
       /\ \/ /\ Free(p, h)
             /\ held' = [held EXCEPT ![p] = @ \cup {h}]
             /\ stage' = [stage EXCEPT ![p] =
                  IF Hashes(p) = held[p] \cup {h} THEN "running" ELSE @]
             /\ UNCHANGED refusedAt
          \/ /\ ~Free(p, h)
             /\ refusedAt' = [refusedAt EXCEPT ![p] = h]
             /\ stage' = [stage EXCEPT ![p] = "dropping"]
             /\ UNCHANGED held
  /\ UNCHANGED <<installed, root, faults>>

\* The guard's owner is finished with it.
BeginRelease(p) ==
  /\ stage[p] = "running"
  /\ stage' = [stage EXCEPT ![p] = "dropping"]
  /\ UNCHANGED <<installed, root, held, refusedAt, faults>>

\* RuntimeLockGuard::drop, or the drop of acquire()'s `files' on an error:
\* the files are unlocked one after the other, in the order they were taken.
DropFile(p) ==
  /\ stage[p] = "dropping"
  /\ \/ /\ held[p] = {}
        /\ stage' = [stage EXCEPT ![p] = "exited"]
        /\ UNCHANGED held
     \/ \E h \in held[p] :
        /\ \A g \in held[p] : h <= g
        /\ held' = [held EXCEPT ![p] = @ \ {h}]
        /\ UNCHANGED stage
  /\ UNCHANGED <<installed, root, refusedAt, faults>>

\* Open, Insecure and Lock errors: the directory or the file cannot be used.
AcquireFails(p) ==
  /\ faults < MaxFaults
  /\ stage[p] \in {"built", "acquiring"}
  /\ stage' = [stage EXCEPT ![p] = "dropping"]
  /\ faults' = faults + 1
  /\ UNCHANGED <<installed, root, held, refusedAt>>

\* The process is killed: the kernel closes all its files at once.
Crash(p) ==
  /\ faults < MaxFaults
  /\ stage[p] # "exited"
  /\ stage' = [stage EXCEPT ![p] = "exited"]
  /\ held' = [held EXCEPT ![p] = {}]
  /\ faults' = faults + 1
  /\ UNCHANGED <<installed, root, refusedAt>>

Step(p) ==
  \/ Build(p) \/ Prepare(p) \/ TryLock(p) \/ BeginRelease(p) \/ DropFile(p)
  \/ AcquireFails(p) \/ Crash(p)

Next == Install \/ \E p \in Proc : Step(p)

Spec == Init /\ [][Next]_vars

\* acquire() never blocks, and a drop runs to its end: a process that was
\* started gets through both.  When it starts and how long it runs is its own
\* affair.
Fairness == \A p \in Proc : WF_vars(Prepare(p) \/ TryLock(p) \/ DropFile(p))

FairSpec == Spec /\ Fairness

-----------------------------------------------------------------------------
(* Properties *)

\* Every variable has its type; locks are held only between Prepare and the end
\* of the drop, only for the process's own records, and a process that has its
\* guard holds all of them.
TypeOK ==
  /\ installed \in BOOLEAN
  /\ stage \in [Proc -> Stage]
  /\ root \in [Proc -> Root]
  /\ held \in [Proc -> SUBSET Nat]
  /\ refusedAt \in [Proc -> Nat \cup {NoHash}]
  /\ faults \in 0..MaxFaults
  /\ \A p \in Proc :
       /\ held[p] \subseteq Hashes(p)
       /\ stage[p] \in {"exited", "built"} => held[p] = {}
       /\ stage[p] = "acquiring" => held[p] # Hashes(p)
       /\ stage[p] = "running" => held[p] = Hashes(p)

\* A guard really covers its configuration: two processes that hold guards in
\* one lock directory manage no record in common (nor two that share a hash),
\* whatever was started, refused, dropped half-way or killed in between.
GuardsExclude ==
  \A p, q \in Proc :
    (p # q /\ stage[p] = "running" /\ stage[q] = "running" /\ LockDir(p) = LockDir(q))
      => Managed[p] \cap Managed[q] = {}

\* p was refused because of a lock q has not dropped yet.
RefusedBy(p, q) ==
  /\ refusedAt[p] # NoHash
  /\ stage[p] = "dropping"
  /\ LockDir(p) = LockDir(q)
  /\ refusedAt[p] \in held[q]

\* Starters never refuse each other in a circle: in no set of processes was
\* everyone refused by a lock another one of them held, so of the updaters that
\* race for overlapping records at least one gets through.  This is what the
\* sort of resource_hashes in for_config is for.
NoCircularRefusal ==
  \A S \in SUBSET Proc : S # {} =>
    \E p \in S : \A q \in S : ~RefusedBy(p, q)

\* As long as processes keep trying, some process keeps getting its guard:
\* refusals alone, with restarts, never starve the whole fleet.
SomeoneGetsThrough ==
  ([]<>(\E p \in Proc : stage[p] = "acquiring"))
    => []<>(\E p \in Proc : stage[p] = "running")

\* What README.md says of the lock: it rejects another updater managing any
\* overlapping DNS resource.
OverlapRejected ==
  \A p, q \in Proc :
    (p # q /\ stage[p] = "running" /\ stage[q] = "running")
      => Managed[p] \cap Managed[q] = {}

\* The abstract specification: guards own the records of their configuration
\* in their lock directory, taken and given back in one step.
Guards ==
  [p \in Proc |-> IF stage[p] = "running" THEN {LockDir(p)} \X Managed[p] ELSE {}]

Owner == INSTANCE Ownership WITH
  Claim <- [p \in Proc |-> {{d} \X Managed[p] : d \in Dir}],
  owned <- Guards

\* Guards are handed out and given back as Ownership says.
ImplementsOwnership == Owner!Spec
=============================================================================
