----------------------------- MODULE Ownership -----------------------------
(***************************************************************************)
(* What the runtime lock promises its callers (daemon::run, run_cycle and   *)
(* check): a process that got a guard owns the resources of its             *)
(* configuration, all at once, and nobody else owns any of them until the   *)
(* guard is dropped or the process dies.  RuntimeLock implements this       *)
(* specification although it takes and drops one lock file at a time.       *)
(***************************************************************************)
CONSTANTS
  Proc,
  Claim         \* Claim[p]: the sets of resources p may ask for

VARIABLE owned          \* owned[p]: the resources p may change

Init == owned = [p \in Proc |-> {}]

\* A guard is handed out for a whole set of resources nobody else owns.
Take(p) ==
  /\ owned[p] = {}
  /\ \E R \in Claim[p] :
       /\ R # {}
       /\ \A q \in Proc : owned[q] \cap R = {}
       /\ owned' = [owned EXCEPT ![p] = R]

\* The guard is dropped, or its process dies.
Release(p) ==
  /\ owned[p] # {}
  /\ owned' = [owned EXCEPT ![p] = {}]

Next == \E p \in Proc : Take(p) \/ Release(p)

Spec == Init /\ [][Next]_owned
=============================================================================
