--------------------------- MODULE MCRuntimeLock ---------------------------
(***************************************************************************)
(* Three updaters with pairwise overlapping configurations; the hash of r4   *)
(* collides with that of r1, so p1 and p3 meet at two lock files.            *)
(***************************************************************************)
EXTENDS RuntimeLock, TLC

CONSTANTS p1, p2, p3, r1, r2, r3, r4, svc, dev

MCProc == {p1, p2, p3}
MCRecord == {r1, r2, r3, r4}
MCUser == {svc, dev}
MCManaged == p1 :> {r1, r2, r3} @@ p2 :> {r2, r3} @@ p3 :> {r3, r4}
MCHashOf == r1 :> 1 @@ r2 :> 2 @@ r3 :> 3 @@ r4 :> 1
AllService == [p \in MCProc |-> svc]
OneDeveloper == [p \in MCProc |-> IF p = p2 THEN dev ELSE svc]

=============================================================================
