------------------------------- MODULE MCSync -------------------------------
(***************************************************************************)
(* Two records in one zone: an AAAA record with a configured zone           *)
(* identifier, whose lookups may hang and whose family may have no address, *)
(* and an A record that is found by name and created when missing.          *)
(***************************************************************************)
EXTENDS Sync

CONSTANTS z1, a1, a2

OneZone == [r \in 1..N |-> z1]
FirstExplicit == [r \in 1..N |-> IF r = 1 THEN 1 ELSE NoId]
FirstIsV6 == [r \in 1..N |-> IF r = 1 THEN "v6" ELSE "v4"]
=============================================================================
