------------------------------ MODULE MCCheck ------------------------------
(***************************************************************************)
(* Instances of Check.  ThreeKeys: the second record configures the zone of  *)
(* the first by its identifier instead of its name; the third is elsewhere.  *)
(***************************************************************************)
EXTENDS Check

ThreeKeys == <<"name", "id", "other">>
TwoZones == [k \in {"name", "id", "other"} |-> IF k = "other" THEN "z2" ELSE "z1"]
AllButFirst == 2..3

OneKey == <<"name", "name">>
OneZone == [k \in {"name"} |-> "z1"]
=============================================================================
