-------------------------- MODULE MCApiCollectors --------------------------
(***************************************************************************)
(* "k1,,k2" with a deadline that two hanging calls use up; the label an     *)
(* answer names for a key is its redacted form for one key and not for the  *)
(* other.                                                                   *)
(***************************************************************************)
EXTENDS ApiCollectors

CONSTANTS k1, k2, none

MCKeys   == {k1, k2}
MCList   == <<k1, none, k2>>
MCLabels == {"", "sk-1", "sk-2", "team"}
MCRedact == [k \in MCKeys |-> IF k = k1 THEN "sk-1" ELSE "sk-2"]
MCNamed  == [k \in MCKeys |-> IF k = k1 THEN "sk-1" ELSE "team"]
=============================================================================
