-------------------------- MODULE MCConfiguration --------------------------
(***************************************************************************)
(* A key that holds a number, with one value that is none, and a key that   *)
(* holds a string and takes every value.                                    *)
(***************************************************************************)
EXTENDS Configuration

CONSTANTS timeout, addr, v1, v2, word

MCKeys       == {timeout, addr}
MCValues     == {v1, v2, word}
MCWellFormed == [k \in MCKeys |-> IF k = timeout THEN {v1, v2} ELSE MCValues]
MCDefault    == [k \in MCKeys |-> v1]
=============================================================================
