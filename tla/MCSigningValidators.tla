------------------------ MODULE MCSigningValidators ------------------------
(***************************************************************************)
(* Three validators whose order by operator address differs from their     *)
(* order by consensus address.  The ranks leave no gap, so that a page      *)
(* boundary can fall on every validator.                                    *)
(***************************************************************************)
EXTENDS SigningValidators

MCValidators == 1..3
MCConsRank   == <<1, 2, 3>>
MCOperRank   == <<3, 1, 2>>
=============================================================================
