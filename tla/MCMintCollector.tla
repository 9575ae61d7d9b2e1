-------------------------- MODULE MCMintCollector --------------------------
(***************************************************************************)
(* The instance of MintCollector: a deadline that two pings fit into.       *)
(***************************************************************************)
EXTENDS MintCollector
=============================================================================
