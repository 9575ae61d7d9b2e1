----------------------- MODULE MCValidatorsCollector -----------------------
(***************************************************************************)
(* Two validators in pages of one, with opposite store orders: 1 comes and  *)
(* goes, 2 is bonded throughout and proposed the first block, so that every *)
(* scrape that succeeds has read several pages, and rows of both can differ *)
(* in their counts.  One validator is enough to miss blocks.                *)
(***************************************************************************)
EXTENDS ValidatorsCollector

MCValidators == 1..2
MCConsRank   == <<1, 2>>
MCOperRank   == <<2, 1>>
MCRestless   == {1}

MCOne     == {1}
MCOneRank == <<1>>

(* A bound on where the chain starts, not on what it does afterwards.       *)
MCInit ==
  /\ Init
  /\ 2 \in (staked \cap siginfos) \ (jailed \cup tombstoned)
  /\ blocks[1].proposer = 2

MCFairSpec == MCInit /\ [][Next]_vars /\ WF_vars(Expire) /\ WF_vars(Step)

(* Missed blocks within the last BLOCK_WINDOW blocks (README.md:55).        *)
MissedWithinWindow == \A r \in rows : r.missed <= BlockWindow
=============================================================================
