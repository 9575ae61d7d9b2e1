---------------------------- MODULE MCBlockScan ----------------------------
(***************************************************************************)
(* Two proposers and a chain of up to five blocks: windows that reach the   *)
(* first block and windows that do not, and blocks committed while a call   *)
(* is under way.                                                            *)
(***************************************************************************)
EXTENDS BlockScan, Functions

MCValidators == 1..2

(* blocks_proposed is documented as the number of blocks proposed in the    *)
(* recent window (validator_collector.go:44), the window being BLOCK_WINDOW *)
(* blocks (README.md:21): the counts of one scan add up to at most that.    *)
WithinWindow ==
  op = "proposers" /\ pc = "done" =>
    FoldFunction(LAMBDA a, b : a + b, 0, counts) <= BlockWindow
=============================================================================
