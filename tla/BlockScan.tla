----------------------------- MODULE BlockScan -----------------------------
(***************************************************************************)
(* grpc.BlockProposers and grpc.AverageBlockTime: two functions that ask   *)
(* the node for its latest height and then fetch blocks by height, while   *)
(* the chain keeps growing and single fetches fail.  BlockProposers skips  *)
(* a height it cannot fetch and carries on; AverageBlockTime gives up.     *)
(* The two run one after the other under the context of one scrape.        *)
(***************************************************************************)
EXTENDS Integers, Sequences, FiniteSets

CONSTANTS
  Validators,   \* consensus addresses that propose blocks
  BlockWindow,  \* BLOCK_WINDOW, the argument of BlockProposers
  SampleSize,   \* the argument of AverageBlockTime, 100 in the code
  MaxGap,       \* the longest time between two blocks
  MaxHeight     \* bound on the height of the chain

ASSUME WindowAssumption == BlockWindow \in Int /\ SampleSize \in Nat
ASSUME ChainAssumption  == MaxGap \in Nat \ {0} /\ MaxHeight \in Nat

VARIABLES
  blocks,   \* the chain, external: blocks[height] is [proposer, time]
  \* the call in progress, or the last one
  op,       \* "proposers" | "average"
  pc,       \* "idle" | "dial" | "latest" | "scan" | "first" | "last" | "done"
  latest,   \* latestHeight
  start,    \* startHeight
  height,   \* the loop variable of BlockProposers
  counts,   \* proposerCounts, an absent entry being 0
  begin,    \* startTime
  avg,      \* timeDiff and blockCount, whose quotient is returned
  failed,   \* the call returned an error
  conn,     \* gRPC connections opened and not closed
  expired,  \* the context's deadline has passed
  \* history
  skipped   \* heights BlockProposers went past without counting

call == <<op, pc, latest, start, height, counts, begin, avg, failed>>
vars == <<blocks, call, conn, expired, skipped>>

Block   == [proposer : Validators, time : Nat]
NoCount == [v \in Validators |-> 0]
NoSpan  == [span |-> 0, n |-> 0]

TypeOK ==
  /\ blocks \in Seq(Block) /\ Len(blocks) > 0
  /\ op \in {"proposers", "average"}
  /\ pc \in {"idle", "dial", "latest", "scan", "first", "last", "done"}
  /\ latest \in Nat
  /\ start \in Int
  /\ height \in Int
  /\ counts \in [Validators -> Nat]
  /\ begin \in Nat
  /\ avg \in [span : Nat, n : Nat]
  /\ failed \in BOOLEAN
  /\ conn \in Nat
  /\ expired \in BOOLEAN
  /\ skipped \subseteq Int

-----------------------------------------------------------------------------
(* The chain commits a block; block times increase. *)
NewBlock ==
  /\ Len(blocks) < MaxHeight
  /\ \E v \in Validators, gap \in 1..MaxGap :
       blocks' = Append(blocks, [proposer |-> v,
                                 time |-> blocks[Len(blocks)].time + gap])
  /\ UNCHANGED <<call, conn, expired, skipped>>

(* Collect creates the context both calls run under, and its deadline passes. *)
NewContext ==
  /\ pc \in {"idle", "done"}
  /\ expired' = FALSE
  /\ UNCHANGED <<blocks, call, conn, skipped>>

Expire ==
  /\ ~expired
  /\ expired' = TRUE
  /\ UNCHANGED <<blocks, call, conn, skipped>>

-----------------------------------------------------------------------------
(* The deferred close runs on every return once the latest height was asked for. *)
CloseConn == conn' = conn - 1

ReturnError ==
  /\ pc' = "done" /\ failed' = TRUE
  /\ UNCHANGED <<op, latest, start, height, counts, begin, avg>>

Call(o) ==
  /\ pc \in {"idle", "done"}
  /\ op' = o /\ pc' = "dial" /\ failed' = FALSE
  /\ IF o = "proposers"
     THEN counts' = NoCount /\ skipped' = {} /\ UNCHANGED avg
     ELSE avg' = NoSpan /\ UNCHANGED <<counts, skipped>>
  /\ UNCHANGED <<blocks, latest, start, height, begin, conn, expired>>

(* Seeded bug: the close is deferred before the dial's error is looked at. *)
CloseBeforeCheck ==
  /\ pc = "dial"
  /\ \/ /\ pc' = "latest" /\ conn' = conn + 1
        /\ UNCHANGED <<op, latest, start, height, counts, begin, avg, failed>>
     \/ ReturnError /\ CloseConn
  /\ UNCHANGED <<blocks, expired, skipped>>

NewClient ==
  /\ pc = "dial"
  /\ \/ /\ pc' = "latest" /\ conn' = conn + 1
        /\ UNCHANGED <<op, latest, start, height, counts, begin, avg, failed>>
     \/ ReturnError /\ UNCHANGED conn
  /\ UNCHANGED <<blocks, expired, skipped>>

(* startHeight = max(latestHeight - n, 1) *)
StartHeight(top, n) == IF top - n > 1 THEN top - n ELSE 1

GetLatestBlock ==
  /\ pc = "latest" /\ ~expired
  /\ latest' = Len(blocks)
  /\ start' = StartHeight(latest', IF op = "proposers" THEN BlockWindow ELSE SampleSize)
  /\ pc' = IF op = "proposers" THEN "scan" ELSE "first"
  /\ height' = start'
  /\ UNCHANGED <<blocks, op, counts, begin, avg, failed, conn, expired, skipped>>

(* Seeded bug: after a failed fetch the block fetched before is counted again. *)
CountLastSeen ==
  /\ counts' = [counts EXCEPT ![blocks[IF height > start THEN height - 1 ELSE height].proposer]
                  = @ + 1]
  /\ skipped' = skipped \cup {height}

(* A height that could not be fetched or decoded is left out of the counts. *)
Skip ==
  /\ skipped' = skipped \cup {height}
  /\ UNCHANGED counts

CountBlock ==
  /\ ~expired
  /\ counts' = [counts EXCEPT ![blocks[height].proposer] = @ + 1]
  /\ UNCHANGED skipped

(* One iteration of the loop; after the deadline every fetch fails. *)
ScanBlock ==
  /\ pc = "scan" /\ height <= latest
  /\ CountBlock \/ Skip
  /\ height' = height + 1
  /\ UNCHANGED <<blocks, op, pc, latest, start, begin, avg, failed, conn, expired>>

ScanReturns ==
  /\ pc = "scan" /\ height > latest
  /\ pc' = "done"
  /\ CloseConn
  /\ UNCHANGED <<blocks, op, latest, start, height, counts, begin, avg, failed,
                 expired, skipped>>

GetStartBlock ==
  /\ pc = "first" /\ ~expired
  /\ begin' = blocks[start].time
  /\ pc' = "last"
  /\ UNCHANGED <<blocks, op, latest, start, height, counts, avg, failed, conn,
                 expired, skipped>>

(* Seeded bug: the end block is whatever is the latest by now. *)
NewestTime == blocks[Len(blocks)].time

(* The end block is the one the sample was sized by. *)
EndTime == blocks[latest].time

(* The end block, and the quotient: no blocks between the two is an error. *)
GetEndBlock ==
  /\ pc = "last" /\ ~expired
  /\ IF latest = start
     THEN ReturnError
     ELSE /\ avg' = [span |-> EndTime - begin, n |-> latest - start]
          /\ pc' = "done"
          /\ UNCHANGED <<op, latest, start, height, counts, begin, failed>>
  /\ CloseConn
  /\ UNCHANGED <<blocks, expired, skipped>>

(* The latest block, or one of the two sample blocks, is not to be had. *)
QueryFails ==
  /\ pc \in {"latest", "first", "last"}
  /\ ReturnError /\ CloseConn
  /\ UNCHANGED <<blocks, expired, skipped>>

Init ==
  /\ \E v \in Validators : blocks = <<[proposer |-> v, time |-> 0]>>
  /\ op = "proposers" /\ pc = "idle"
  /\ latest = 0 /\ start = 0 /\ height = 0
  /\ counts = NoCount /\ begin = 0 /\ avg = NoSpan
  /\ failed = FALSE /\ conn = 0 /\ expired = FALSE
  /\ skipped = {}

Step == \/ NewClient \/ GetLatestBlock \/ ScanBlock \/ ScanReturns
        \/ GetStartBlock \/ GetEndBlock \/ QueryFails

Calls == \E o \in {"proposers", "average"} : Call(o)

Next == NewBlock \/ NewContext \/ Expire \/ Calls \/ Step

Spec == Init /\ [][Next]_vars
-----------------------------------------------------------------------------
(* The blocks of a set of heights that v proposed. *)
ProposedBy(v, heights) == {i \in heights : blocks[i].proposer = v}

(* What BlockProposers returns is, for every validator, exactly the number  *)
(* of blocks it proposed in the window fixed by the first query, less those *)
(* at the heights that could not be read: blocks committed meanwhile do not *)
(* enter, no height is counted twice, and none is dropped otherwise.        *)
CountsExact ==
  op = "proposers" /\ pc = "done" /\ ~failed =>
    \A v \in Validators :
      counts[v] = Cardinality(ProposedBy(v, (start..latest) \ skipped))

(* An average that is returned divides by at least one block, by no more    *)
(* than the sample asked for, and lies between the shortest and the longest *)
(* block time of the chain: both ends of the sample belong to the height it *)
(* was sized by.                                                            *)
AverageInRange ==
  op = "average" /\ pc = "done" /\ ~failed =>
    /\ avg.n \in 1..SampleSize
    /\ avg.span \in avg.n..(avg.n * MaxGap)
=============================================================================
