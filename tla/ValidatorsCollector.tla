------------------------ MODULE ValidatorsCollector ------------------------
(***************************************************************************)
(* ValidatorsCollector.Collect: one scrape runs SigningValidators, then, if *)
(* that succeeded, BlockProposers, whose counts it merges into the rows it  *)
(* sends, and in any case AverageBlockTime; all under one context, whose    *)
(* deadline can pass anywhere.  The three calls are the ones of the         *)
(* component modules, stepping here as the collector drives them.           *)
(***************************************************************************)
EXTENDS Integers, Sequences, FiniteSets

CONSTANTS
  Validators, ConsRank, OperRank, PageLimit,       \* see SigningValidators
  BlockWindow, SampleSize, MaxGap, MaxHeight,      \* see BlockScan
  SlashWindow,  \* the chain's signed-blocks window, a parameter of x/slashing
  Unreliable,   \* the validators that may fail to sign a block
  Restless      \* the validators that may join, leave, be jailed or tombstoned

ASSUME SlashAssumption ==
  /\ SlashWindow \in Nat \ {0}
  /\ Unreliable \subseteq Validators /\ Restless \subseteq Validators

VARIABLES
  \* SigningValidators
  staked, jailed, siginfos, tombstoned, svpc, key, page, infos, vals, result,
  svfailed, svconn, steady,
  \* BlockProposers and AverageBlockTime
  blocks, op, bspc, latest, start, height, counts, begin, avg, bsfailed, bsconn,
  skipped,
  \* the context all three run under
  expired,
  \* Collect
  phase,   \* "idle" | "signing" | "proposers" | "average"
  rows,    \* the validators whose four families were sent
  sent,    \* the average block time was sent
  \* the chain and history
  absent,  \* absent[height]: the validators that did not sign that block
  missed,  \* MissedBlocksCounter as the signing infos were read
  cut      \* a height was skipped because the deadline had passed

SV == INSTANCE SigningValidators WITH pc <- svpc, failed <- svfailed, conn <- svconn
BS == INSTANCE BlockScan WITH pc <- bspc, failed <- bsfailed, conn <- bsconn

(* What the component modules assume of their constants. *)
ASSUME CallsAssumption ==
  /\ SV!RanksAssumption /\ SV!PageAssumption
  /\ BS!WindowAssumption /\ BS!ChainAssumption

svvars  == <<staked, jailed, siginfos, tombstoned, svpc, key, page, infos, vals,
             result, svfailed, svconn, steady>>
bsvars  == <<blocks, op, bspc, latest, start, height, counts, begin, avg,
             bsfailed, bsconn, skipped>>
scrape  == <<phase, rows, sent>>
history == <<absent, missed, cut>>
vars    == <<svvars, bsvars, expired, scrape, history>>

Rows == [cons : Validators, tombstoned : BOOLEAN, jailed : BOOLEAN,
         proposed : Nat, missed : Nat]

TypeOK ==
  /\ SV!TypeOK /\ BS!TypeOK
  /\ phase \in {"idle", "signing", "proposers", "average"}
  /\ rows \subseteq Rows
  /\ sent \in BOOLEAN
  /\ absent \in Seq(SUBSET Validators) /\ Len(absent) = Len(blocks)
  /\ missed \in [Validators -> Nat]
  /\ cut \in BOOLEAN

-----------------------------------------------------------------------------
(* x/slashing counts a validator's misses over the last SlashWindow blocks. *)
MissedBlocksCounter(v) ==
  Cardinality({i \in DOMAIN absent : i > Len(absent) - SlashWindow /\ v \in absent[i]})

StakingMoves == /\ \E v \in Restless : SV!Moves(v)
                /\ UNCHANGED <<bsvars, expired, scrape, history>>

NewBlock == /\ BS!NewBlock
            /\ \E miss \in SUBSET Unreliable : absent' = Append(absent, miss)
            /\ UNCHANGED <<svvars, expired, scrape, missed, cut>>

(* The deadline of the scrape's context passes. *)
Expire == /\ phase # "idle"
          /\ SV!Expire /\ BS!Expire
          /\ UNCHANGED <<scrape, history>>

-----------------------------------------------------------------------------
(* A scrape arrives: a context with a deadline, and the first call. *)
Collect ==
  /\ phase = "idle"
  /\ SV!Start /\ BS!NewContext
  /\ phase' = "signing" /\ rows' = {} /\ sent' = FALSE /\ cut' = FALSE
  /\ UNCHANGED <<absent, missed>>

(* A signing info carries its missed blocks counter. *)
SigningStep ==
  /\ phase = "signing"
  /\ SV!Step
  /\ missed' = [v \in Validators |->
                  IF \E r \in infos' \ infos : r.cons = v
                  THEN MissedBlocksCounter(v) ELSE missed[v]]
  /\ UNCHANGED <<bsvars, scrape, absent, cut>>

(* Seeded bug: a failed SigningValidators ends the scrape. *)
ReturnOnError == phase' = "idle" /\ UNCHANGED bsvars

(* Without validators there is nothing to merge, but still an average. *)
SkipToAverage == phase' = "average" /\ BS!Call("average")

(* Seeded bug: the proposers are counted while SigningValidators still runs. *)
EagerHandOver ==
  /\ phase = "signing" /\ svpc \in {"vals", "done"}
  /\ phase' = "proposers" /\ BS!Call("proposers")
  /\ UNCHANGED <<svvars, expired, rows, sent, history>>

(* Seeded bug: the scrape goes on only after a success. *)
WaitForSuccess ==
  /\ phase = "signing" /\ svpc = "done" /\ ~svfailed
  /\ phase' = "proposers" /\ BS!Call("proposers")
  /\ UNCHANGED <<svvars, expired, rows, sent, history>>

(* Seeded bug: a failed call is resumed with what it had gathered. *)
ResumeSigning ==
  /\ phase = "signing" /\ svpc = "done"
  /\ svpc' = IF svfailed THEN "infos" ELSE "done"
  /\ IF svfailed THEN UNCHANGED <<bsvars, phase>>
     ELSE phase' = "proposers" /\ BS!Call("proposers")
  /\ UNCHANGED <<staked, jailed, siginfos, tombstoned, key, page, infos, vals,
                 result, svfailed, svconn, steady, expired, rows, sent, history>>

SigningReturns ==
  /\ phase = "signing" /\ svpc = "done"
  /\ IF svfailed THEN SkipToAverage
     ELSE phase' = "proposers" /\ BS!Call("proposers")
  /\ UNCHANGED <<svvars, expired, rows, sent, history>>

ScanStep ==
  /\ phase \in {"proposers", "average"}
  /\ BS!Step
  /\ cut' = (cut \/ (expired /\ skipped' # skipped))
  /\ UNCHANGED <<svvars, scrape, absent, missed>>

(* Seeded bug: a failed BlockProposers is reported as -1. *)
MinusOneOnError(v) == IF bsfailed THEN -1 ELSE counts[v]

(* The counts of a failed BlockProposers are replaced by an empty map. *)
Proposed(v) == IF bsfailed THEN 0 ELSE counts[v]

(* The four families are sent for the same rows, then the average is due. *)
ProposersReturn ==
  /\ phase = "proposers" /\ bspc = "done"
  /\ rows' = {[cons |-> r.cons, tombstoned |-> r.tombstoned, jailed |-> r.jailed,
               proposed |-> Proposed(r.cons), missed |-> missed[r.cons]] : r \in result}
  /\ SkipToAverage
  /\ UNCHANGED <<svvars, expired, sent, history>>

(* Seeded bug: the average is sent, as 0, also when it could not be had. *)
SendZeroOnError ==
  /\ phase = "average" /\ bspc = "done"
  /\ sent' = TRUE /\ phase' = "idle"
  /\ UNCHANGED <<svvars, bsvars, expired, rows, history>>

(* Collect returns and its deferred cancel ends the context. *)
AverageReturns ==
  /\ phase = "average" /\ bspc = "done"
  /\ sent' = ~bsfailed
  /\ phase' = "idle"
  /\ UNCHANGED <<svvars, bsvars, expired, rows, history>>

Init ==
  /\ SV!Init /\ BS!Init
  /\ phase = "idle" /\ rows = {} /\ sent = FALSE
  /\ absent = <<{}>> /\ missed = [v \in Validators |-> 0] /\ cut = FALSE

Step == SigningStep \/ SigningReturns \/ ScanStep \/ ProposersReturn \/ AverageReturns

Next == StakingMoves \/ NewBlock \/ Expire \/ Collect \/ Step

Spec == Init /\ [][Next]_vars

FairSpec == Spec /\ WF_vars(Expire) /\ WF_vars(Step)
-----------------------------------------------------------------------------
(* One scrape holds one connection at a time, and none between scrapes. *)
OneConnection ==
  /\ svconn + bsconn <= 1
  /\ phase = "idle" => svconn + bsconn = 0

(* Collect never returns without having asked for the average block time,   *)
(* also when the validators could not be read.                              *)
AverageAlwaysAsked ==
  [][phase # "idle" /\ phase' = "idle" => op = "average" /\ bspc = "done"]_vars

(* The average is a receipt for the counts: if a scrape carries it, no      *)
(* count of the same scrape was cut short by the deadline.  BlockProposers  *)
(* itself reports no error then.                                            *)
AverageCertifiesCounts == phase = "idle" /\ sent => ~cut

(* The heights BlockProposers counts when top is the latest. *)
Window(top) == BS!StartHeight(top, BlockWindow)..top

(* The rows of a scrape make no series twice and contradict themselves      *)
(* nowhere, and their counts go together: they are all 0, as after a failed *)
(* BlockProposers, or all exact for one window of heights that are on the   *)
(* chain, less those skipped; also while the average is asked for under the *)
(* same variables, and whatever the chain commits meanwhile.                *)
RowsTruthful ==
  /\ \A r, s \in rows : r.cons = s.cons => r = s
  /\ \A r \in rows : r.tombstoned => r.jailed
  /\ \/ \A r \in rows : r.proposed = 0
     \/ \E top \in DOMAIN blocks : \A r \in rows :
          r.proposed = Cardinality(BS!ProposedBy(r.cons, Window(top) \ skipped))

(* What the collector drives is SigningValidators and BlockScan: each of its *)
(* steps is a step of theirs or leaves their state alone.                   *)
ImplementsCalls == SV!Spec /\ BS!Spec

(* The collector keeps the contract Gather relies on, the deadline being    *)
(* its one unit of time: whichever of its calls hangs, a scrape returns, and *)
(* what it sends it sends once and before it returns.                       *)
Families ==
  (IF rows # {} THEN {"validators"} ELSE {}) \cup (IF sent THEN {"average"} ELSE {})

Contract == INSTANCE CollectorContract WITH
  Timeout <- 1,
  phase   <- IF phase = "idle" THEN "idle" ELSE "busy",
  now     <- IF phase # "idle" /\ expired THEN 1 ELSE 0,
  sent    <- Families

KeepsContract == Contract!FairSpec
=============================================================================
