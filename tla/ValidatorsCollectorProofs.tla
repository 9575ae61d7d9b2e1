--------------------- MODULE ValidatorsCollectorProofs ---------------------
(***************************************************************************)
(* The scrape drives SigningValidators and BlockScan as their own modules  *)
(* specify them, keeps to one connection, and sends no average beside      *)
(* counts the deadline cut short: for every value of the constants.        *)
(***************************************************************************)
EXTENDS ValidatorsCollector, FiniteSetTheorems, SequenceTheorems, TLAPS

(* The component modules with their theorems, in the collector's variables. *)
SVP == INSTANCE SigningValidatorsProofs WITH pc <- svpc, failed <- svfailed, conn <- svconn
BSP == INSTANCE BlockScanProofs WITH pc <- bspc, failed <- bsfailed, conn <- bsconn

svInUse == {"infos", "vals", "join"}
bsInUse == {"latest", "scan", "first", "last"}

(* Each call closes its own connection, and only one call is under way. *)
ConnInv ==
  /\ svconn = IF svpc \in svInUse THEN 1 ELSE 0
  /\ bsconn = IF bspc \in bsInUse THEN 1 ELSE 0
  /\ svpc \in svInUse \cup {"dial"} => phase = "signing"
  /\ bspc \in bsInUse \cup {"dial"} => phase \in {"proposers", "average"}

(* A height is lost to the deadline only while the proposers are counted,   *)
(* and nothing is fetched for the average after the deadline.               *)
CutInv ==
  /\ phase = "proposers" => op = "proposers"
  /\ phase = "average" => op = "average"
  /\ bspc = "scan" => op = "proposers"
  /\ phase # "idle" /\ cut => expired
  /\ phase = "average" /\ bspc = "done" /\ ~bsfailed => ~cut
  /\ AverageCertifiesCounts

(* Nothing is sent before the calls it depends on have returned. *)
SentInv ==
  /\ phase \in {"signing", "proposers"} => rows = {}
  /\ phase # "idle" => sent = FALSE

IInv == ConnInv /\ CutInv

-----------------------------------------------------------------------------
LEMMA InitIInv == Init => IInv
  BY DEF Init, SV!Init, BS!Init, IInv, ConnInv, CutInv, AverageCertifiesCounts,
         svInUse, bsInUse

(* The environment: the chain and the clock. *)
LEMMA EnvironmentIInv ==
  ASSUME IInv, StakingMoves \/ NewBlock \/ Expire \/ UNCHANGED vars
  PROVE  IInv'
<1> USE DEF IInv, ConnInv, CutInv, AverageCertifiesCounts, svvars, bsvars, scrape, history
<1>1. CASE StakingMoves
  <2>1. UNCHANGED <<svpc, svconn>>
    BY <1>1 DEF StakingMoves, SV!Moves, SV!Create, SV!Bond, SV!Jail, SV!Unjail,
                SV!Tombstone, SV!Remove, SV!Commit, SV!call
  <2> QED BY <1>1, <2>1 DEF StakingMoves
<1>2. CASE NewBlock
  <2>1. UNCHANGED <<op, bspc, bsfailed, bsconn, expired>>
    BY <1>2 DEF NewBlock, BS!NewBlock, BS!call
  <2> QED BY <1>2, <2>1 DEF NewBlock
<1>3. CASE Expire
  BY <1>3 DEF Expire, SV!Expire, BS!Expire, BS!call
<1>4. CASE UNCHANGED vars
  BY <1>4 DEF vars
<1> QED BY <1>1, <1>2, <1>3, <1>4

(* A scrape begins with a fresh context and nothing cut. *)
LEMMA CollectIInv == IInv /\ Collect => IInv'
  BY DEF Collect, SV!Start, BS!NewContext, BS!call, IInv, ConnInv, CutInv,
         AverageCertifiesCounts, svInUse, bsInUse

LEMMA SigningStepIInv == IInv /\ SigningStep => IInv'
<1> SUFFICES ASSUME IInv, SigningStep PROVE IInv'
  OBVIOUS
<1>1. /\ svconn' = IF svpc' \in svInUse THEN 1 ELSE 0
      /\ UNCHANGED expired
  BY DEF SigningStep, SV!Step, SV!NewClient, SV!SignigInfos, SV!ValidatorsQuery,
         SV!QueryFails, SV!Join, SV!ReturnError, SV!CloseConn, SV!Turn, SV!NextCall,
         SV!Queries, IInv, ConnInv, svInUse
<1>2. phase = "signing" /\ UNCHANGED <<bsvars, scrape, cut>>
  BY DEF SigningStep
<1> QED BY <1>1, <1>2 DEF IInv, ConnInv, CutInv, AverageCertifiesCounts, bsvars, scrape

(* The hand-over from one call to the next. *)
LEMMA ReturnsIInv ==
  ASSUME IInv, SigningReturns \/ ProposersReturn \/ AverageReturns
  PROVE  IInv'
<1> USE DEF IInv, ConnInv, CutInv, AverageCertifiesCounts, svInUse, bsInUse, svvars,
        history
<1>1. CASE SigningReturns
  <2>1. /\ phase = "signing" /\ svpc = "done" /\ bspc' = "dial"
        /\ phase' \in {"proposers", "average"} /\ op' = phase'
        /\ UNCHANGED <<svpc, svconn, bsconn, expired, cut>>
    BY <1>1 DEF SigningReturns, SkipToAverage, BS!Call
  <2> QED BY <2>1
<1>2. CASE ProposersReturn
  <2>1. /\ phase = "proposers" /\ bspc = "done" /\ bspc' = "dial"
        /\ phase' = "average" /\ op' = phase'
        /\ UNCHANGED <<svpc, svconn, bsconn, expired, cut>>
    BY <1>2 DEF ProposersReturn, SkipToAverage, BS!Call
  <2> QED BY <2>1
<1>3. CASE AverageReturns
  <2>1. /\ phase = "average" /\ bspc = "done" /\ phase' = "idle" /\ sent' = ~bsfailed
        /\ UNCHANGED <<svpc, svconn, op, bspc, bsfailed, bsconn, expired, cut>>
    BY <1>3 DEF AverageReturns, bsvars
  <2> QED BY <2>1
<1> QED BY <1>1, <1>2, <1>3

LEMMA ScanStepIInv == IInv /\ ScanStep => IInv'
<1> SUFFICES ASSUME IInv, ScanStep PROVE IInv'
  OBVIOUS
<1>1. /\ phase \in {"proposers", "average"}
      /\ UNCHANGED <<svpc, svconn, phase, sent>>
      /\ cut' = (cut \/ (expired /\ skipped' # skipped))
  BY DEF ScanStep, svvars, scrape
<1>2. /\ bsconn' = IF bspc' \in bsInUse THEN 1 ELSE 0
      /\ UNCHANGED <<op, expired>>
      /\ bspc' = "scan" => op = "proposers"
      /\ skipped' # skipped => bspc = "scan" /\ bspc' = "scan"
      /\ bspc' = "done" /\ ~bsfailed' /\ op = "average" => ~expired
  BY DEF ScanStep, BS!Step, BS!NewClient, BS!GetLatestBlock, BS!ScanBlock,
         BS!ScanReturns, BS!GetStartBlock, BS!GetEndBlock, BS!QueryFails,
         BS!CountBlock, BS!Skip, BS!ReturnError, BS!CloseConn, IInv, ConnInv, CutInv,
         bsInUse
<1>3. ConnInv'
  BY <1>1, <1>2 DEF IInv, ConnInv
<1>4. CutInv'
  BY <1>1, <1>2 DEF IInv, CutInv, AverageCertifiesCounts
<1> QED BY <1>3, <1>4 DEF IInv

LEMMA NextIInv == IInv /\ [Next]_vars => IInv'
  BY EnvironmentIInv, CollectIInv, SigningStepIInv, ReturnsIInv, ScanStepIInv
     DEF Next, Step

-----------------------------------------------------------------------------
(* The inductive invariant holds in every reachable state. *)
THEOREM Safety == Spec => []IInv
<1> QED BY InitIInv, NextIInv, PTL DEF Spec

(* Whatever fails in a scrape, it never holds two connections, and none     *)
(* outlives it.                                                             *)
THEOREM OneConnectionAtATime == Spec => []OneConnection
<1>1. IInv => OneConnection
  BY DEF IInv, ConnInv, OneConnection, svInUse, bsInUse
<1> QED BY <1>1, Safety, PTL

(* A scrape that carries the average block time has no count that the       *)
(* deadline cut short.                                                      *)
THEOREM AverageIsReceipt == Spec => []AverageCertifiesCounts
<1>1. IInv => AverageCertifiesCounts
  BY DEF IInv, CutInv
<1> QED BY <1>1, Safety, PTL

(* What has been sent, and when. *)
LEMMA SentInvariant == Spec => []SentInv
<1>1. Init => SentInv
  BY DEF Init, SentInv
<1>2. SentInv /\ [Next]_vars => SentInv'
  <2> SUFFICES ASSUME SentInv, [Next]_vars PROVE SentInv'
    OBVIOUS
  <2> USE DEF SentInv, scrape
  <2>1. CASE Collect
    BY <2>1 DEF Collect
  <2>2. CASE SigningReturns
    BY <2>2 DEF SigningReturns, SkipToAverage
  <2>3. CASE ProposersReturn
    BY <2>3 DEF ProposersReturn, SkipToAverage
  <2>4. CASE AverageReturns
    BY <2>4 DEF AverageReturns
  <2>5. CASE StakingMoves \/ NewBlock \/ Expire \/ SigningStep \/ ScanStep \/ UNCHANGED vars
    BY <2>5 DEF StakingMoves, NewBlock, Expire, SigningStep, ScanStep, vars
  <2> QED BY <2>1, <2>2, <2>3, <2>4, <2>5 DEF Next, Step
<1> QED BY <1>1, <1>2, PTL DEF Spec

(* Step by step a scrape keeps the contract of a collector: it sends each   *)
(* family once, takes nothing back, and its clock is its context's.         *)
THEOREM ContractKept == Spec => Contract!Spec
<1> USE DEF Contract!Next, Contract!Begin, Contract!Wait, Contract!Send, Contract!Return,
            Contract!vars, Families
<1>1. Init => Contract!Init
  BY DEF Init, BS!Init, Contract!Init
<1>2. SentInv /\ [Next]_vars => [Contract!Next]_(Contract!vars)
  <2> SUFFICES ASSUME SentInv, [Next]_vars PROVE [Contract!Next]_(Contract!vars)
    OBVIOUS
  <2>1. CASE Collect
    BY <2>1 DEF Collect, BS!NewContext
  <2>2. CASE Expire
    BY <2>2 DEF Expire, BS!Expire, scrape
  <2>3. CASE StakingMoves \/ NewBlock
    <3>1. UNCHANGED <<phase, rows, sent, expired>>
      BY <2>3 DEF StakingMoves, NewBlock, BS!NewBlock, scrape
    <3> QED BY <3>1
  <2>4. CASE SigningStep
    <3>1. UNCHANGED <<phase, rows, sent, expired>>
      BY <2>4 DEF SigningStep, SV!Step, SV!NewClient, SV!SignigInfos, SV!ValidatorsQuery,
                  SV!QueryFails, SV!Join, SV!ReturnError, scrape
    <3> QED BY <3>1
  <2>5. CASE ScanStep
    <3>1. UNCHANGED <<phase, rows, sent, expired>>
      BY <2>5 DEF ScanStep, BS!Step, BS!NewClient, BS!GetLatestBlock, BS!ScanBlock,
                  BS!ScanReturns, BS!GetStartBlock, BS!GetEndBlock, BS!QueryFails, scrape
    <3> QED BY <3>1
  <2>6. CASE SigningReturns
    BY <2>6 DEF SigningReturns, SkipToAverage, BS!Call
  <2>7. CASE ProposersReturn
    <3>1. /\ phase = "proposers" /\ phase' = "average" /\ rows = {}
          /\ UNCHANGED <<sent, expired>>
      BY <2>7 DEF ProposersReturn, SkipToAverage, SentInv
    <3> QED BY <3>1
  <2>8. CASE AverageReturns
    <3>1. /\ phase = "average" /\ phase' = "idle" /\ sent = FALSE
          /\ UNCHANGED <<rows, expired>>
      BY <2>8 DEF AverageReturns, SentInv
    <3> QED BY <3>1
  <2>9. CASE UNCHANGED vars
    BY <2>9 DEF vars, scrape, bsvars, svvars
  <2> QED BY <2>1, <2>2, <2>3, <2>4, <2>5, <2>6, <2>7, <2>8, <2>9 DEF Next, Step
<1> QED BY <1>1, <1>2, SentInvariant, PTL DEF Spec, Contract!Spec

(* Each step of the scrape is one of SigningValidators or leaves it alone.  *)
LEMMA SigningSteps == [Next]_vars => [SV!Next]_(SV!vars)
<1> SUFFICES ASSUME [Next]_vars PROVE [SV!Next]_(SV!vars)
  OBVIOUS
<1>1. CASE StakingMoves
  <2>1. SV!Chain
    BY <1>1, SlashAssumption DEF StakingMoves, SV!Chain
  <2> QED BY <2>1 DEF SV!Next
<1>2. CASE Expire
  BY <1>2 DEF Expire, SV!Next
<1>3. CASE Collect
  BY <1>3 DEF Collect, SV!Next
<1>4. CASE SigningStep
  BY <1>4 DEF SigningStep, SV!Next
<1>5. CASE UNCHANGED <<svvars, expired>>
  BY <1>5 DEF svvars, SV!vars, SV!chain, SV!call
<1>6. CASE NewBlock
  BY <1>5, <1>6 DEF NewBlock, BS!NewBlock
<1>7. CASE ScanStep
  <2>1. UNCHANGED expired
    BY <1>7 DEF ScanStep, BS!Step, BS!NewClient, BS!GetLatestBlock, BS!ScanBlock,
                BS!ScanReturns, BS!GetStartBlock, BS!GetEndBlock, BS!QueryFails
  <2> QED BY <1>5, <1>7, <2>1 DEF ScanStep
<1>8. CASE SigningReturns \/ ProposersReturn \/ AverageReturns \/ UNCHANGED vars
  BY <1>5, <1>8 DEF SigningReturns, ProposersReturn, AverageReturns, vars
<1> QED BY <1>1, <1>2, <1>3, <1>4, <1>6, <1>7, <1>8 DEF Next, Step

(* Each step of the scrape is one of BlockScan or leaves it alone. *)
LEMMA ScanSteps == [Next]_vars => [BS!Next]_(BS!vars)
<1> SUFFICES ASSUME [Next]_vars PROVE [BS!Next]_(BS!vars)
  OBVIOUS
<1>1. CASE NewBlock
  BY <1>1 DEF NewBlock, BS!Next
<1>2. CASE Expire
  BY <1>2 DEF Expire, BS!Next
<1>3. CASE Collect
  BY <1>3 DEF Collect, BS!Next
<1>4. CASE ScanStep
  BY <1>4 DEF ScanStep, BS!Next
<1>5. CASE UNCHANGED <<bsvars, expired>>
  BY <1>5 DEF bsvars, BS!vars, BS!call
<1>6. CASE StakingMoves
  BY <1>5, <1>6 DEF StakingMoves
<1>7. CASE SigningStep
  <2>1. UNCHANGED expired
    BY <1>7 DEF SigningStep, SV!Step, SV!NewClient, SV!SignigInfos, SV!ValidatorsQuery,
                SV!QueryFails, SV!Join, SV!ReturnError
  <2> QED BY <1>5, <1>7, <2>1 DEF SigningStep
<1>8. CASE SigningReturns \/ ProposersReturn
  BY <1>5, <1>8 DEF SigningReturns, ProposersReturn, SkipToAverage, BS!Next, BS!Calls
<1>9. CASE AverageReturns \/ UNCHANGED vars
  BY <1>5, <1>9 DEF AverageReturns, vars
<1> QED BY <1>1, <1>2, <1>3, <1>4, <1>6, <1>7, <1>8, <1>9 DEF Next, Step

(* The scrape's steps are steps of the two components, so the components'   *)
(* theorems hold of what is reported.                                       *)
THEOREM RefinesCalls == Spec => ImplementsCalls
<1>1. Init => SV!Init /\ BS!Init
  BY DEF Init
<1>2. Spec => SV!Spec
  BY <1>1, SigningSteps, PTL DEF Spec, SV!Spec
<1>3. Spec => BS!Spec
  BY <1>1, ScanSteps, PTL DEF Spec, BS!Spec
<1> QED BY <1>2, <1>3 DEF ImplementsCalls

(* The instances have cardinalities of their own, which are the same. *)
LEMMA SameCardinality ==
  ASSUME NEW S
  PROVE  /\ SVP!Cardinality(S) = SV!Cardinality(S)
         /\ BSP!Cardinality(S) = Cardinality(S) /\ BS!Cardinality(S) = Cardinality(S)
BY DEF SVP!Cardinality, SV!Cardinality, BSP!Cardinality, BS!Cardinality, Cardinality

(* SVP and BSP name the same steps as SV and BS. *)
LEMMA SameSigning ==
  /\ SV!Init => SVP!Init
  /\ [SV!Next]_(SV!vars) => [SVP!Next]_(SVP!vars)
<1>1. SV!Init => SVP!Init
  BY DEF SV!Init, SV!LegalChain, SVP!Init, SVP!LegalChain
<1>2. SV!Chain => SVP!Chain
  BY DEF SV!Chain, SV!Moves, SV!Create, SV!Bond, SV!Jail, SV!Unjail, SV!Tombstone,
         SV!Remove, SV!Commit, SV!call, SVP!Chain, SVP!Moves, SVP!Create, SVP!Bond, SVP!Jail, SVP!Unjail,
         SVP!Tombstone, SVP!Remove, SVP!Commit, SVP!call
<1>3. SV!Start => SVP!Start
  BY DEF SV!Start, SV!chain, SVP!Start, SVP!chain
<1>4. SV!NewClient => SVP!NewClient
  BY DEF SV!NewClient, SV!ReturnError, SV!NextCall, SV!chain, SVP!NewClient,
         SVP!ReturnError, SVP!NextCall, SVP!chain
<1>5. ASSUME NEW S, NEW rank, NEW k, NEW next, NEW call
      PROVE  /\ SV!PageOf(S, rank, k, next) = SVP!PageOf(S, rank, k, next)
             /\ SV!Serves(S, rank, k, next) = SVP!Serves(S, rank, k, next)
             /\ SV!Turn(call, next) = SVP!Turn(call, next)
  <2>1. SV!PageOf(S, rank, k, next) = SVP!PageOf(S, rank, k, next)
    BY DEF SV!PageOf, SVP!PageOf
  <2>2. SV!Serves(S, rank, k, next) = SVP!Serves(S, rank, k, next)
    BY <2>1, SameCardinality DEF SV!Serves, SVP!Serves
  <2>3. SV!Turn(call, next) = SVP!Turn(call, next)
    BY DEF SV!Turn, SV!LastPage, SV!NextCall, SVP!Turn, SVP!LastPage, SVP!NextCall
  <2> QED BY <2>1, <2>2, <2>3
<1>6. SV!SignigInfos \/ SV!ValidatorsQuery => SVP!SignigInfos \/ SVP!ValidatorsQuery
  BY <1>5 DEF SV!SignigInfos, SV!ValidatorsQuery, SV!chain, SVP!SignigInfos,
              SVP!ValidatorsQuery, SVP!chain
<1>7. SV!QueryFails => SVP!QueryFails
  BY DEF SV!QueryFails, SV!Queries, SV!ReturnError, SV!CloseConn, SV!chain, SVP!QueryFails,
         SVP!Queries, SVP!ReturnError, SVP!CloseConn, SVP!chain
<1>8. SV!Join => SVP!Join
  BY DEF SV!Join, SV!InValsMap, SV!ReturnError, SV!CloseConn, SV!chain, SVP!Join,
         SVP!InValsMap, SVP!ReturnError, SVP!CloseConn, SVP!chain
<1>9. SV!Expire => SVP!Expire
  BY DEF SV!Expire, SV!chain, SVP!Expire, SVP!chain
<1>10. UNCHANGED SV!vars => UNCHANGED SVP!vars
  BY DEF SV!vars, SV!chain, SV!call, SVP!vars, SVP!chain, SVP!call
<1> QED BY <1>1, <1>2, <1>3, <1>4, <1>6, <1>7, <1>8, <1>9, <1>10
           DEF SV!Next, SV!Step, SVP!Next, SVP!Step

LEMMA SameScan ==
  /\ BS!Init => BSP!Init
  /\ BS!Step => BSP!Step
  /\ [BS!Next]_(BS!vars) => [BSP!Next]_(BSP!vars)
<1>1. BS!Init => BSP!Init
  BY DEF BS!Init, BS!NoCount, BS!NoSpan, BSP!Init, BSP!NoCount, BSP!NoSpan
<1>2. BS!NewBlock => BSP!NewBlock
  BY DEF BS!NewBlock, BS!call, BSP!NewBlock, BSP!call
<1>3. BS!NewContext \/ BS!Expire => BSP!NewContext \/ BSP!Expire
  BY DEF BS!NewContext, BS!Expire, BS!call, BSP!NewContext, BSP!Expire, BSP!call
<1>4. BS!Calls => BSP!Calls
  BY DEF BS!Calls, BS!Call, BS!NoCount, BS!NoSpan, BSP!Calls, BSP!Call, BSP!NoCount, BSP!NoSpan
<1>5. BS!NewClient \/ BS!QueryFails => BSP!NewClient \/ BSP!QueryFails
  BY DEF BS!NewClient, BS!QueryFails, BS!ReturnError, BS!CloseConn, BSP!NewClient,
         BSP!QueryFails, BSP!ReturnError, BSP!CloseConn
<1>6. BS!GetLatestBlock => BSP!GetLatestBlock
  BY DEF BS!GetLatestBlock, BS!StartHeight, BSP!GetLatestBlock, BSP!StartHeight
<1>7. BS!ScanBlock => BSP!ScanBlock
  BY DEF BS!ScanBlock, BS!CountBlock, BS!Skip, BSP!ScanBlock, BSP!CountBlock, BSP!Skip
<1>8. BS!ScanReturns \/ BS!GetStartBlock => BSP!ScanReturns \/ BSP!GetStartBlock
  BY DEF BS!ScanReturns, BS!GetStartBlock, BS!CloseConn, BSP!ScanReturns,
         BSP!GetStartBlock, BSP!CloseConn
<1>9. BS!GetEndBlock => BSP!GetEndBlock
  BY DEF BS!GetEndBlock, BS!EndTime, BS!ReturnError, BS!CloseConn, BSP!GetEndBlock,
         BSP!EndTime, BSP!ReturnError, BSP!CloseConn
<1>10. UNCHANGED BS!vars => UNCHANGED BSP!vars
  BY DEF BS!vars, BS!call, BSP!vars, BSP!call
<1> QED BY <1>1, <1>2, <1>3, <1>4, <1>5, <1>6, <1>7, <1>8, <1>9, <1>10
           DEF BS!Next, BS!Step, BSP!Next, BSP!Step

(* The components' inductive invariants hold throughout every scrape. *)
LEMMA CallsSafety == Spec => [](SVP!IInv /\ BSP!IInv)
<1>1. Init => SVP!Init /\ BSP!Init
  BY SameSigning, SameScan DEF Init
<1>2. [Next]_vars => [SVP!Next]_(SVP!vars) /\ [BSP!Next]_(BSP!vars)
  BY SigningSteps, ScanSteps, SameSigning, SameScan
<1>3. Spec => SVP!Spec
  BY <1>1, <1>2, PTL DEF Spec, SVP!Spec
<1>4. Spec => BSP!Spec
  BY <1>1, <1>2, PTL DEF Spec, BSP!Spec
<1>5. SVP!Spec => []SVP!IInv
  BY SVP!Safety, CallsAssumption
<1>6. BSP!Spec => []BSP!IInv
  BY BSP!Safety, CallsAssumption
<1> QED BY <1>3, <1>4, <1>5, <1>6, PTL

(* What the components' invariants say in the collector's terms. *)
LEMMA CallsTyped == SVP!IInv /\ BSP!IInv => SV!TypeOK /\ BS!TypeOK
<1>1. SVP!IInv => SV!TypeOK
  BY DEF SVP!IInv, SVP!TypeOK, SVP!Infos, SVP!Vals, SVP!Results, SV!TypeOK, SV!Infos,
         SV!Vals, SV!Results
<1>2. BSP!IInv => BS!TypeOK
  BY DEF BSP!IInv, BSP!TypeOK, BSP!Block, BS!TypeOK, BS!Block
<1> QED BY <1>1, <1>2

-----------------------------------------------------------------------------
(* The collector's own part of TypeOK. *)
CollectorTypeOK ==
  /\ phase \in {"idle", "signing", "proposers", "average"}
  /\ rows \subseteq Rows
  /\ sent \in BOOLEAN
  /\ absent \in Seq(SUBSET Validators) /\ Len(absent) = Len(blocks)
  /\ missed \in [Validators -> Nat]
  /\ cut \in BOOLEAN

(* The chain's counter of missed blocks is a number. *)
LEMMA MissedCounterType ==
  ASSUME CollectorTypeOK, NEW v
  PROVE  MissedBlocksCounter(v) \in Nat
<1>1. Len(absent) \in Nat /\ DOMAIN absent = 1..Len(absent)
  BY LenProperties DEF CollectorTypeOK
<1>2. IsFiniteSet(DOMAIN absent)
  BY <1>1, FS_Interval
<1> QED BY <1>2, FS_Subset, FS_CardinalityType DEF MissedBlocksCounter

(* Only NewBlock makes the chain longer. *)
LEMMA BlocksUnchanged ==
  ASSUME BS!NewContext \/ BS!Expire \/ BS!Calls \/ BS!Step \/ UNCHANGED bsvars
  PROVE  UNCHANGED blocks
BY DEF BS!NewContext, BS!Expire, BS!Calls, BS!Call, BS!Step, BS!NewClient,
       BS!GetLatestBlock, BS!ScanBlock, BS!ScanReturns, BS!GetStartBlock, BS!GetEndBlock,
       BS!QueryFails, bsvars

LEMMA CollectorTypeStep ==
  ASSUME SV!TypeOK, BS!TypeOK, CollectorTypeOK, [Next]_vars
  PROVE  CollectorTypeOK'
<1> USE DEF CollectorTypeOK
<1>1. CASE StakingMoves \/ UNCHANGED vars
  BY <1>1 DEF StakingMoves, vars, bsvars, scrape, history
<1>2. CASE NewBlock
  <2>1. PICK miss \in SUBSET Unreliable : absent' = Append(absent, miss)
    BY <1>2 DEF NewBlock
  <2>2. PICK b : blocks' = Append(blocks, b) /\ b \in BS!Block
    <3>1. PICK v \in Validators, gap \in 1..MaxGap :
            blocks' = Append(blocks, [proposer |-> v, time |-> blocks[Len(blocks)].time + gap])
      BY <1>2 DEF NewBlock, BS!NewBlock
    <3>2. blocks[Len(blocks)].time + gap \in Nat
      <4>1. blocks[Len(blocks)] \in BS!Block
        BY LenProperties, ElementOfSeq DEF BS!TypeOK
      <4> QED BY <4>1, CallsAssumption DEF BS!Block
    <3> QED BY <3>1, <3>2 DEF BS!Block
  <2>3. miss \in SUBSET Validators
    BY SlashAssumption
  <2>4. absent' \in Seq(SUBSET Validators) /\ Len(absent') = Len(absent) + 1
    BY <2>1, <2>3, AppendProperties
  <2>5. Len(blocks') = Len(blocks) + 1
    BY <2>2, AppendProperties DEF BS!TypeOK
  <2>6. UNCHANGED <<phase, rows, sent, missed, cut>>
    BY <1>2 DEF NewBlock, scrape
  <2> QED BY <2>4, <2>5, <2>6
<1>3. CASE Expire \/ Collect
  BY <1>3, BlocksUnchanged DEF Expire, Collect, scrape, history
<1>4. CASE SigningStep
  BY <1>4, MissedCounterType DEF SigningStep, bsvars, scrape
<1>5. CASE SigningReturns
  BY <1>5, BlocksUnchanged DEF SigningReturns, SkipToAverage, BS!Calls, history
<1>6. CASE ScanStep
  BY <1>6, BlocksUnchanged DEF ScanStep, scrape
<1>7. CASE ProposersReturn
  <2>1. \A r \in result :
          /\ r.cons \in Validators /\ r.tombstoned \in BOOLEAN /\ r.jailed \in BOOLEAN
    BY DEF SV!TypeOK, SV!Results
  <2>2. \A v \in Validators : Proposed(v) \in Nat /\ missed[v] \in Nat
    BY DEF Proposed, BS!TypeOK
  <2>3. rows' = {[cons |-> r.cons, tombstoned |-> r.tombstoned, jailed |-> r.jailed,
                  proposed |-> Proposed(r.cons), missed |-> missed[r.cons]] : r \in result}
    BY <1>7 DEF ProposersReturn
  <2>4. rows' \subseteq Rows
    BY <2>1, <2>2, <2>3 DEF Rows
  <2> QED BY <1>7, <2>4, BlocksUnchanged DEF ProposersReturn, SkipToAverage, BS!Calls, history
<1>8. CASE AverageReturns
  BY <1>8 DEF AverageReturns, bsvars, history, BS!TypeOK
<1> QED BY <1>1, <1>2, <1>3, <1>4, <1>5, <1>6, <1>7, <1>8 DEF Next, Step

(* Type correctness of the collector, of both its calls and of the chain.   *)
THEOREM TypeCorrect == Spec => []TypeOK
<1>1. Init => CollectorTypeOK
  <2> SUFFICES ASSUME Init PROVE CollectorTypeOK
    OBVIOUS
  <2>1. absent = <<{}>> /\ missed = [v \in Validators |-> 0]
    BY DEF Init
  <2>2. PICK v : blocks = <<[proposer |-> v, time |-> 0]>>
    BY DEF Init, BS!Init
  <2>3. absent \in Seq(SUBSET Validators) /\ Len(absent) = 1 /\ Len(blocks) = 1
    BY <2>1, <2>2
  <2>4. missed \in [Validators -> Nat]
    BY <2>1
  <2>5. phase = "idle" /\ rows = {} /\ sent = FALSE /\ cut = FALSE
    BY DEF Init
  <2> QED BY <2>3, <2>4, <2>5 DEF CollectorTypeOK
<1>2. SVP!IInv /\ BSP!IInv /\ CollectorTypeOK /\ [Next]_vars => CollectorTypeOK'
  BY CallsTyped, CollectorTypeStep
<1>3. SVP!IInv /\ BSP!IInv /\ CollectorTypeOK => TypeOK
  BY CallsTyped DEF CollectorTypeOK, TypeOK
<1> QED BY <1>1, <1>2, <1>3, CallsSafety, PTL DEF Spec

-----------------------------------------------------------------------------
(* The loop's invariant as the collector meets it when BlockProposers has   *)
(* returned: exact counts of the window below the latest height it read.    *)
LEMMA CountsOfWindow ==
  ASSUME BSP!IInv, op = "proposers", bspc = "done", ~bsfailed
  PROVE  /\ latest \in DOMAIN blocks
         /\ \A v \in Validators :
              counts[v] = Cardinality(BS!ProposedBy(v, Window(latest) \ skipped))
<1>1. BSP!CountsExact
  BY BSP!ScanGivesExact, CallsAssumption DEF BSP!IInv
<1>2. latest \in DOMAIN blocks /\ start = BSP!StartHeight(latest, BlockWindow)
  BY LenProperties DEF BSP!IInv, BSP!TypeOK, BSP!ScanInv, BSP!Scanning
<1>3. start..latest = Window(latest)
  BY <1>2 DEF Window, BS!StartHeight, BSP!StartHeight
<1>4. ASSUME NEW v \in Validators
      PROVE  counts[v] = Cardinality(BS!ProposedBy(v, Window(latest) \ skipped))
  <2>1. counts[v] = BSP!Cardinality(BSP!ProposedBy(v, (start..latest) \ skipped))
    BY <1>1 DEF BSP!CountsExact
  <2>2. BSP!ProposedBy(v, (start..latest) \ skipped)
          = BS!ProposedBy(v, Window(latest) \ skipped)
    BY <1>3 DEF BSP!ProposedBy, BS!ProposedBy
  <2> QED BY <2>1, <2>2, SameCardinality
<1> QED BY <1>2, <1>4

(* The heights of a window on the chain keep their blocks. *)
LEMMA WindowStays ==
  ASSUME BS!TypeOK, NewBlock, NEW top \in DOMAIN blocks, NEW v
  PROVE  /\ top \in DOMAIN blocks'
         /\ BS!ProposedBy(v, Window(top) \ skipped)'
              = BS!ProposedBy(v, Window(top) \ skipped)
<1>1. /\ Len(blocks) \in Nat /\ DOMAIN blocks = 1..Len(blocks)
      /\ DOMAIN blocks' = 1..(Len(blocks) + 1)
      /\ \A i \in 1..Len(blocks) : blocks'[i] = blocks[i]
  <2>1. PICK b \in BS!Block : blocks' = Append(blocks, b)
    <3>1. PICK w \in Validators, gap \in 1..MaxGap :
            blocks' = Append(blocks, [proposer |-> w, time |-> blocks[Len(blocks)].time + gap])
      BY DEF NewBlock, BS!NewBlock
    <3>2. blocks[Len(blocks)] \in BS!Block
      BY LenProperties, ElementOfSeq DEF BS!TypeOK
    <3>3. blocks[Len(blocks)].time + gap \in Nat
      BY <3>2, CallsAssumption DEF BS!Block
    <3> QED BY <3>1, <3>3 DEF BS!Block
  <2>2. blocks \in Seq(BS!Block)
    BY DEF BS!TypeOK
  <2>3. Len(blocks) \in Nat /\ DOMAIN blocks = 1..Len(blocks)
    BY <2>2, LenProperties
  <2>4. blocks' \in Seq(BS!Block) /\ Len(blocks') = Len(blocks) + 1
        /\ \A i \in 1..Len(blocks) : blocks'[i] = blocks[i]
    BY <2>1, <2>2, AppendProperties
  <2>5. DOMAIN blocks' = 1..Len(blocks')
    BY <2>4, LenProperties
  <2> QED BY <2>3, <2>4, <2>5
<1>2. skipped' = skipped
  BY DEF NewBlock, BS!NewBlock
<1>3. Window(top) \subseteq 1..Len(blocks)
  BY <1>1, CallsAssumption DEF Window, BS!StartHeight, BS!WindowAssumption
<1>4. BS!ProposedBy(v, Window(top) \ skipped)' = BS!ProposedBy(v, Window(top) \ skipped)
  BY <1>1, <1>2, <1>3 DEF BS!ProposedBy, Window
<1> QED BY <1>1, <1>4

(* What the rows are made of when they are sent. *)
LEMMA ProposersReturnRows ==
  ASSUME SVP!IInv, BSP!IInv, IInv, ProposersReturn
  PROVE  RowsTruthful'
<1> DEFINE row(r) == [cons |-> r.cons, tombstoned |-> r.tombstoned, jailed |-> r.jailed,
                      proposed |-> Proposed(r.cons), missed |-> missed[r.cons]]
<1>1. rows' = {row(r) : r \in result} /\ op = "proposers" /\ bspc = "done"
  BY DEF ProposersReturn, IInv, CutInv
<1>2. UNCHANGED <<blocks, skipped>>
  BY DEF ProposersReturn, SkipToAverage, BS!Call
<1>3. \A r, s \in result : r.cons = s.cons => r = s
  BY DEF SVP!IInv, SVP!ResultInv, SVP!UniqueSeries
<1>4. \A r \in result : r.cons \in Validators /\ (r.tombstoned => r.jailed)
  BY CallsTyped DEF SV!TypeOK, SV!Results, SVP!IInv, SVP!ResultInv, SVP!TombstonedAreJailed
<1>5. \A r, s \in rows' : r.cons = s.cons => r = s
  BY <1>1, <1>3
<1>6. \A r \in rows' : r.tombstoned => r.jailed
  BY <1>1, <1>4
<1>7. CASE bsfailed
  <2>1. \A r \in rows' : r.proposed = 0
    BY <1>1, <1>7 DEF Proposed
  <2> QED BY <1>5, <1>6, <2>1 DEF RowsTruthful
<1>8. CASE ~bsfailed
  <2>1. /\ latest \in DOMAIN blocks
        /\ \A v \in Validators :
             counts[v] = Cardinality(BS!ProposedBy(v, Window(latest) \ skipped))
    BY <1>1, <1>8, CountsOfWindow
  <2>2. \A v : BS!ProposedBy(v, Window(latest) \ skipped)
                 = {i \in Window(latest) \ skipped' : blocks'[i].proposer = v}
    BY <1>2 DEF BS!ProposedBy
  <2>3. \A r \in rows' : r.cons \in Validators /\ r.proposed = counts[r.cons]
    BY <1>1, <1>4, <1>8 DEF Proposed
  <2>4. \A r \in rows' : r.proposed =
          Cardinality({i \in Window(latest) \ skipped' : blocks'[i].proposer = r.cons})
    BY <2>1, <2>2, <2>3
  <2>5. \E top \in DOMAIN blocks' : \A r \in rows' : r.proposed =
          Cardinality({i \in Window(top) \ skipped' : blocks'[i].proposer = r.cons})
    BY <1>2, <2>1, <2>4
  <2> QED BY <1>5, <1>6, <2>5 DEF RowsTruthful, BS!ProposedBy, Window
<1> QED BY <1>7, <1>8

(* The heights skipped belong to the rows until the next scrape. *)
LEMMA SkippedStays ==
  ASSUME IInv, SentInv, [Next]_vars, ~NewBlock, ~ProposersReturn
  PROVE  rows' = {} \/ UNCHANGED <<rows, blocks, skipped>>
<1> USE DEF bsvars, scrape
<1>1. CASE StakingMoves \/ Expire \/ SigningStep \/ AverageReturns \/ UNCHANGED vars
  BY <1>1 DEF StakingMoves, Expire, BS!Expire, SigningStep, AverageReturns, vars
<1>2. CASE Collect
  BY <1>2 DEF Collect
<1>3. CASE SigningReturns
  BY <1>3 DEF SigningReturns, SentInv
<1>4. CASE ScanStep
  <2>1. CASE phase = "proposers"
    BY <1>4, <2>1 DEF ScanStep, SentInv
  <2>2. CASE phase = "average"
    <3>1. bspc # "scan"
      BY <2>2 DEF IInv, CutInv
    <3>2. UNCHANGED <<blocks, skipped>>
      BY <1>4, <3>1 DEF ScanStep, BS!Step, BS!NewClient, BS!GetLatestBlock, BS!ScanBlock,
                  BS!ScanReturns, BS!GetStartBlock, BS!GetEndBlock, BS!QueryFails
    <3> QED BY <1>4, <3>2 DEF ScanStep
  <2> QED BY <1>4, <2>1, <2>2 DEF ScanStep
<1> QED BY <1>1, <1>2, <1>3, <1>4 DEF Next, Step

(* The rows of a scrape tell one story: no series twice, no tombstone out   *)
(* of jail, and counts that are all 0 or all exact for one window.          *)
THEOREM RowsTrue == Spec => []RowsTruthful
<1>1. Init => RowsTruthful
  BY DEF Init, RowsTruthful
<1>2. SVP!IInv /\ BSP!IInv /\ IInv /\ SentInv /\ RowsTruthful /\ [Next]_vars => RowsTruthful'
  <2> SUFFICES ASSUME SVP!IInv, BSP!IInv, IInv, SentInv, RowsTruthful, [Next]_vars
               PROVE  RowsTruthful'
    OBVIOUS
  <2>1. CASE NewBlock
    <3>1. rows' = rows
      BY <2>1 DEF NewBlock, scrape
    <3>2. \A v : \A top \in DOMAIN blocks :
            /\ top \in DOMAIN blocks'
            /\ BS!ProposedBy(v, Window(top) \ skipped)'
                 = BS!ProposedBy(v, Window(top) \ skipped)
      BY <2>1, CallsTyped, WindowStays
    <3>3. CASE \A r \in rows : r.proposed = 0
      BY <3>1, <3>3 DEF RowsTruthful
    <3>4. CASE \E top \in DOMAIN blocks : \A r \in rows :
                 r.proposed = Cardinality(BS!ProposedBy(r.cons, Window(top) \ skipped))
      <4>1. PICK top \in DOMAIN blocks : \A r \in rows :
              r.proposed = Cardinality(BS!ProposedBy(r.cons, Window(top) \ skipped))
        BY <3>4
      <4>2. /\ top \in DOMAIN blocks'
            /\ \A r \in rows : r.proposed =
                 Cardinality({i \in Window(top) \ skipped' : blocks'[i].proposer = r.cons})
        BY <3>2, <4>1 DEF BS!ProposedBy, Window
      <4> QED BY <3>1, <4>2 DEF RowsTruthful, BS!ProposedBy, Window
    <3> QED BY <3>3, <3>4 DEF RowsTruthful
  <2>2. CASE ProposersReturn
    BY <2>2, ProposersReturnRows
  <2>3. CASE ~NewBlock /\ ~ProposersReturn
    <3>1. rows' = {} \/ UNCHANGED <<rows, blocks, skipped>>
      BY <2>3, SkippedStays
    <3>2. CASE rows' = {}
      BY <3>2 DEF RowsTruthful
    <3>3. CASE UNCHANGED <<rows, blocks, skipped>>
      BY <3>3 DEF RowsTruthful, BS!ProposedBy
    <3> QED BY <3>1, <3>2, <3>3
  <2> QED BY <2>1, <2>2, <2>3
<1> QED BY <1>1, <1>2, CallsSafety, Safety, SentInvariant, PTL DEF Spec

(* Whatever failed before, Collect does not return without having asked for *)
(* the average block time.                                                  *)
THEOREM AverageAsked == Spec => AverageAlwaysAsked
<1>1. IInv /\ [Next]_vars =>
        [phase # "idle" /\ phase' = "idle" => op = "average" /\ bspc = "done"]_vars
  <2> SUFFICES ASSUME IInv, Next, phase # "idle", phase' = "idle"
               PROVE  op = "average" /\ bspc = "done"
    OBVIOUS
  <2>1. CASE AverageReturns
    BY <2>1 DEF AverageReturns, IInv, CutInv
  <2>2. CASE SigningReturns \/ ProposersReturn
    BY <2>2 DEF SigningReturns, ProposersReturn, SkipToAverage
  <2>3. CASE Collect
    BY <2>3 DEF Collect
  <2>4. CASE StakingMoves \/ NewBlock \/ Expire \/ SigningStep \/ ScanStep
    BY <2>4 DEF StakingMoves, NewBlock, Expire, SigningStep, ScanStep, scrape
  <2> QED BY <2>1, <2>2, <2>3, <2>4 DEF Next, Step
<1> QED BY <1>1, Safety, PTL DEF Spec, AverageAlwaysAsked

-----------------------------------------------------------------------------
(***************************************************************************)
(* How long a scrape can go on.  From the moment its deadline passes, or    *)
(* the validators have been read if that comes first, each of its steps     *)
(* uses up one of a number fixed by BLOCK_WINDOW: what is left of           *)
(* KeepsContract is that the deadline passes and a step is taken at all,    *)
(* which is fairness.                                                       *)
(***************************************************************************)

(* The deadline has passed, or no query is left whose pages have no limit.  *)
Bounded == phase # "idle" /\ (phase = "signing" => expired)

(* The same of the call under way, and the heights a scan can have. *)
CallStepsLeft == BSP!StepsLeft
MaxHeights    == BSP!MaxHeights

(* The steps a scrape can still take then: those of its calls and the       *)
(* returns of the calls.                                                    *)
StepsLeft ==
  IF phase = "average" THEN 1 + CallStepsLeft
  ELSE IF phase = "proposers" THEN MaxHeights + 6 + CallStepsLeft
  ELSE IF phase = "signing"
       THEN 2 * MaxHeights + 11
            + (IF svpc = "dial" THEN 2 ELSE IF svpc \in svInUse THEN 1 ELSE 0)
  ELSE 0

LEMMA CallSteps ==
  ASSUME BSP!IInv
  PROVE  MaxHeights \in Nat /\ CallStepsLeft \in 0 .. MaxHeights + 4
BY BSP!HeightsBounded, BSP!StepsBounded, CallsAssumption DEF CallStepsLeft, MaxHeights

LEMMA CallStepsNext == BSP!IInv' => CallStepsLeft' \in Int
<1>1. BSP!IInv => CallStepsLeft \in Int
  BY CallSteps
<1>2. (BSP!IInv => CallStepsLeft \in Int)'
  BY <1>1, PTL
<1> QED BY <1>2

LEMMA StepsBounded == BSP!IInv => StepsLeft \in 0 .. 2 * MaxHeights + 13
<1> SUFFICES ASSUME BSP!IInv PROVE StepsLeft \in 0 .. 2 * MaxHeights + 13
  OBVIOUS
<1> QED BY CallSteps DEF StepsLeft

(* A call that begins has its dial before it, one that has returned nothing. *)
LEMMA CallEnds ==
  /\ MaxHeights' = MaxHeights
  /\ bspc = "done" => CallStepsLeft = 0
  /\ bspc' = "dial" => CallStepsLeft' = MaxHeights + 4
BY DEF CallStepsLeft, MaxHeights, BSP!StepsLeft, BSP!MaxHeights

(* What a call uses up, the scrape uses up. *)
LEMMA LessAfter ==
  \A k, m, n \in Int : m < n => k + m < k + n
OBVIOUS

LEMMA StepUsesUp ==
  IInv /\ BSP!IInv /\ BSP!IInv' /\ Step /\ Bounded => StepsLeft' < StepsLeft
<1> SUFFICES ASSUME IInv, BSP!IInv, BSP!IInv', Step, Bounded PROVE StepsLeft' < StepsLeft
  OBVIOUS
<1>1. MaxHeights \in Nat /\ CallStepsLeft \in 0 .. MaxHeights + 4
  BY CallSteps
<1>2. CASE SigningStep
  <2>1. SV!QueryFails \/ SV!NewClient \/ SV!Join
    BY <1>2 DEF SigningStep, Bounded, SV!Step, SV!SignigInfos, SV!ValidatorsQuery
  <2>2. /\ phase = "signing" /\ phase' = "signing"
        /\ \/ svpc = "dial" /\ svpc' \in {"infos", "done"}
           \/ svpc \in svInUse /\ svpc' = "done"
    BY <1>2, <2>1 DEF SigningStep, scrape, SV!QueryFails, SV!NewClient, SV!Join, SV!Queries,
                      SV!ReturnError, SV!NextCall, svInUse
  <2> QED BY <2>2, <1>1, CallEnds DEF StepsLeft, svInUse
<1>3. CASE SigningReturns
  <2>1. /\ phase = "signing" /\ svpc = "done"
        /\ phase' \in {"proposers", "average"} /\ bspc' = "dial"
    BY <1>3 DEF SigningReturns, SkipToAverage, BS!Call
  <2> QED BY <2>1, <1>1, CallEnds DEF StepsLeft, svInUse
<1>4. CASE ScanStep
  <2>1. BS!Step /\ phase' = phase /\ phase \in {"proposers", "average"}
    BY <1>4 DEF ScanStep, scrape
  <2>2. CallStepsLeft' < CallStepsLeft
    BY <2>1, SameScan, BSP!StepUsesUp, CallsAssumption DEF CallStepsLeft
  <2>3. CallStepsLeft' \in Int
    BY CallStepsNext
  <2>4. CASE phase = "average"
    <3>1. StepsLeft = 1 + CallStepsLeft /\ StepsLeft' = 1 + CallStepsLeft'
      BY <2>1, <2>4 DEF StepsLeft
    <3>2. CallStepsLeft \in Int /\ 1 \in Int
      BY <1>1
    <3> QED BY <3>1, <3>2, <2>2, <2>3, LessAfter
  <2>5. CASE phase = "proposers"
    <3>1. /\ StepsLeft = MaxHeights + 6 + CallStepsLeft
          /\ StepsLeft' = MaxHeights + 6 + CallStepsLeft'
      BY <2>1, <2>5, CallEnds DEF StepsLeft
    <3>2. CallStepsLeft \in Int /\ MaxHeights + 6 \in Int
      BY <1>1
    <3> QED BY <3>1, <3>2, <2>2, <2>3, LessAfter
  <2> QED BY <2>1, <2>4, <2>5
<1>5. CASE ProposersReturn
  <2>1. phase = "proposers" /\ phase' = "average" /\ bspc = "done" /\ bspc' = "dial"
    BY <1>5 DEF ProposersReturn, SkipToAverage, BS!Call
  <2> QED BY <2>1, <1>1, CallEnds DEF StepsLeft
<1>6. CASE AverageReturns
  <2>1. phase = "average" /\ phase' = "idle"
    BY <1>6 DEF AverageReturns
  <2> QED BY <2>1, <1>1 DEF StepsLeft
<1> QED BY <1>2, <1>3, <1>4, <1>5, <1>6 DEF Step

(* A scrape that has to end does so within 2 * BLOCK_WINDOW + 15 steps,     *)
(* whatever fails, and it stays one that has to end until it has.           *)
BoundedScrape ==
  /\ [](StepsLeft \in 0 .. 2 * MaxHeights + 13)
  /\ [][Step /\ Bounded => StepsLeft' < StepsLeft]_vars
  /\ [][Bounded => Step \/ StepsLeft' = StepsLeft]_vars
  /\ [][Bounded => Bounded' \/ phase' = "idle"]_vars

(* Every scrape is bounded so: StepsLeft counts what is left of Collect.     *)
THEOREM ScrapeBounded == Spec => BoundedScrape
<1>1. IInv /\ BSP!IInv /\ BSP!IInv' /\ [Next]_vars =>
        [Step /\ Bounded => StepsLeft' < StepsLeft]_vars
  BY StepUsesUp
<1>2. [Next]_vars => [Bounded => Step \/ StepsLeft' = StepsLeft]_vars
  <2> SUFFICES ASSUME Next, Bounded, ~Step PROVE StepsLeft' = StepsLeft
    OBVIOUS
  <2>1. UNCHANGED <<phase, svpc>>
    BY DEF Next, Collect, Bounded, StakingMoves, NewBlock, Expire, scrape, svvars, SV!Moves,
           SV!Create, SV!Bond, SV!Jail, SV!Unjail, SV!Tombstone, SV!Remove, SV!Commit,
           SV!call, SV!Expire
  <2>2. UNCHANGED <<bspc, latest, height>>
    BY DEF Next, Collect, Bounded, StakingMoves, NewBlock, Expire, bsvars, BS!NewBlock,
           BS!Expire, BS!call
  <2> QED BY <2>1, <2>2 DEF StepsLeft, CallStepsLeft, MaxHeights, BSP!StepsLeft, BSP!HeightsLeft,
              BSP!MaxHeights
<1>3. [Next]_vars => [Bounded => Bounded' \/ phase' = "idle"]_vars
  <2> SUFFICES ASSUME Next, Bounded, phase' # "idle" PROVE Bounded'
    OBVIOUS
  <2>1. CASE phase' = "signing"
    BY <2>1 DEF Next, Step, Collect, Bounded, StakingMoves, NewBlock, Expire, SigningStep,
           SigningReturns, SkipToAverage, ScanStep, ProposersReturn, AverageReturns, scrape,
           svvars, SV!Moves, SV!Create, SV!Bond, SV!Jail, SV!Unjail, SV!Tombstone,
           SV!Remove, SV!Commit, SV!call, SV!Expire, SV!Step, SV!NewClient, SV!SignigInfos,
           SV!ValidatorsQuery, SV!QueryFails, SV!Join, SV!ReturnError
  <2>2. CASE phase' # "signing"
    BY <2>2 DEF Bounded
  <2> QED BY <2>1, <2>2
<1> QED BY <1>1, <1>2, <1>3, StepsBounded, CallsSafety, Safety, PTL DEF Spec, BoundedScrape
=============================================================================
