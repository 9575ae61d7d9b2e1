-------------------------- MODULE BlockScanProofs --------------------------
(***************************************************************************)
(* The safety of BlockProposers and AverageBlockTime for every window,     *)
(* every sample size, every chain and every pattern of failed fetches.     *)
(***************************************************************************)
EXTENDS BlockScan, FiniteSetTheorems, SequenceTheorems, TLAPS

(* Block times grow by at least 1 and at most MaxGap a block. *)
TimesInv ==
  \A i, j \in 1..Len(blocks) : i <= j =>
    /\ j - i <= blocks[j].time - blocks[i].time
    /\ blocks[j].time - blocks[i].time <= (j - i) * MaxGap

(* The connection is open exactly while a call uses it. *)
ConnInv == conn = IF pc \in {"latest", "scan", "first", "last"} THEN 1 ELSE 0

(* Each function keeps to its own steps. *)
OpInv == /\ pc = "scan" => op = "proposers"
         /\ pc \in {"first", "last"} => op = "average"

(* A scan starts from an empty map. *)
FreshInv ==
  op = "proposers" /\ pc \in {"dial", "latest"} => counts = NoCount /\ skipped = {}

Scanning == op = "proposers" /\ (pc = "scan" \/ (pc = "done" /\ ~failed))

Scanned == (start..(height - 1)) \ skipped

(* Where the loop stands, and what it has counted. *)
ScanInv ==
  Scanning =>
    /\ latest \in 1..Len(blocks)
    /\ start = StartHeight(latest, BlockWindow)
    /\ start >= 1 /\ height >= start
    /\ height > start => height <= latest + 1
    /\ pc = "done" => height > latest
    /\ skipped \subseteq start..(height - 1)
    /\ \A v \in Validators : counts[v] = Cardinality(ProposedBy(v, Scanned))

(* The ends of the sample are on the chain and belong to one latest height. *)
SampleInv ==
  /\ pc \in {"first", "last"} =>
       /\ latest \in 1..Len(blocks)
       /\ start \in 1..latest
       /\ latest - start <= SampleSize
  /\ pc = "last" => begin = blocks[start].time

IInv ==
  /\ TypeOK
  /\ TimesInv
  /\ ConnInv
  /\ OpInv
  /\ FreshInv
  /\ ScanInv
  /\ SampleInv
  /\ AverageInRange

-----------------------------------------------------------------------------
(* What the window's counts are made of is finite. *)
LEMMA ScannedFinite ==
  ASSUME TypeOK, NEW v \in Validators
  PROVE  IsFiniteSet(ProposedBy(v, Scanned))
<1>1. IsFiniteSet(start..(height - 1))
  BY FS_Interval DEF TypeOK
<1>2. ProposedBy(v, Scanned) \subseteq start..(height - 1)
  BY DEF ProposedBy, Scanned
<1> QED BY <1>1, <1>2, FS_Subset

(* The loop's invariant gives the exact counts once the loop has ended. *)
LEMMA ScanGivesExact == TypeOK /\ ScanInv => CountsExact
<1> SUFFICES ASSUME TypeOK, ScanInv, op = "proposers", pc = "done", ~failed,
                    NEW v \in Validators
             PROVE  counts[v] = Cardinality(ProposedBy(v, (start..latest) \ skipped))
  BY DEF CountsExact
<1>1. start..latest = start..(height - 1)
  BY DEF ScanInv, Scanning, TypeOK
<1> QED BY <1>1 DEF ScanInv, Scanning, Scanned

LEMMA InitIInv == Init => IInv
<1> SUFFICES ASSUME Init PROVE IInv
  OBVIOUS
<1> USE DEF Init
<1>1. PICK v \in Validators : blocks = <<[proposer |-> v, time |-> 0]>>
  OBVIOUS
<1>2. TypeOK
  <2>1. [proposer |-> v, time |-> 0] \in Block
    BY DEF Block
  <2>2. blocks \in Seq(Block) /\ Len(blocks) = 1
    BY <1>1, <2>1
  <2>3. counts \in [Validators -> Nat] /\ avg \in [span : Nat, n : Nat]
    BY DEF NoCount, NoSpan
  <2>4. op \in {"proposers", "average"} /\ failed \in BOOLEAN /\ expired \in BOOLEAN
    OBVIOUS
  <2>5. latest \in Nat /\ start \in Int /\ height \in Int /\ begin \in Nat /\ conn \in Nat
    OBVIOUS
  <2>6. pc = "idle" /\ skipped \subseteq Int
    OBVIOUS
  <2> HIDE DEF Init
  <2> QED BY <2>2, <2>3, <2>4, <2>5, <2>6 DEF TypeOK
<1>3. TimesInv
  BY <1>1, ChainAssumption DEF TimesInv
<1>4. ConnInv /\ OpInv /\ FreshInv /\ ScanInv /\ SampleInv /\ AverageInRange
  BY DEF ConnInv, OpInv, FreshInv, ScanInv, Scanning, SampleInv, AverageInRange
<1> QED BY <1>2, <1>3, <1>4 DEF IInv

LEMMA OneMoreBlock ==
  ASSUME NEW k \in Int, NEW G \in Int
  PROVE  (k + 1) * G = k * G + G
  OBVIOUS

(* One more block adds one gap to both bounds. *)
LEMMA GapStep ==
  ASSUME NEW k \in Int, NEW d \in Int, NEW top \in Int, NEW g \in Int, NEW G \in Int,
         k <= d, d <= top, 1 <= g, g <= G
  PROVE  k + 1 <= d + g /\ d + g <= top + G
  OBVIOUS

(* A committed block moves no block below it. *)
LEMMA NewBlockIInv == IInv /\ NewBlock => IInv'
<1> SUFFICES ASSUME IInv, NEW v \in Validators, NEW gap \in 1..MaxGap,
                    blocks' = Append(blocks, [proposer |-> v,
                                              time |-> blocks[Len(blocks)].time + gap]),
                    UNCHANGED <<call, conn, expired, skipped>>
             PROVE  IInv'
  BY DEF NewBlock
<1> DEFINE N == Len(blocks)
           new == [proposer |-> v, time |-> blocks[N].time + gap]
<1> USE DEF call
<1>1. /\ N \in Nat /\ N > 0
      /\ \A i \in 1..N : blocks[i] \in Block /\ blocks[i].time \in Nat
      /\ MaxGap \in Nat /\ gap \in Nat /\ 1 <= gap /\ gap <= MaxGap
  <2>1. blocks \in Seq(Block) /\ N > 0
    BY DEF IInv, TypeOK
  <2>2. \A i \in 1..N : blocks[i] \in Block
    BY <2>1, ElementOfSeq
  <2>3. \A b \in Block : b.time \in Nat
    BY DEF Block
  <2>4. N \in Nat
    BY <2>1, LenProperties
  <2> QED BY <2>1, <2>2, <2>3, <2>4, ChainAssumption
<1>2. new \in Block
  BY <1>1 DEF Block
<1>3. /\ blocks' \in Seq(Block)
      /\ Len(blocks') = N + 1
      /\ \A i \in 1..N : blocks'[i] = blocks[i]
      /\ blocks'[N + 1] = new
  BY <1>2, AppendProperties DEF IInv, TypeOK
<1>4. TypeOK'
  BY <1>1, <1>3 DEF IInv, TypeOK
<1>5. TimesInv'
  <2> SUFFICES ASSUME NEW i \in 1..(N + 1), NEW j \in 1..(N + 1), i <= j
               PROVE  /\ j - i <= blocks'[j].time - blocks'[i].time
                      /\ blocks'[j].time - blocks'[i].time <= (j - i) * MaxGap
    BY <1>3 DEF TimesInv
  <2>1. CASE j <= N
    <3>1. i \in 1..N /\ j \in 1..N
      BY <1>1, <2>1
    <3>2. /\ j - i <= blocks[j].time - blocks[i].time
          /\ blocks[j].time - blocks[i].time <= (j - i) * MaxGap
      BY <3>1 DEF IInv, TimesInv
    <3>3. blocks'[j] = blocks[j] /\ blocks'[i] = blocks[i]
      BY <1>3, <3>1
    <3> QED BY <3>2, <3>3
  <2>2. CASE j = N + 1 /\ i = N + 1
    <3>1. (j - i) * MaxGap = 0 /\ j - i = 0
      BY <1>1, <2>2
    <3>2. blocks'[j].time - blocks'[i].time = 0
      BY <1>1, <1>3, <2>2
    <3> QED BY <3>1, <3>2
  <2>3. CASE j = N + 1 /\ i <= N
    <3>1. i \in 1..N /\ N \in 1..N
      BY <1>1, <2>3
    <3>2. /\ N - i <= blocks[N].time - blocks[i].time
          /\ blocks[N].time - blocks[i].time <= (N - i) * MaxGap
      BY <3>1 DEF IInv, TimesInv
    <3>3. blocks'[j].time = blocks[N].time + gap /\ blocks'[i].time = blocks[i].time
      BY <1>3, <2>3, <3>1
    <3>4. (j - i) * MaxGap = (N - i) * MaxGap + MaxGap /\ j - i = (N - i) + 1
      <4>1. j - i = (N - i) + 1 /\ N - i \in Int /\ MaxGap \in Int
        BY <1>1, <2>3
      <4> QED BY <4>1, OneMoreBlock
    <3>5. /\ (N - i) * MaxGap \in Int /\ N - i \in Int
          /\ blocks[N].time \in Int /\ blocks[i].time \in Int
      BY <1>1, <3>1
    <3>6. blocks'[j].time - blocks'[i].time = (blocks[N].time - blocks[i].time) + gap
      BY <1>1, <3>3, <3>5
    <3>7. gap \in Int /\ MaxGap \in Int
      BY <1>1
    <3>8. /\ (N - i) + 1 <= (blocks[N].time - blocks[i].time) + gap
          /\ (blocks[N].time - blocks[i].time) + gap <= (N - i) * MaxGap + MaxGap
      <4> DEFINE k == N - i
                 d == blocks[N].time - blocks[i].time
                 top == (N - i) * MaxGap
      <4>1. k \in Int /\ d \in Int /\ top \in Int /\ k <= d /\ d <= top
        BY <3>2, <3>5
      <4> HIDE DEF k, d, top
      <4>2. k + 1 <= d + gap /\ d + gap <= top + MaxGap
        BY <1>1, <3>7, <4>1, GapStep
      <4> QED BY <4>2 DEF k, d, top
    <3> QED BY <3>4, <3>6, <3>8
  <2> QED BY <1>1, <2>1, <2>2, <2>3
<1>6. ScanInv'
  <2>1. SUFFICES ASSUME Scanning PROVE ScanInv'
    BY DEF ScanInv, Scanning
  <2>2. Scanned \subseteq 1..N
    BY <1>1, <2>1 DEF IInv, ScanInv, Scanned, TypeOK
  <2>3. \A w \in Validators : ProposedBy(w, Scanned)' = ProposedBy(w, Scanned)
    BY <1>3, <2>2 DEF ProposedBy, Scanned
  <2>4. latest \in 1..Len(blocks')
    BY <1>1, <1>3, <2>1 DEF IInv, ScanInv
  <2> QED BY <2>1, <2>3, <2>4 DEF IInv, ScanInv, Scanning
<1>7. SampleInv'
  BY <1>1, <1>3 DEF IInv, SampleInv
<1>8. ConnInv' /\ OpInv' /\ FreshInv' /\ AverageInRange'
  BY DEF IInv, ConnInv, OpInv, FreshInv, AverageInRange
<1> QED BY <1>4, <1>5, <1>6, <1>7, <1>8 DEF IInv

-----------------------------------------------------------------------------
(* The steps that leave the chain and the counts alone. *)
LEMMA QuietIInv ==
  ASSUME IInv, NewContext \/ Expire \/ UNCHANGED vars
  PROVE  IInv'
<1> USE DEF NewContext, Expire, vars, call, IInv
<1>1. TypeOK' /\ TimesInv' /\ ConnInv' /\ OpInv' /\ FreshInv' /\ SampleInv' /\ AverageInRange'
  BY DEF TypeOK, TimesInv, ConnInv, OpInv, FreshInv, SampleInv, AverageInRange
<1>2. ScanInv'
  BY DEF ScanInv, Scanning, Scanned, ProposedBy
<1> QED BY <1>1, <1>2

LEMMA CallIInv == ASSUME IInv, NEW o \in {"proposers", "average"}, Call(o) PROVE IInv'
<1> USE DEF Call, IInv
<1>1. TypeOK'
  <2>1. NoCount \in [Validators -> Nat] /\ NoSpan \in [span : Nat, n : Nat]
    BY DEF NoCount, NoSpan
  <2>2. CASE o = "proposers"
    BY <2>1, <2>2 DEF TypeOK
  <2>3. CASE o = "average"
    BY <2>1, <2>3 DEF TypeOK
  <2> QED BY <2>2, <2>3
<1>2. TimesInv' /\ ConnInv' /\ OpInv' /\ FreshInv' /\ SampleInv' /\ AverageInRange'
  BY DEF TimesInv, ConnInv, OpInv, FreshInv, SampleInv, AverageInRange
<1>3. ScanInv'
  BY DEF ScanInv, Scanning
<1> QED BY <1>1, <1>2, <1>3

(* A call that ends with an error promises nothing. *)
LEMMA ErrorIInv ==
  ASSUME IInv, ReturnError, UNCHANGED <<blocks, expired, skipped>>, conn' = 0
  PROVE  IInv'
<1> USE DEF ReturnError, IInv
<1>1. TypeOK'
  BY DEF TypeOK
<1>2. TimesInv' /\ ConnInv' /\ OpInv' /\ FreshInv' /\ SampleInv' /\ AverageInRange'
  BY DEF TimesInv, ConnInv, OpInv, FreshInv, SampleInv, AverageInRange
<1>3. ScanInv'
  BY DEF ScanInv, Scanning
<1> QED BY <1>1, <1>2, <1>3

LEMMA NewClientIInv == IInv /\ NewClient => IInv'
<1> SUFFICES ASSUME IInv, NewClient PROVE IInv'
  OBVIOUS
<1>1. conn = 0 /\ pc = "dial"
  BY DEF NewClient, IInv, ConnInv
<1>2. CASE ReturnError /\ UNCHANGED conn
  BY <1>1, <1>2, ErrorIInv DEF NewClient
<1>3. CASE /\ pc' = "latest" /\ conn' = conn + 1
           /\ UNCHANGED <<op, latest, start, height, counts, begin, avg, failed>>
  <2> USE <1>1, <1>3 DEF NewClient, IInv
  <2>1. TypeOK'
    BY DEF TypeOK
  <2>2. TimesInv' /\ ConnInv' /\ OpInv' /\ FreshInv' /\ SampleInv' /\ AverageInRange'
    BY DEF TimesInv, ConnInv, OpInv, FreshInv, SampleInv, AverageInRange
  <2>3. ScanInv'
    BY DEF ScanInv, Scanning
  <2> QED BY <2>1, <2>2, <2>3
<1> QED BY <1>2, <1>3 DEF NewClient

LEMMA QueryFailsIInv == IInv /\ QueryFails => IInv'
  BY ErrorIInv DEF QueryFails, CloseConn, IInv, ConnInv

(* The window, or the sample, is fixed by the height read here. *)
LEMMA GetLatestBlockIInv == IInv /\ GetLatestBlock => IInv'
<1> SUFFICES ASSUME IInv, GetLatestBlock PROVE IInv'
  OBVIOUS
<1> DEFINE n == IF op = "proposers" THEN BlockWindow ELSE SampleSize
<1>1. Len(blocks) \in Nat /\ Len(blocks) > 0
  BY LenProperties DEF IInv, TypeOK
<1>2. /\ latest' = Len(blocks) /\ n \in Int
      /\ start' = IF latest' - n > 1 THEN latest' - n ELSE 1
      /\ height' = start' /\ pc' = IF op = "proposers" THEN "scan" ELSE "first"
      /\ UNCHANGED <<blocks, op, counts, begin, avg, failed, conn, expired, skipped>>
  BY WindowAssumption DEF GetLatestBlock, StartHeight
<1>3. start' \in Int /\ start' >= 1 /\ latest' \in 1..Len(blocks)
  BY <1>1, <1>2
<1>4. TypeOK'
  BY <1>1, <1>2, <1>3 DEF IInv, TypeOK
<1>5. ScanInv'
  <2> SUFFICES ASSUME op = "proposers" PROVE ScanInv'
    BY <1>2 DEF ScanInv, Scanning
  <2>1. skipped = {} /\ counts = NoCount
    BY DEF IInv, FreshInv, GetLatestBlock
  <2>2. Scanned' = {} /\ \A v \in Validators : ProposedBy(v, Scanned)' = {}
    BY <1>2, <1>3 DEF Scanned, ProposedBy
  <2>3. \A v \in Validators : counts'[v] = 0
    BY <1>2, <2>1 DEF NoCount
  <2>4. \A v \in Validators : counts'[v] = Cardinality(ProposedBy(v, Scanned)')
    BY <2>2, <2>3, FS_EmptySet
  <2>5. start' = StartHeight(latest', BlockWindow)
    BY <1>2 DEF StartHeight
  <2> QED BY <1>2, <1>3, <2>1, <2>4, <2>5 DEF ScanInv
<1>6. SampleInv'
  <2> SUFFICES ASSUME op = "average" PROVE SampleInv'
    BY <1>2 DEF SampleInv, IInv, TypeOK
  <2>1. start' \in 1..latest' /\ latest' - start' <= SampleSize
    BY <1>1, <1>2, <1>3, WindowAssumption
  <2> QED BY <1>2, <1>3, <2>1 DEF SampleInv
<1>7. TimesInv' /\ ConnInv' /\ OpInv' /\ FreshInv' /\ AverageInRange'
  BY <1>2 DEF GetLatestBlock, IInv, TypeOK, TimesInv, ConnInv, OpInv, FreshInv, AverageInRange
<1> QED BY <1>4, <1>5, <1>6, <1>7 DEF IInv

(* One iteration counts the height it passes, for its proposer alone, or    *)
(* records that it skipped it.                                              *)
LEMMA ScanBlockIInv == IInv /\ ScanBlock => IInv'
<1> SUFFICES ASSUME IInv, ScanBlock PROVE IInv'
  OBVIOUS
<1> USE DEF ScanBlock
<1>1. /\ op = "proposers" /\ Scanning /\ ScanInv /\ Scanning'
      /\ latest \in 1..Len(blocks) /\ start >= 1 /\ height >= start /\ height <= latest
      /\ height \in Int /\ start \in Int /\ latest \in Int
      /\ skipped \subseteq start..(height - 1)
  <2>1. op = "proposers" /\ ScanInv /\ height <= latest
    BY DEF IInv, OpInv
  <2>2. Scanning /\ Scanning'
    BY <2>1 DEF Scanning
  <2>3. height \in Int /\ start \in Int /\ latest \in Int
    BY DEF IInv, TypeOK
  <2> QED BY <2>1, <2>2, <2>3 DEF ScanInv
<1>2. height \in 1..Len(blocks) /\ blocks[height].proposer \in Validators
  <2>1. height \in 1..Len(blocks)
    BY <1>1
  <2>2. blocks[height] \in Block
    BY <2>1, ElementOfSeq DEF IInv, TypeOK
  <2> QED BY <2>1, <2>2 DEF Block
<1>3. height' - 1 = height /\ start..height = (start..(height - 1)) \cup {height}
  BY <1>1
<1>4. TypeOK'
  <2>1. counts' \in [Validators -> Nat]
    <3>1. CASE UNCHANGED counts
      BY <3>1 DEF IInv, TypeOK
    <3>2. CASE CountBlock
      BY <1>2, <3>2 DEF CountBlock, IInv, TypeOK
    <3> QED BY <3>1, <3>2 DEF Skip
  <2>2. skipped' \subseteq Int
    BY <1>1 DEF CountBlock, Skip, IInv, TypeOK
  <2>3. height' \in Int
    BY <1>1
  <2> QED BY <2>1, <2>2, <2>3 DEF IInv, TypeOK
<1>5. \A v \in Validators : counts'[v] = Cardinality(ProposedBy(v, Scanned)')
  <2> SUFFICES ASSUME NEW v \in Validators
               PROVE  counts'[v] = Cardinality(ProposedBy(v, Scanned)')
    OBVIOUS
  <2>1. counts[v] = Cardinality(ProposedBy(v, Scanned)) /\ counts[v] \in Nat
    BY <1>1 DEF ScanInv, IInv, TypeOK
  <2>2. CASE Skip
    <3>1. Scanned' = Scanned
      BY <1>1, <1>3, <2>2 DEF Skip, Scanned
    <3>2. ProposedBy(v, Scanned)' = ProposedBy(v, Scanned)
      BY <3>1 DEF ProposedBy
    <3> QED BY <2>1, <2>2, <3>2 DEF Skip
  <2>3. CASE CountBlock
    <3>1. Scanned' = Scanned \cup {height} /\ height \notin Scanned
      BY <1>1, <1>3, <2>3 DEF CountBlock, Scanned
    <3>2. CASE blocks[height].proposer = v
      <4>1. /\ ProposedBy(v, Scanned)' = ProposedBy(v, Scanned) \cup {height}
            /\ height \notin ProposedBy(v, Scanned)
        BY <3>1, <3>2 DEF ProposedBy
      <4>2. Cardinality(ProposedBy(v, Scanned)') = Cardinality(ProposedBy(v, Scanned)) + 1
        BY <4>1, ScannedFinite, FS_AddElement DEF IInv
      <4>3. counts'[v] = counts[v] + 1
        BY <2>3, <3>2 DEF CountBlock, IInv, TypeOK
      <4> QED BY <2>1, <4>2, <4>3
    <3>3. CASE blocks[height].proposer # v
      <4>1. ProposedBy(v, Scanned)' = ProposedBy(v, Scanned)
        BY <3>1, <3>3 DEF ProposedBy
      <4>2. counts'[v] = counts[v]
        BY <2>3, <3>3 DEF CountBlock, IInv, TypeOK
      <4> QED BY <2>1, <4>1, <4>2
    <3> QED BY <3>2, <3>3
  <2> QED BY <2>2, <2>3
<1>6. ScanInv'
  <2>1. skipped' \subseteq start'..(height' - 1)
    BY <1>1, <1>3 DEF CountBlock, Skip
  <2>2. height' >= start' /\ height' <= latest' + 1
    BY <1>1
  <2> QED BY <1>1, <1>5, <2>1, <2>2 DEF ScanInv
<1>7. TimesInv' /\ ConnInv' /\ OpInv' /\ FreshInv' /\ SampleInv' /\ AverageInRange'
  BY DEF IInv, TimesInv, ConnInv, OpInv, FreshInv, SampleInv, AverageInRange
<1> QED BY <1>4, <1>6, <1>7 DEF IInv

LEMMA ScanReturnsIInv == IInv /\ ScanReturns => IInv'
<1> SUFFICES ASSUME IInv, ScanReturns PROVE IInv'
  OBVIOUS
<1> USE DEF ScanReturns, CloseConn, IInv
<1>1. op = "proposers" /\ conn = 1
  BY DEF OpInv, ConnInv
<1>2. TypeOK'
  BY <1>1 DEF TypeOK
<1>3. ScanInv'
  BY <1>1 DEF ScanInv, Scanning, Scanned, ProposedBy
<1>4. TimesInv' /\ ConnInv' /\ OpInv' /\ FreshInv' /\ SampleInv' /\ AverageInRange'
  BY <1>1 DEF TimesInv, ConnInv, OpInv, FreshInv, SampleInv, AverageInRange
<1> QED BY <1>2, <1>3, <1>4

LEMMA GetStartBlockIInv == IInv /\ GetStartBlock => IInv'
<1> SUFFICES ASSUME IInv, GetStartBlock PROVE IInv'
  OBVIOUS
<1> USE DEF GetStartBlock, IInv
<1>1. op = "average" /\ latest \in 1..Len(blocks) /\ start \in 1..latest
  BY DEF OpInv, SampleInv
<1>2. blocks[start].time \in Nat
  <2>1. start \in 1..Len(blocks)
    BY <1>1, LenProperties DEF TypeOK
  <2>2. blocks[start] \in Block
    BY <2>1, ElementOfSeq DEF TypeOK
  <2> QED BY <2>2 DEF Block
<1>3. TypeOK'
  BY <1>2 DEF TypeOK
<1>4. ScanInv'
  BY <1>1 DEF ScanInv, Scanning
<1>5. TimesInv' /\ ConnInv' /\ OpInv' /\ FreshInv' /\ SampleInv' /\ AverageInRange'
  BY <1>1 DEF TimesInv, ConnInv, OpInv, FreshInv, SampleInv, AverageInRange
<1> QED BY <1>3, <1>4, <1>5

(* Both ends of the sample are on the chain, so their times differ by       *)
(* between one and MaxGap units a block.                                    *)
LEMMA GetEndBlockIInv == IInv /\ GetEndBlock => IInv'
<1> SUFFICES ASSUME IInv, GetEndBlock PROVE IInv'
  OBVIOUS
<1>1. /\ op = "average" /\ conn = 1 /\ conn' = 0
      /\ latest \in 1..Len(blocks) /\ start \in 1..latest
      /\ latest - start <= SampleSize /\ begin = blocks[start].time
      /\ UNCHANGED <<blocks, expired, skipped>>
  BY DEF GetEndBlock, CloseConn, IInv, OpInv, ConnInv, SampleInv
<1>2. CASE latest = start
  BY <1>1, <1>2, ErrorIInv DEF GetEndBlock
<1>3. CASE latest # start
  <2> DEFINE n == latest - start
             span == blocks[latest].time - begin
  <2>1. /\ avg' = [span |-> span, n |-> n] /\ pc' = "done"
        /\ UNCHANGED <<op, latest, start, height, counts, begin, failed>>
    BY <1>3 DEF GetEndBlock, EndTime
  <2>2. n \in 1..SampleSize /\ n \in Nat
    BY <1>1, <1>3, LenProperties, WindowAssumption DEF IInv, TypeOK
  <2>3. start \in 1..Len(blocks) /\ start <= latest
    BY <1>1, LenProperties DEF IInv, TypeOK
  <2>4. n <= span /\ span <= n * MaxGap
    BY <1>1, <2>3 DEF IInv, TimesInv
  <2>5. blocks[latest].time \in Nat /\ begin \in Nat
    <3>1. blocks[latest] \in Block
      BY <1>1, ElementOfSeq DEF IInv, TypeOK
    <3> QED BY <3>1 DEF Block, IInv, TypeOK
  <2>6. n * MaxGap \in Int
    BY <2>2, ChainAssumption
  <2>7. span \in Nat /\ span \in n..(n * MaxGap)
    BY <2>2, <2>4, <2>5, <2>6
  <2> HIDE DEF n, span
  <2>8. avg' \in [span : Nat, n : Nat] /\ avg'.n = n /\ avg'.span = span
    BY <2>1, <2>2, <2>7
  <2>9. TypeOK'
    BY <1>1, <2>1, <2>8 DEF IInv, TypeOK
  <2>10. AverageInRange'
    BY <2>2, <2>7, <2>8 DEF AverageInRange
  <2>11. ScanInv'
    BY <1>1, <2>1 DEF ScanInv, Scanning
  <2>12. TimesInv' /\ ConnInv' /\ OpInv' /\ FreshInv' /\ SampleInv'
    BY <1>1, <2>1 DEF IInv, TimesInv, ConnInv, OpInv, FreshInv, SampleInv
  <2> QED BY <2>9, <2>10, <2>11, <2>12 DEF IInv
<1> QED BY <1>2, <1>3

LEMMA NextIInv == IInv /\ [Next]_vars => IInv'
<1> SUFFICES ASSUME IInv, [Next]_vars PROVE IInv'
  OBVIOUS
<1>1. CASE NewBlock
  BY <1>1, NewBlockIInv
<1>2. CASE NewContext \/ Expire \/ UNCHANGED vars
  BY <1>2, QuietIInv
<1>3. CASE Calls
  BY <1>3, CallIInv DEF Calls
<1>4. CASE NewClient
  BY <1>4, NewClientIInv
<1>5. CASE GetLatestBlock
  BY <1>5, GetLatestBlockIInv
<1>6. CASE ScanBlock
  BY <1>6, ScanBlockIInv
<1>7. CASE ScanReturns
  BY <1>7, ScanReturnsIInv
<1>8. CASE GetStartBlock
  BY <1>8, GetStartBlockIInv
<1>9. CASE GetEndBlock
  BY <1>9, GetEndBlockIInv
<1>10. CASE QueryFails
  BY <1>10, QueryFailsIInv
<1> QED BY <1>1, <1>2, <1>3, <1>4, <1>5, <1>6, <1>7, <1>8, <1>9, <1>10 DEF Next, Step

-----------------------------------------------------------------------------
(* The inductive invariant holds in every reachable state. *)
THEOREM Safety == Spec => []IInv
<1> QED BY InitIInv, NextIInv, PTL DEF Spec

(* Type correctness of the chain and of the two calls. *)
THEOREM TypeCorrect == Spec => []TypeOK
<1>1. IInv => TypeOK
  BY DEF IInv
<1> QED BY <1>1, Safety, PTL

(* BlockProposers returns the exact number of blocks of each proposer in    *)
(* its window, less those at unreadable heights, for every window and       *)
(* however the chain grows during the scan.                                 *)
THEOREM ExactCounts == Spec => []CountsExact
<1>1. IInv => CountsExact
  BY ScanGivesExact DEF IInv
<1> QED BY <1>1, Safety, PTL

(* AverageBlockTime never divides by zero, and its result is a possible     *)
(* block time of the chain.                                                 *)
THEOREM AverageCorrect == Spec => []AverageInRange
<1>1. IInv => AverageInRange
  BY DEF IInv
<1> QED BY <1>1, Safety, PTL

-----------------------------------------------------------------------------
(***************************************************************************)
(* How long a call can go on.  Each of its steps uses up one of a number    *)
(* fixed by the window: a scan whose heights all fail still moves on, and   *)
(* the blocks committed meanwhile make it no longer.                        *)
(***************************************************************************)

(* The heights a scan can have: none for a negative window. *)
MaxHeights == IF BlockWindow >= 0 THEN BlockWindow + 1 ELSE 0

(* The heights still to be scanned. *)
HeightsLeft == IF height <= latest THEN latest + 1 - height ELSE 0

(* The steps a call can still take. *)
StepsLeft ==
  IF pc = "dial" THEN MaxHeights + 4
  ELSE IF pc = "latest" THEN MaxHeights + 3
  ELSE IF pc = "scan" THEN HeightsLeft + 1
  ELSE IF pc = "first" THEN 2
  ELSE IF pc = "last" THEN 1 ELSE 0

LEMMA HeightsBounded ==
  /\ MaxHeights \in Nat
  /\ IInv => HeightsLeft \in Nat /\ (pc = "scan" => HeightsLeft <= MaxHeights)
<1>1. MaxHeights \in Nat
  BY WindowAssumption DEF MaxHeights
<1>2. ASSUME IInv PROVE HeightsLeft \in Nat
  <2>1. height \in Int /\ latest \in Nat
    BY <1>2 DEF IInv, TypeOK
  <2> QED BY <2>1 DEF HeightsLeft
<1>3. ASSUME IInv, pc = "scan" PROVE HeightsLeft <= MaxHeights
  <2>1. height \in Int /\ latest \in Nat /\ start \in Int /\ BlockWindow \in Int
    BY <1>3, WindowAssumption DEF IInv, TypeOK
  <2>2. latest >= 1 /\ start = StartHeight(latest, BlockWindow) /\ height >= start
    BY <1>3, LenProperties DEF IInv, TypeOK, OpInv, ScanInv, Scanning
  <2>3. start >= latest - BlockWindow
    BY <2>1, <2>2 DEF StartHeight
  <2> QED BY <2>1, <2>2, <2>3 DEF HeightsLeft, MaxHeights
<1> QED BY <1>1, <1>2, <1>3

(* The same of the next state. *)
LEMMA HeightsBoundedNext ==
  IInv' => HeightsLeft' \in Nat /\ (pc' = "scan" => HeightsLeft' <= MaxHeights)
<1>1. IInv => HeightsLeft \in Nat /\ (pc = "scan" => HeightsLeft <= MaxHeights)
  BY HeightsBounded
<1>2. (IInv => HeightsLeft \in Nat /\ (pc = "scan" => HeightsLeft <= MaxHeights))'
  BY <1>1, PTL
<1> QED BY <1>2 DEF MaxHeights

LEMMA StepsBounded == IInv => StepsLeft \in 0 .. MaxHeights + 4
<1> SUFFICES ASSUME IInv PROVE StepsLeft \in 0 .. MaxHeights + 4
  OBVIOUS
<1>1. MaxHeights \in Nat /\ HeightsLeft \in Nat /\ (pc = "scan" => HeightsLeft <= MaxHeights)
  BY HeightsBounded
<1> QED BY <1>1 DEF StepsLeft

LEMMA StepUsesUp == IInv /\ IInv' /\ Step => StepsLeft' < StepsLeft
<1> SUFFICES ASSUME IInv, IInv', Step PROVE StepsLeft' < StepsLeft
  OBVIOUS
<1>1. MaxHeights \in Nat /\ MaxHeights' = MaxHeights
  BY HeightsBounded DEF MaxHeights
<1>2. HeightsLeft \in Nat /\ height \in Int /\ latest \in Nat
  BY HeightsBounded DEF IInv, TypeOK
<1>3. HeightsLeft' \in Nat /\ (pc' = "scan" => HeightsLeft' <= MaxHeights)
  BY HeightsBoundedNext
<1>4. CASE NewClient \/ QueryFails
  BY <1>1, <1>4 DEF NewClient, QueryFails, ReturnError, StepsLeft
<1>5. CASE GetLatestBlock
  <2>1. pc = "latest" /\ (pc' = "scan" \/ pc' = "first")
    BY <1>5 DEF GetLatestBlock
  <2>2. StepsLeft = MaxHeights + 3
    BY <2>1 DEF StepsLeft
  <2>3. pc' = "scan" => StepsLeft' = HeightsLeft' + 1
    BY DEF StepsLeft
  <2>4. pc' = "first" => StepsLeft' = 2
    BY DEF StepsLeft
  <2> QED BY <2>1, <2>2, <2>3, <2>4, <1>1, <1>3
<1>6. CASE ScanBlock
  BY <1>2, <1>6 DEF ScanBlock, HeightsLeft, StepsLeft
<1>7. CASE ScanReturns
  BY <1>2, <1>7 DEF ScanReturns, StepsLeft
<1>8. CASE GetStartBlock \/ GetEndBlock
  BY <1>8 DEF GetStartBlock, GetEndBlock, ReturnError, StepsLeft
<1> QED BY <1>4, <1>5, <1>6, <1>7, <1>8 DEF Step

(* A call takes at most five steps more than BLOCK_WINDOW says, whether all  *)
(* its fetches succeed or fail, and however fast the chain grows.           *)
BoundedCall ==
  /\ [](StepsLeft \in 0 .. MaxHeights + 4)
  /\ [][Step => StepsLeft' < StepsLeft]_vars
  /\ [][pc \notin {"idle", "done"} => Step \/ StepsLeft' = StepsLeft]_vars

(* Every call is bounded so: StepsLeft counts what is left of its loop.      *)
THEOREM CallBounded == Spec => BoundedCall
<1>1. IInv /\ IInv' /\ [Next]_vars => [Step => StepsLeft' < StepsLeft]_vars
  BY StepUsesUp
<1>2. IInv /\ [Next]_vars =>
        [pc \notin {"idle", "done"} => Step \/ StepsLeft' = StepsLeft]_vars
  <2> SUFFICES ASSUME Next, pc \notin {"idle", "done"}, ~Step
               PROVE  StepsLeft' = StepsLeft
    OBVIOUS
  <2>1. UNCHANGED call
    BY DEF Next, NewBlock, NewContext, Expire, Calls, Call
  <2> QED BY <2>1 DEF call, StepsLeft, HeightsLeft, MaxHeights
<1> QED BY <1>1, <1>2, StepsBounded, Safety, PTL DEF Spec, BoundedCall
=============================================================================
