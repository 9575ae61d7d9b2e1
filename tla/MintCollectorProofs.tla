------------------------ MODULE MintCollectorProofs ------------------------
(***************************************************************************)
(* Proofs about MintCollector, for every timeout, every shortest ping       *)
(* interval and every bound on the height.  The inductive invariant says    *)
(* that the samples are, in order, those of the queries before the current  *)
(* one, and that the connection is open exactly while there are queries.    *)
(***************************************************************************)
EXTENDS MintCollector, TLAPS

(* Where the scrape is, and what it has sent on the way there. *)
ControlInv ==
  /\ pc = "call" => q <= Len(Families)
  /\ pc = "client" => samples = <<>> /\ failed = {}
  /\ pc = "client" => q = 1
  /\ conn = IF pc \in {"loop", "call"} THEN 1 ELSE 0
  /\ now <= Timeout

SamplesInv ==
  /\ Len(samples) = q - 1
  /\ \A i \in DOMAIN samples : samples[i].family = Families[i]
  /\ \A i \in failed : i < q
  /\ base <= height

IInv == TypeOK /\ ControlInv /\ SamplesInv /\ SamplesTruthful

-----------------------------------------------------------------------------
(* The families, three different ones. *)
LEMMA FamilyFacts ==
  /\ Len(Families) = 3
  /\ \A i \in 1 .. 3 :
       Families[i] \in {"inflation", "annual_provisions", "total_supply"}
BY DEF Families

LEMMA InitIInv == Init => IInv
<1> SUFFICES ASSUME Init PROVE IInv
  OBVIOUS
<1> USE FamilyFacts, MintAssumption DEF Init
<1>1. TypeOK
  BY DEF TypeOK
<1>2. ControlInv /\ SamplesInv
  BY DEF ControlInv, SamplesInv
<1>3. SamplesTruthful
  BY DEF SamplesTruthful, Successes
<1> QED BY <1>1, <1>2, <1>3 DEF IInv

(* A scrape begins with nothing sent. *)
LEMMA CollectIInv == IInv /\ Collect => IInv'
<1> SUFFICES ASSUME IInv, Collect PROVE IInv'
  OBVIOUS
<1> USE FamilyFacts, MintAssumption DEF Collect, wire
<1>1. TypeOK'
  BY DEF IInv, TypeOK
<1>2. ControlInv' /\ SamplesInv'
  BY DEF IInv, TypeOK, ControlInv, SamplesInv
<1>3. SamplesTruthful'
  BY DEF SamplesTruthful, Successes
<1> QED BY <1>1, <1>2, <1>3 DEF IInv

(* The steps that send nothing. *)
Quiet == Tick \/ NewBlock \/ NewClient \/ Ask \/ Dial \/ Acknowledge \/ Return

LEMMA QuietIInv == IInv /\ Quiet => IInv'
<1> SUFFICES ASSUME IInv, Quiet PROVE IInv'
  OBVIOUS
<1> USE FamilyFacts, MintAssumption DEF wire, env
<1>1. /\ samples' = samples /\ failed' = failed /\ q' = q
      /\ base' = base /\ height' \in Nat \ {0} /\ height <= height'
  BY DEF IInv, TypeOK, Quiet, Tick, NewBlock, NewClient, Ask, Dial, Acknowledge, Return
<1>2. TypeOK' /\ ControlInv'
  <2>1. CASE Tick
    BY <2>1 DEF IInv, TypeOK, ControlInv, Tick
  <2>2. CASE NewBlock
    BY <2>2 DEF IInv, TypeOK, ControlInv, NewBlock
  <2>3. CASE NewClient
    BY <2>3 DEF IInv, TypeOK, ControlInv, NewClient
  <2>4. CASE Ask
    BY <2>4 DEF IInv, TypeOK, ControlInv, Ask
  <2>5. CASE Dial
    BY <2>5 DEF IInv, TypeOK, ControlInv, Dial
  <2>6. CASE Acknowledge
    BY <2>6 DEF IInv, TypeOK, ControlInv, Acknowledge
  <2>7. CASE Return
    BY <2>7 DEF IInv, TypeOK, ControlInv, Return, CloseConn
  <2> QED BY <2>1, <2>2, <2>3, <2>4, <2>5, <2>6, <2>7 DEF Quiet
<1>3. SamplesInv'
  BY <1>1 DEF IInv, TypeOK, SamplesInv
<1>4. SamplesTruthful'
  BY <1>1 DEF IInv, TypeOK, SamplesTruthful, Successes
<1> QED BY <1>2, <1>3, <1>4 DEF IInv

(* What a step that sends a sample of the current query does to the list:   *)
(* the earlier samples stay where they are.                                 *)
LEMMA SendFacts ==
  ASSUME IInv, pc = "call", NEW st \in {"success", "error"}, NEW v \in Nat, Send(st, v)
  PROVE  /\ q \in 1 .. 3 /\ q' = q + 1 /\ pc' = "loop"
         /\ samples' \in Seq(Samples)
         /\ DOMAIN samples = 1 .. q - 1 /\ DOMAIN samples' = 1 .. q
         /\ Len(samples') = q
         /\ \A i \in 1 .. q - 1 : samples'[i] = samples[i]
         /\ samples'[q].family = Families[q]
         /\ samples'[q].status = st /\ samples'[q].value = v
<1> DEFINE new == [family |-> Families[q], status |-> st, value |-> v]
<1>1. q \in 1 .. 3 /\ samples \in Seq(Samples) /\ Len(samples) = q - 1
  BY FamilyFacts DEF IInv, TypeOK, ControlInv, SamplesInv
<1>2. samples' = Append(samples, new) /\ q' = q + 1 /\ pc' = "loop"
  BY DEF Send
<1>3. new \in Samples
  BY <1>1, FamilyFacts DEF Samples
<1> HIDE DEF new
<1>4. /\ samples' \in Seq(Samples) /\ Len(samples') = q
      /\ \A i \in 1 .. q - 1 : samples'[i] = samples[i]
      /\ samples'[q] = new
  BY <1>1, <1>2, <1>3
<1> QED BY <1>1, <1>2, <1>4 DEF new

(* A success of the present height, or an error that is remembered, keeps   *)
(* the invariant.                                                           *)
LEMMA SendIInv ==
  ASSUME IInv, pc = "call", NEW st \in {"success", "error"}, NEW v \in Nat, Send(st, v),
         st = "success" => v = height /\ failed' = failed,
         st = "error" => failed' = failed \cup {q},
         link' \in {"down", "up", "lost"}, silent' \in Nat,
         UNCHANGED <<conn, now, env>>
  PROVE  IInv'
<1> USE FamilyFacts DEF env
<1>1. /\ q \in 1 .. 3 /\ q' = q + 1 /\ pc' = "loop"
      /\ samples' \in Seq(Samples)
      /\ DOMAIN samples = 1 .. q - 1 /\ DOMAIN samples' = 1 .. q
      /\ Len(samples') = q
      /\ \A i \in 1 .. q - 1 : samples'[i] = samples[i]
      /\ samples'[q].family = Families[q]
      /\ samples'[q].status = st /\ samples'[q].value = v
  BY SendFacts
<1>2. /\ failed' \subseteq 1 .. 3
      /\ \A i \in failed' : i < q'
      /\ \A i \in 1 .. q - 1 : i \in failed' <=> i \in failed
      /\ st = "error" <=> q \in failed'
  <2>1. failed \subseteq 1 .. 3 /\ \A i \in failed : i < q
    BY DEF IInv, TypeOK, SamplesInv
  <2>2. failed' = IF st = "error" THEN failed \cup {q} ELSE failed
    OBVIOUS
  <2>3. q \in 1 .. 3 /\ q' = q + 1
    BY <1>1
  <2>4. q \notin failed /\ \A i \in failed : i < q + 1
    BY <2>1, <2>3
  <2> QED BY <2>1, <2>2, <2>3, <2>4
<1>3. TypeOK'
  BY <1>1, <1>2 DEF IInv, TypeOK
<1>4. ControlInv'
  BY <1>1 DEF IInv, ControlInv
<1>5. SamplesInv'
  BY <1>1, <1>2 DEF IInv, SamplesInv
<1>6. SamplesTruthful'
  <2>1. \A i \in DOMAIN samples' : samples'[i].status = "error" <=> i \in failed'
    BY <1>1, <1>2 DEF IInv, SamplesTruthful
  <2>2. Successes' \subseteq Successes \cup {q}
    BY <1>1 DEF Successes
  <2>3. q \in Successes' => v = height
    BY <1>1 DEF Successes
  <2>4. \A i \in Successes : i \in 1 .. q - 1 /\ samples[i].value \in base .. height
    BY <1>1 DEF IInv, SamplesTruthful, Successes
  <2>5. \A i \in Successes' : samples'[i].value \in (base .. height)'
    BY <2>2, <2>3, <2>4, <1>1 DEF IInv, TypeOK, SamplesInv
  <2>6. \A i, j \in Successes' : i < j => samples'[i].value <= samples'[j].value
    <3> SUFFICES ASSUME NEW i \in Successes', NEW j \in Successes', i < j
                 PROVE  samples'[i].value <= samples'[j].value
      OBVIOUS
    <3>1. i \in Successes /\ i \in 1 .. q - 1
      BY <2>2, <2>4, <1>1 DEF Successes
    <3>2. CASE j \in Successes
      BY <3>1, <3>2, <2>4, <1>1 DEF IInv, SamplesTruthful
    <3>3. CASE j = q
      BY <3>1, <3>3, <2>3, <2>4, <1>1 DEF IInv, TypeOK
    <3> QED BY <3>2, <3>3, <2>2
  <2> QED BY <2>1, <2>5, <2>6 DEF SamplesTruthful
<1> QED BY <1>3, <1>4, <1>5, <1>6 DEF IInv

(* The ways a query ends. *)
Ends == Answer \/ Refuse \/ LinkLost \/ TimeOut

LEMMA EndsIInv == IInv /\ Ends => IInv'
<1> SUFFICES ASSUME IInv, Ends PROVE IInv'
  OBVIOUS
<1>1. /\ pc = "call" /\ link' \in {"down", "up", "lost"} /\ silent' \in Nat
      /\ UNCHANGED <<conn, now, env>>
  BY DEF IInv, TypeOK, Ends, Answer, Refuse, LinkLost, TimeOut, wire
<1>2. ReportError \/ (Send("success", height) /\ failed' = failed)
  BY DEF Ends, Answer, Refuse, LinkLost, TimeOut
<1>3. CASE ReportError
  BY <1>1, <1>3, SendIInv DEF ReportError
<1>4. CASE Send("success", height) /\ failed' = failed
  <2>1. height \in Nat
    BY DEF IInv, TypeOK
  <2> QED BY <1>1, <1>4, <2>1, SendIInv
<1> QED BY <1>2, <1>3, <1>4

(* Every step keeps the invariant. *)
LEMMA NextIInv == IInv /\ [Next]_vars => IInv'
<1> SUFFICES ASSUME IInv, [Next]_vars PROVE IInv'
  OBVIOUS
<1>1. CASE Quiet
  BY <1>1, QuietIInv
<1>2. CASE Collect
  BY <1>2, CollectIInv
<1>3. CASE Ends
  BY <1>3, EndsIInv
<1>4. CASE UNCHANGED vars
  BY <1>4 DEF vars, IInv, TypeOK, ControlInv, SamplesInv, SamplesTruthful, Successes
<1> QED BY <1>1, <1>2, <1>3, <1>4 DEF Next, Local, Quiet, Ends

-----------------------------------------------------------------------------
(* The invariant holds in every scrape. *)
THEOREM Safety == Spec => []IInv
<1> QED BY InitIInv, NextIInv, PTL DEF Spec

(* Type correctness; of conn, that no connection outlives its scrape and    *)
(* none is closed twice.                                                    *)
THEOREM TypeCorrect == Spec => []TypeOK
<1>1. IInv => TypeOK
  BY DEF IInv
<1> QED BY <1>1, Safety, PTL

(* A status is the query's own, and a value is of a height of this scrape.  *)
THEOREM SamplesAreTruthful == Spec => []SamplesTruthful
<1>1. IInv => SamplesTruthful
  BY DEF IInv
<1> QED BY <1>1, Safety, PTL

(* A scrape with a connection sends each family exactly once.               *)
THEOREM OneOfEach == Spec => OneSampleEach
<1>1. IInv /\ [Next]_vars =>
        [pc = "loop" /\ pc' = "idle" =>
           /\ Len(samples) = Len(Families)
           /\ \A i \in DOMAIN samples : samples[i].family = Families[i]]_vars
  <2> SUFFICES ASSUME IInv, [Next]_vars, pc = "loop", pc' = "idle"
               PROVE  /\ Len(samples) = Len(Families)
                      /\ \A i \in DOMAIN samples : samples[i].family = Families[i]
    OBVIOUS
  <2>1. Return
    BY DEF Next, Local, NewBlock, Tick, Collect, NewClient, Ask, Dial, Acknowledge,
           Answer, Refuse, LinkLost, TimeOut, vars
  <2> QED BY <2>1, FamilyFacts DEF IInv, TypeOK, SamplesInv, Return
<1> QED BY <1>1, Safety, PTL DEF Spec, OneSampleEach

(* Step by step a scrape keeps the contract of a collector, however silent  *)
(* the server.                                                              *)
THEOREM ContractKept == Spec => Contract!Spec
<1> USE DEF Contract!Next, Contract!Begin, Contract!Wait, Contract!Send, Contract!Return,
            Contract!vars
<1>1. Init => Contract!Init
  BY DEF Init, Contract!Init
<1>2. IInv /\ [Next]_vars => [Contract!Next]_(Contract!vars)
  <2> SUFFICES ASSUME IInv, [Next]_vars PROVE [Contract!Next]_(Contract!vars)
    OBVIOUS
  <2>1. CASE Collect
    BY <2>1 DEF Collect
  <2>2. CASE Tick
    BY <2>2 DEF Tick
  <2>3. CASE NewBlock \/ Ask \/ Dial \/ Acknowledge
    BY <2>3 DEF NewBlock, Ask, Dial, Acknowledge
  <2>4. CASE NewClient
    BY <2>4 DEF NewClient
  <2>5. CASE Return
    BY <2>5 DEF Return
  <2>6. CASE Ends
    <3>1. pc = "call" /\ now' = now
      BY <2>6 DEF Ends, Answer, Refuse, LinkLost, TimeOut
    <3>2. ReportError \/ Send("success", height)
      BY <2>6 DEF Ends, Answer, Refuse, LinkLost, TimeOut
    <3>3. PICK st \in {"success", "error"}, v \in Nat : Send(st, v)
      BY <3>2 DEF ReportError, IInv, TypeOK
    <3>4. /\ pc' = "loop" /\ DOMAIN samples \subseteq DOMAIN samples'
          /\ \A i \in DOMAIN samples : samples'[i] = samples[i]
      <4>1. /\ pc' = "loop"
            /\ DOMAIN samples = 1 .. q - 1 /\ DOMAIN samples' = 1 .. q /\ q \in 1 .. 3
            /\ \A i \in 1 .. q - 1 : samples'[i] = samples[i]
        BY <3>1, <3>3, SendFacts
      <4> QED BY <4>1
    <3>5. {samples[i] : i \in DOMAIN samples} \subseteq {samples'[i] : i \in DOMAIN samples'}
      BY <3>4
    <3> QED BY <3>1, <3>4, <3>5
  <2>7. CASE UNCHANGED vars
    BY <2>7 DEF vars
  <2> QED BY <2>1, <2>2, <2>3, <2>4, <2>5, <2>6, <2>7 DEF Next, Local, Ends
<1> QED BY <1>1, <1>2, Safety, PTL DEF Spec, Contract!Spec

-----------------------------------------------------------------------------
(***************************************************************************)
(* How long a scrape can go on.  Each of its steps uses up one of a number  *)
(* fixed by the timeout, also where links are lost and dialled again: what  *)
(* is left of KeepsContract is that a step is taken at all, which is        *)
(* fairness.                                                                *)
(***************************************************************************)

(* The steps a scrape can still take: a tick of the clock and a ping to be  *)
(* acknowledged after it, three for each query that is left (asked, ended,  *)
(* and a dial if it ended with its link), and the ones outside their loop.  *)
StepsLeft ==
  IF pc = "idle" THEN 0
  ELSE 2 * (Timeout - now) + 3 * (Len(Families) + 1 - q)
       + (IF pc = "client" THEN 3 ELSE IF pc = "loop" THEN 1 ELSE 0)
       + (IF link = "up" \/ pc = "client" THEN 0 ELSE 1)
       + (IF silent = 0 \/ pc = "client" THEN 0 ELSE 1)

LEMMA StepFacts ==
  ASSUME IInv
  PROVE  /\ pc \in {"idle", "client", "loop", "call"} /\ Len(Families) = 3 /\ q \in 1 .. 4
         /\ link \in {"down", "up", "lost"} /\ silent \in Nat
         /\ now \in Nat /\ Timeout \in Nat /\ now <= Timeout
BY FamilyFacts, MintAssumption DEF IInv, TypeOK, ControlInv

LEMMA StepsBounded == IInv => StepsLeft \in 0 .. 2 * Timeout + 12
<1> SUFFICES ASSUME IInv PROVE StepsLeft \in 0 .. 2 * Timeout + 12
  OBVIOUS
<1> DEFINE a == IF pc = "client" THEN 3 ELSE IF pc = "loop" THEN 1 ELSE 0
           b == IF link = "up" \/ pc = "client" THEN 0 ELSE 1
           c == IF silent = 0 \/ pc = "client" THEN 0 ELSE 1
           d == 2 * (Timeout - now)
           e == 3 * (4 - q)
<1>1. /\ Len(Families) = 3 /\ q \in 1 .. 4
      /\ now \in Nat /\ Timeout \in Nat /\ now <= Timeout
  BY StepFacts
<1>2. a \in 0 .. 3 /\ b \in 0 .. 1 /\ c \in 0 .. 1 /\ a + b + c <= 3
  OBVIOUS
<1>3. d \in 0 .. 2 * Timeout /\ e \in 0 .. 9
  BY <1>1
<1>4. StepsLeft = IF pc = "idle" THEN 0 ELSE d + e + a + b + c
  BY <1>1 DEF StepsLeft
<1> HIDE DEF a, b, c, d, e
<1> QED BY <1>1, <1>2, <1>3, <1>4

LEMMA StepUsesUp ==
  IInv /\ IInv' /\ Next /\ pc # "idle" => NewBlock \/ StepsLeft' < StepsLeft
<1> SUFFICES ASSUME IInv, IInv', Next, pc # "idle", ~NewBlock PROVE StepsLeft' < StepsLeft
  OBVIOUS
<1>1. /\ pc \in {"idle", "client", "loop", "call"} /\ Len(Families) = 3 /\ q \in 1 .. 4
      /\ link \in {"down", "up", "lost"} /\ silent \in Nat
      /\ now \in Nat /\ Timeout \in Nat /\ now <= Timeout
  BY StepFacts
<1>2. silent' \in Nat /\ now' \in Nat /\ now' <= Timeout /\ q' \in 1 .. 4
  BY FamilyFacts DEF IInv, TypeOK, ControlInv
<1>3. PingTime \in Nat \ {0}
  BY MintAssumption DEF PingTime, KeepaliveTime
<1>4. CASE Tick
  BY <1>1, <1>2, <1>4 DEF Tick, StepsLeft
<1>5. CASE NewClient
  BY <1>1, <1>5 DEF NewClient, StepsLeft
<1>6. CASE Ask \/ Dial \/ Return
  BY <1>1, <1>6 DEF Ask, Dial, Return, wire, StepsLeft
<1>7. CASE Acknowledge
  <2>1. silent # 0 /\ silent' = 0 /\ pc = "call" /\ UNCHANGED <<pc, q, link, now>>
    BY <1>1, <1>3, <1>7 DEF Acknowledge
  <2> QED BY <2>1, <1>1 DEF StepsLeft
<1>8. CASE Ends
  <2>1. pc = "call" /\ now' = now /\ pc' = "loop" /\ q' = q + 1
    BY <1>8 DEF Ends, Answer, Refuse, LinkLost, TimeOut, ReportError, Send
  <2>2. silent' = silent \/ silent' = 0
    BY <1>8 DEF Ends, Answer, Refuse, LinkLost, TimeOut, wire
  <2> QED BY <2>1, <2>2, <1>1, <1>2 DEF StepsLeft
<1> QED BY <1>4, <1>5, <1>6, <1>7, <1>8 DEF Next, Local, Collect, Ends

(* A scrape takes at most 2 * Timeout + 12 steps, new blocks aside, however *)
(* often its link is lost, and whether or not the server says anything.     *)
BoundedScrape ==
  /\ [](StepsLeft \in 0 .. 2 * Timeout + 12)
  /\ [][pc # "idle" => NewBlock \/ StepsLeft' < StepsLeft]_vars

(* Every scrape is bounded so: StepsLeft counts what is left of Collect.     *)
THEOREM ScrapeBounded == Spec => BoundedScrape
<1>1. IInv /\ IInv' /\ [Next]_vars =>
        [pc # "idle" => NewBlock \/ StepsLeft' < StepsLeft]_vars
  BY StepUsesUp
<1> QED BY <1>1, StepsBounded, Safety, PTL DEF Spec, BoundedScrape
=============================================================================
