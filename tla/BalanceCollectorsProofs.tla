---------------------- MODULE BalanceCollectorsProofs ----------------------
(***************************************************************************)
(* Proofs about BalanceCollectors, for every list of entries and every      *)
(* timeout.  The inductive invariant says where the loop is: the samples    *)
(* are those of the entries before the current one, each with its label,    *)
(* the status variable remembers whether a call failed, and the clock never *)
(* passes the one deadline of the scrape.                                   *)
(***************************************************************************)
EXTENDS BalanceCollectors, TLAPS

(* Where the loop is, and what is open there. *)
ControlInv ==
  /\ pc = "call" => i <= Len(List) /\ ~Skips(List[i])
  /\ pc = "client" => kind = "wallet"
  /\ conn = IF kind = "wallet" /\ pc \in {"loop", "call"} THEN 1 ELSE 0

(* The samples sent so far are the ones of the entries passed so far. *)
SamplesInv ==
  /\ \A s \in samples : s.at < i /\ s.label = Label(List[s.at])
  /\ \A n \in DOMAIN List : n < i /\ ~Skips(List[n]) => Reported(n)
  /\ \A s, t \in samples : s.at = t.at => s = t

(* What the status variable remembers. *)
StatusInv ==
  /\ \A n \in failed : n < i
  /\ kind = "wallet" => (status = "error" <=> failed # {})
  /\ kind = "chain" /\ pc = "call" => status = "success"

(* A success is for a real account, whose present balance has been seen. *)
ValueInv ==
  /\ \A a \in Accounts : balance[a] \in seen[a]
  /\ \A s \in samples : s.status = "success" => s.label.account \in Accounts
  /\ SuccessIsReal

TimeInv == deadline = Timeout /\ now <= deadline

IInv == TypeOK /\ ControlInv /\ SamplesInv /\ StatusInv /\ ValueInv
        /\ ErrorMeansFailure /\ TimeInv

-----------------------------------------------------------------------------
(* The entries of the list, and that trimming keeps an entry an entry.      *)
LEMMA ListFacts ==
  /\ Len(List) \in Nat /\ DOMAIN List = 1 .. Len(List)
  /\ \A n \in DOMAIN List : List[n] \in Entries
BY BalanceAssumption

LEMMA LabelFacts ==
  ASSUME TypeOK, NEW e \in Entries
  PROVE  Label(e) \in Entries /\ Label(e).account = e.account
<1>1. Trim(e) \in Entries /\ Trim(e).account = e.account
  BY DEF Trim, Entries
<1> QED BY <1>1 DEF Label

(* The initial states satisfy the invariant: nothing has been sent. *)
LEMMA InitIInv == Init => IInv
<1> SUFFICES ASSUME Init PROVE IInv
  OBVIOUS
<1> USE ListFacts, BalanceAssumption DEF Init
<1>1. TypeOK
  BY DEF TypeOK, Statuses
<1>2. ControlInv /\ SamplesInv /\ StatusInv
  BY DEF ControlInv, SamplesInv, StatusInv
<1>3. ValueInv /\ ErrorMeansFailure
  BY DEF ValueInv, SuccessIsReal, ErrorMeansFailure
<1>4. TimeInv
  BY DEF TimeInv
<1> QED BY <1>1, <1>2, <1>3, <1>4 DEF IInv

(* A scrape that has just begun satisfies it, whatever the last one left.   *)
LEMMA CollectIInv == IInv /\ Collect => IInv'
<1> SUFFICES ASSUME IInv, Collect PROVE IInv'
  OBVIOUS
<1> USE ListFacts, BalanceAssumption
<1>1. TypeOK'
  BY DEF IInv, TypeOK, Collect, Statuses
<1>2. ControlInv' /\ SamplesInv' /\ StatusInv'
  BY DEF IInv, TypeOK, ControlInv, SamplesInv, StatusInv, Collect
<1>3. ValueInv' /\ ErrorMeansFailure'
  BY DEF IInv, TypeOK, ValueInv, SuccessIsReal, ErrorMeansFailure, Collect
<1>4. TimeInv'
  BY DEF TimeInv, Collect
<1> QED BY <1>1, <1>2, <1>3, <1>4 DEF IInv

(* A transfer leaves the scrape alone and only adds to what has been seen.  *)
LEMMA TransferIInv == IInv /\ Transfer => IInv'
<1> SUFFICES ASSUME IInv, NEW x \in Accounts, NEW y \in Balances,
                    balance' = [balance EXCEPT ![x] = y],
                    seen' = [seen EXCEPT ![x] = @ \cup {y}],
                    UNCHANGED <<kind, pc, i, status, samples, conn, now,
                                deadline, failed>>
             PROVE  IInv'
  BY DEF Transfer
<1>1. TypeOK'
  BY DEF IInv, TypeOK
<1>2. ControlInv' /\ SamplesInv' /\ StatusInv'
  BY DEF IInv, ControlInv, SamplesInv, StatusInv, Skips, Reported, Label
<1>3. \A z \in Accounts : seen[z] \subseteq seen'[z]
  BY DEF IInv, TypeOK
<1>4. \A z \in Accounts : balance'[z] \in seen'[z]
  BY DEF IInv, TypeOK, ValueInv
<1>5. ValueInv' /\ ErrorMeansFailure'
  BY <1>3, <1>4 DEF IInv, ValueInv, SuccessIsReal, ErrorMeansFailure
<1>6. TimeInv'
  BY DEF IInv, TimeInv
<1> QED BY <1>1, <1>2, <1>5, <1>6 DEF IInv

(* The steps that send nothing: the clock, and the code around the calls.   *)
LEMMA QuietIInv ==
  IInv /\ (Tick \/ NewClient \/ Ask \/ SkipBlank \/ Return) => IInv'
<1> SUFFICES ASSUME IInv, Tick \/ NewClient \/ Ask \/ SkipBlank \/ Return
             PROVE  IInv'
  OBVIOUS
<1> USE ListFacts, BalanceAssumption
<1>1. /\ samples' = samples /\ failed' = failed /\ kind' = kind
      /\ balance' = balance /\ seen' = seen
  BY DEF Tick, NewClient, Ask, SkipBlank, Return, call, env
<1>2. TypeOK'
  <2>1. CASE Tick
    BY <2>1 DEF IInv, TypeOK, Tick, env
  <2>2. CASE NewClient
    BY <2>2 DEF IInv, TypeOK, ControlInv, NewClient, env
  <2>3. CASE Ask
    BY <2>3 DEF IInv, TypeOK, Ask, FreshStatus, Statuses, call, env
  <2>4. CASE SkipBlank
    BY <2>4 DEF IInv, TypeOK, SkipBlank, call, env
  <2>5. CASE Return
    BY <2>5 DEF IInv, TypeOK, ControlInv, Return, CloseConn, env
  <2> QED BY <2>1, <2>2, <2>3, <2>4, <2>5
<1>3. ControlInv'
  <2>1. CASE Tick
    BY <2>1 DEF IInv, TypeOK, ControlInv, Skips, Tick, env
  <2>2. CASE NewClient
    BY <2>2 DEF IInv, TypeOK, ControlInv, NewClient, env
  <2>3. CASE Ask
    BY <2>3 DEF IInv, TypeOK, ControlInv, Skips, Ask, call, env
  <2>4. CASE SkipBlank
    BY <2>4 DEF IInv, TypeOK, ControlInv, SkipBlank, call, env
  <2>5. CASE Return
    BY <2>5 DEF IInv, TypeOK, ControlInv, Return, CloseConn, env
  <2> QED BY <2>1, <2>2, <2>3, <2>4, <2>5
<1>4. SamplesInv'
  <2>1. i' = i \/ (i <= Len(List) /\ Skips(List[i]) /\ i' = i + 1)
    BY DEF Tick, NewClient, Ask, SkipBlank, Return, call
  <2>2. CASE i' = i
    BY <2>2, <1>1 DEF IInv, SamplesInv, Skips, Reported, Label
  <2>3. CASE i <= Len(List) /\ Skips(List[i]) /\ i' = i + 1
    BY <2>3, <1>1 DEF IInv, TypeOK, SamplesInv, Samples, Skips, Reported, Label
  <2> QED BY <2>1, <2>2, <2>3
<1>5. StatusInv'
  <2>1. i <= i'
    BY DEF IInv, TypeOK, Tick, NewClient, Ask, SkipBlank, Return, call
  <2>2. \A n \in failed' : n < i'
    BY <1>1, <1>2, <2>1 DEF IInv, TypeOK, StatusInv
  <2>3. kind = "wallet" => status' = status
    BY DEF Tick, NewClient, Ask, SkipBlank, Return, FreshStatus
  <2>4. kind = "chain" /\ pc' = "call" => status' = "success"
    BY DEF IInv, StatusInv, Tick, NewClient, Ask, SkipBlank, Return,
           FreshStatus
  <2> QED BY <1>1, <2>2, <2>3, <2>4 DEF IInv, StatusInv
<1>6. ValueInv' /\ ErrorMeansFailure'
  BY <1>1 DEF IInv, ValueInv, SuccessIsReal, ErrorMeansFailure
<1>7. TimeInv'
  BY DEF IInv, TypeOK, TimeInv, Tick, NewClient, Ask, SkipBlank, Return, call
<1> QED BY <1>2, <1>3, <1>4, <1>5, <1>6, <1>7 DEF IInv

(* The steps that send the sample of the current entry and go on: they keep *)
(* the loop where the invariant says, whatever the sample carries.          *)
LEMMA SendLoop ==
  ASSUME IInv, pc = "call", NEW v \in Balances \cup {0}, NEW st \in Statuses,
         Send(v, st), UNCHANGED <<call, now, env>>
  PROVE  /\ i \in DOMAIN List /\ i' = i + 1 /\ pc' = "loop"
         /\ samples' \subseteq Samples
         /\ ControlInv' /\ SamplesInv' /\ TimeInv'
<1> DEFINE new == [at |-> i, label |-> Label(List[i]), value |-> v, status |-> st]
<1> USE ListFacts
<1>1. i \in DOMAIN List /\ ~Skips(List[i])
  BY DEF IInv, TypeOK, ControlInv
<1>2. i' = i + 1 /\ pc' = "loop" /\ samples' = samples \cup {new}
  BY DEF Send
<1>3. Label(List[i]) \in Entries
  BY <1>1, LabelFacts DEF IInv
<1>4. new \in Samples
  BY <1>1, <1>3 DEF Samples
<1>5. samples' \subseteq Samples
  BY <1>2, <1>4 DEF IInv, TypeOK
<1>6. ControlInv'
  BY <1>2 DEF IInv, ControlInv, call
<1>7. SamplesInv'
  <2>1. kind' = kind
    BY DEF call
  <2>2. \A s \in samples' : s.at < i' /\ s.label = Label(List[s.at])'
    <3> TAKE s \in samples'
    <3>1. CASE s = new
      BY <3>1, <2>1, <1>2 DEF IInv, TypeOK, Label
    <3>2. CASE s \in samples
      <4>1. s.at \in 1 .. Len(List) /\ s.at < i
        BY <3>2 DEF IInv, TypeOK, Samples, SamplesInv
      <4>2. s.label = Label(List[s.at])
        BY <3>2 DEF IInv, SamplesInv
      <4> QED BY <4>1, <4>2, <2>1, <1>2 DEF IInv, TypeOK, Label
    <3> QED BY <3>1, <3>2, <1>2
  <2>3. \A n \in DOMAIN List : n < i' /\ ~Skips(List[n])' => Reported(n)'
    <3> SUFFICES ASSUME NEW n \in DOMAIN List, n < i', ~Skips(List[n])'
                 PROVE  Reported(n)'
      OBVIOUS
    <3>1. CASE n = i
      <4>1. new \in samples' /\ new.at = n
        BY <3>1, <1>2
      <4>2. new.label = Label(List[n])'
        BY <3>1, <2>1 DEF Label
      <4> QED BY <4>1, <4>2 DEF Reported
    <3>2. CASE n < i
      <4>1. Reported(n)
        BY <3>2, <2>1 DEF IInv, SamplesInv, Skips
      <4> QED BY <4>1, <2>1, <1>2 DEF Reported, Label
    <3> QED BY <3>1, <3>2, <1>1, <1>2 DEF IInv, TypeOK
  <2>4. \A s, t \in samples' : s.at = t.at => s = t
    <3>1. \A s \in samples : s.at # new.at
      BY DEF IInv, TypeOK, Samples, SamplesInv
    <3> QED BY <3>1, <1>2 DEF IInv, SamplesInv
  <2> QED BY <2>2, <2>3, <2>4 DEF SamplesInv
<1>8. TimeInv'
  BY DEF IInv, TimeInv, call
<1> QED BY <1>1, <1>2, <1>5, <1>6, <1>7, <1>8

(* An answer in time is a sample with a balance of its account.             *)
LEMMA AnswerIInv == IInv /\ Answer => IInv'
<1> SUFFICES ASSUME IInv, Answer PROVE IInv'
  OBVIOUS
<1> DEFINE b == balance[List[i].account]
           new == [at |-> i, label |-> Label(List[i]), value |-> b, status |-> status]
<1> USE ListFacts
<1>1. i \in DOMAIN List
  BY DEF IInv, TypeOK, ControlInv, Answer
<1>2. /\ Label(List[i]).account = List[i].account
      /\ List[i].account \in Accounts
  BY <1>1, LabelFacts DEF IInv, Answer, Valid
<1>3. b \in Balances /\ b \in seen[List[i].account] /\ status \in Statuses
  BY <1>2 DEF IInv, TypeOK, ValueInv
<1>4. /\ i' = i + 1 /\ pc' = "loop" /\ samples' \subseteq Samples
      /\ ControlInv' /\ SamplesInv' /\ TimeInv'
  BY <1>3, SendLoop DEF Answer
<1>5. /\ samples' = samples \cup {new} /\ failed' = failed /\ status' = status
      /\ kind' = kind /\ balance' = balance /\ seen' = seen
  BY DEF Answer, Send, call, env
<1>6. TypeOK'
  BY <1>1, <1>4 DEF IInv, TypeOK, Answer, call, env
<1>7. StatusInv'
  BY <1>1, <1>4, <1>5 DEF IInv, TypeOK, StatusInv
<1>8. ValueInv'
  BY <1>2, <1>3, <1>5 DEF IInv, ValueInv, SuccessIsReal
<1>9. ErrorMeansFailure'
  <2>1. new.at = i /\ new.status = status
    OBVIOUS
  <2>2. status = "error" <=> IF kind = "chain" THEN i \in failed
                             ELSE \E n \in failed : n <= i
    <3>1. kind = "chain" => status = "success" /\ i \notin failed
      BY <1>1 DEF IInv, TypeOK, StatusInv, Answer
    <3>2. kind # "chain" => (status = "error" <=> failed # {})
      BY DEF IInv, TypeOK, StatusInv
    <3>3. \A n \in failed : n <= i
      BY <1>1 DEF IInv, TypeOK, StatusInv
    <3> QED BY <3>1, <3>2, <3>3
  <2> QED BY <2>1, <2>2, <1>5 DEF IInv, ErrorMeansFailure
<1> QED BY <1>4, <1>6, <1>7, <1>8, <1>9 DEF IInv

(* A failed call is a sample with an error status, and is remembered.       *)
LEMMA ErrorIInv == IInv /\ (Fail \/ TimeOut) => IInv'
<1> SUFFICES ASSUME IInv, pc = "call", ReportError, UNCHANGED <<call, now, env>>
             PROVE  IInv'
  BY DEF Fail, TimeOut
<1> DEFINE new == [at |-> i, label |-> Label(List[i]), value |-> 0, status |-> "error"]
<1> USE ListFacts
<1>1. /\ i \in DOMAIN List /\ i' = i + 1 /\ pc' = "loop"
      /\ samples' \subseteq Samples
      /\ ControlInv' /\ SamplesInv' /\ TimeInv'
  BY SendLoop DEF ReportError, Statuses
<1>2. /\ samples' = samples \cup {new} /\ failed' = failed \cup {i}
      /\ status' = "error" /\ kind' = kind /\ balance' = balance /\ seen' = seen
  BY DEF ReportError, Send, call, env
<1>3. TypeOK'
  BY <1>1, <1>2 DEF IInv, TypeOK, Statuses, call
<1>4. StatusInv'
  BY <1>1, <1>2 DEF IInv, TypeOK, StatusInv
<1>5. ValueInv'
  BY <1>2 DEF IInv, ValueInv, SuccessIsReal
<1>6. ErrorMeansFailure'
  <2>1. \A s \in samples : s.at \in 1 .. Len(List) /\ s.at < i
    BY DEF IInv, TypeOK, Samples, SamplesInv
  <2>2. \A s \in samples : (s.at \in failed' <=> s.at \in failed)
                           /\ ((\E n \in failed' : n <= s.at)
                               <=> \E n \in failed : n <= s.at)
    BY <2>1, <1>1, <1>2
  <2>3. \A s \in samples' : s \in samples \/ (s.at = i /\ s.status = "error")
    BY <1>2
  <2>4. i \in failed' /\ i <= i
    BY <1>1, <1>2
  <2> QED BY <2>2, <2>3, <2>4, <1>2 DEF IInv, ErrorMeansFailure
<1> QED BY <1>1, <1>3, <1>4, <1>5, <1>6 DEF IInv

(* Every step keeps the invariant. *)
LEMMA NextIInv == IInv /\ [Next]_vars => IInv'
<1> SUFFICES ASSUME IInv, [Next]_vars PROVE IInv'
  OBVIOUS
<1>1. CASE Transfer
  BY <1>1, TransferIInv
<1>2. CASE Tick \/ NewClient \/ Ask \/ SkipBlank \/ Return
  BY <1>2, QuietIInv
<1>3. CASE Collect
  BY <1>3, CollectIInv
<1>4. CASE Answer
  BY <1>4, AnswerIInv
<1>5. CASE Fail \/ TimeOut
  BY <1>5, ErrorIInv
<1>6. CASE UNCHANGED vars
  BY <1>6 DEF vars, IInv, TypeOK, ControlInv, SamplesInv, StatusInv, ValueInv,
              SuccessIsReal, ErrorMeansFailure, TimeInv, Skips, Reported, Label
<1> QED BY <1>1, <1>2, <1>3, <1>4, <1>5, <1>6 DEF Next, Local

-----------------------------------------------------------------------------
(* The invariant holds in every scrape. *)
THEOREM Safety == Spec => []IInv
<1> QED BY InitIInv, NextIInv, PTL DEF Spec

(* Type correctness: the state of Collect keeps its types. *)
THEOREM TypeCorrect == Spec => []TypeOK
<1>1. IInv => TypeOK
  BY DEF IInv
<1> QED BY <1>1, Safety, PTL

(* A success carries a balance its account had during the scrape.           *)
THEOREM SuccessesAreReal == Spec => []SuccessIsReal
<1>1. IInv => SuccessIsReal
  BY DEF IInv, ValueInv
<1> QED BY <1>1, Safety, PTL

(* What an error status says, for each kind of collector.                   *)
THEOREM ErrorsMeanFailures == Spec => []ErrorMeansFailure
<1>1. IInv => ErrorMeansFailure
  BY DEF IInv
<1> QED BY <1>1, Safety, PTL

(* Step by step a scrape keeps the contract of a collector, however long    *)
(* the list and however slow the answers.                                   *)
THEOREM ContractKept == Spec => Contract!Spec
<1> USE DEF Contract!Next, Contract!Begin, Contract!Wait, Contract!Send, Contract!Return,
            Contract!vars
<1>1. Init => Contract!Init
  BY DEF Init, Contract!Init
<1>2. IInv /\ [Next]_vars => [Contract!Next]_(Contract!vars)
  <2> SUFFICES ASSUME IInv, [Next]_vars PROVE [Contract!Next]_(Contract!vars)
    OBVIOUS
  <2>1. CASE Collect
    BY <2>1 DEF Collect
  <2>2. CASE Tick
    BY <2>2 DEF Tick, IInv, TimeInv
  <2>3. CASE Transfer \/ Ask \/ SkipBlank
    BY <2>3 DEF Transfer, Ask, SkipBlank, call
  <2>4. CASE Answer \/ Fail \/ TimeOut
    <3>1. samples \subseteq samples' /\ pc = "call" /\ pc' = "loop" /\ now' = now
      BY <2>4 DEF Answer, Fail, TimeOut, ReportError, Send
    <3> QED BY <3>1
  <2>5. CASE NewClient
    BY <2>5 DEF NewClient
  <2>6. CASE Return
    BY <2>6 DEF Return
  <2>7. CASE UNCHANGED vars
    BY <2>7 DEF vars
  <2> QED BY <2>1, <2>2, <2>3, <2>4, <2>5, <2>6, <2>7 DEF Next, Local
<1> QED BY <1>1, <1>2, Safety, PTL DEF Spec, Contract!Spec

(* A scrape with a connection reports every entry it does not skip, once.   *)
THEOREM AllReported == Spec => EveryEntryReported
<1>1. IInv /\ [Next]_vars =>
        [pc = "loop" /\ pc' = "idle" =>
           /\ \A n \in DOMAIN List : ~Skips(List[n]) => Reported(n)
           /\ \A s, t \in samples : s.at = t.at => s = t]_vars
  <2> SUFFICES ASSUME IInv, [Next]_vars, pc = "loop", pc' = "idle"
               PROVE  /\ \A n \in DOMAIN List : ~Skips(List[n]) => Reported(n)
                      /\ \A s, t \in samples : s.at = t.at => s = t
    OBVIOUS
  <2>1. Return
    BY DEF Next, Local, Transfer, Tick, NewClient, Ask, SkipBlank, Collect,
           Answer, Fail, TimeOut, ReportError, Send, vars, call
  <2>2. \A n \in DOMAIN List : n < i
    BY <2>1, ListFacts DEF IInv, TypeOK, Return
  <2> QED BY <2>2 DEF IInv, SamplesInv
<1> QED BY <1>1, Safety, PTL DEF Spec, EveryEntryReported

-----------------------------------------------------------------------------
(***************************************************************************)
(* How long a scrape can go on.  Each of its steps uses up one of a number  *)
(* fixed by the list and the timeout: what is left of KeepsContract is that *)
(* a step is taken at all, which is fairness.                               *)
(***************************************************************************)

(* The steps a scrape can still take: the clock's, two for each entry that  *)
(* is left, and the ones outside the loop over them.                        *)
StepsLeft ==
  IF pc = "idle" THEN 0
  ELSE (deadline - now) + 2 * (Len(List) + 1 - i)
       + (IF pc = "client" THEN 2 ELSE IF pc = "loop" THEN 1 ELSE 0)

LEMMA StepsBounded == IInv => StepsLeft \in 0 .. Timeout + 2 * Len(List) + 2
<1> SUFFICES ASSUME IInv PROVE StepsLeft \in 0 .. Timeout + 2 * Len(List) + 2
  OBVIOUS
<1>1. /\ pc \in {"idle", "client", "loop", "call"} /\ i \in 1 .. Len(List) + 1
      /\ now \in Nat /\ deadline = Timeout /\ now <= deadline
      /\ Timeout \in Nat /\ Len(List) \in Nat
  BY BalanceAssumption, ListFacts DEF IInv, TypeOK, TimeInv
<1> QED BY <1>1 DEF StepsLeft

LEMMA StepUsesUp ==
  IInv /\ IInv' /\ Next /\ pc # "idle" => Transfer \/ StepsLeft' < StepsLeft
<1> SUFFICES ASSUME IInv, IInv', Next, pc # "idle", ~Transfer
             PROVE  StepsLeft' < StepsLeft
  OBVIOUS
<1>1. /\ i \in 1 .. Len(List) + 1 /\ now \in Nat /\ deadline \in Nat /\ Len(List) \in Nat
      /\ now <= deadline /\ now' <= deadline'
      /\ pc' \in {"idle", "client", "loop", "call"}
  BY ListFacts DEF IInv, TypeOK, TimeInv
<1>2. CASE Tick
  BY <1>1, <1>2 DEF Tick, StepsLeft
<1>3. CASE NewClient
  BY <1>1, <1>3 DEF NewClient, StepsLeft
<1>4. CASE Ask \/ SkipBlank
  BY <1>1, <1>4 DEF Ask, SkipBlank, call, StepsLeft
<1>5. CASE Answer \/ Fail \/ TimeOut
  BY <1>1, <1>5 DEF Answer, Fail, TimeOut, ReportError, Send, call, StepsLeft
<1>6. CASE Return
  BY <1>1, <1>6 DEF Return, StepsLeft
<1> QED BY <1>2, <1>3, <1>4, <1>5, <1>6 DEF Next, Local, Collect

(* A scrape takes at most Timeout + 2 * Len(List) + 2 steps, transfers on   *)
(* the chain aside, whatever the calls are answered or whether they hang.   *)
BoundedScrape ==
  /\ [](StepsLeft \in 0 .. Timeout + 2 * Len(List) + 2)
  /\ [][pc # "idle" => Transfer \/ StepsLeft' < StepsLeft]_vars

(* Every scrape is bounded so: StepsLeft counts what is left of Collect.     *)
THEOREM ScrapeBounded == Spec => BoundedScrape
<1>1. IInv /\ IInv' /\ [Next]_vars =>
        [pc # "idle" => Transfer \/ StepsLeft' < StepsLeft]_vars
  BY StepUsesUp
<1> QED BY <1>1, StepsBounded, Safety, PTL DEF Spec, BoundedScrape
=============================================================================
