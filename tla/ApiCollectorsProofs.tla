------------------------ MODULE ApiCollectorsProofs ------------------------
(***************************************************************************)
(* Proofs about ApiCollectors, for any keys, list, labels and timeouts.     *)
(* The inductive invariant says that every sample and every failure belongs *)
(* to a request before the current one, with a label of its own key, what   *)
(* the status variable remembers, and how much time the calls can have      *)
(* taken.                                                                   *)
(***************************************************************************)
EXTENDS ApiCollectors, TLAPS

(* The request p comes before the current one. *)
Before(p) == p[1] < n \/ (p[1] = n /\ p[2] < q)

(* Where the loop is. *)
ControlInv ==
  /\ n > Len(Accounts(kind)) => q = 1
  /\ q > 1 => Key # NoKey
  /\ pc = "call" => n <= Len(Accounts(kind)) /\ Key # NoKey

(* A label of the key with number i, for a collector that takes a list. *)
Owns(i, l) ==
  kind \in {"venice", "openrouter"} => l \in LabelsOf(Accounts(kind)[i])

(* A sample stands for a request already made. *)
SampleInv ==
  \A s \in samples :
    /\ Before(s.at)
    /\ s.at[1] \in DOMAIN Accounts(kind) /\ Accounts(kind)[s.at[1]] # NoKey
    /\ s.at[2] \in DOMAIN Requests[kind] /\ s.family = Requests[kind][s.at[2]]
    /\ Owns(s.at[1], s.label)
    /\ s.family \in Listing => s.at \notin failed

(* No request is reported twice. *)
OnceInv == \A s, t \in samples : s.at = t.at => s = t

LabelInv == q > 1 => Owns(n, label)

(* Every request already made is reported, or is a listing. *)
ReportedInv ==
  \A i \in DOMAIN Accounts(kind), j \in DOMAIN Requests[kind] :
    Before(<<i, j>>) /\ Accounts(kind)[i] # NoKey =>
      Requests[kind][j] \in Listing \/ \E s \in samples : s.at = <<i, j>>

(* What the status variable remembers: of Venice's balance, its failure. *)
StatusInv ==
  /\ \A p \in failed \cup garbled : Before(p)
  /\ pc = "loop" /\ q > 1 => (status = "error" <=> <<n, q - 1>> \in failed)
  /\ pc = "call" => (status = "error" <=> Request = "usage" /\ <<n, 1>> \in failed)

(* How late it can be, by the number of calls. *)
TimeInv ==
  /\ deadline = Timeout /\ now <= deadline
  /\ pc = "call" => calls >= 1 /\ started <= now
  /\ kind = "coingecko" \/
       /\ pc # "call" => now <= calls * HTTPTimeout
       /\ pc = "call" => /\ started <= (calls - 1) * HTTPTimeout
                         /\ now <= started + HTTPTimeout

IInv ==
  /\ TypeOK
  /\ ControlInv
  /\ SampleInv
  /\ OnceInv
  /\ LabelInv
  /\ ReportedInv
  /\ StatusInv
  /\ StatusTruthful
  /\ TimeInv

-----------------------------------------------------------------------------
(* The requests of each collector: named once, and usage only after billing. *)
LEMMA RequestFacts ==
  /\ Kinds = {"venice", "openrouter", "composio", "xai", "openai", "messari",
              "coingecko", "tavily"}
  /\ \A k \in Kinds :
       /\ Len(Requests[k]) \in Nat \ {0}
       /\ DOMAIN Requests[k] = 1 .. Len(Requests[k])
       /\ \A j \in DOMAIN Requests[k] : Requests[k][j] \in Families
       /\ \A i, j \in DOMAIN Requests[k] : Requests[k][i] = Requests[k][j] => i = j
       /\ \A j \in DOMAIN Requests[k] :
            Requests[k][j] = "usage" => j = 2 /\ Len(Requests[k]) = 2
       /\ k = "coingecko" => Len(Requests[k]) = 1
<1> DEFINE Good(r) ==
             /\ Len(r) \in Nat \ {0} /\ DOMAIN r = 1 .. Len(r)
             /\ \A j \in DOMAIN r : r[j] \in Families
             /\ \A i, j \in DOMAIN r : r[i] = r[j] => i = j
             /\ \A j \in DOMAIN r : r[j] = "usage" => j = 2 /\ Len(r) = 2
<1>1. Kinds = {"venice", "openrouter", "composio", "xai", "openai", "messari",
               "coingecko", "tavily"}
  BY DEF Kinds, Requests
<1>2. Good(<<"billing">>) /\ Good(<<"billing", "usage">>) /\ Good(<<"key", "credits">>)
  BY DEF Families, Listing
<1>3. Good(<<"summary", "breakdown", "projects">>)
  BY DEF Families, Listing
<1>4. Good(<<"monthly", "daily", "limits", "prepaid">>)
  BY DEF Families, Listing
<1>5. Good(<<"costs">>) /\ Good(<<"allowance">>) /\ Good(<<"plan">>)
  BY DEF Families, Listing
<1>6. ASSUME NEW k \in Kinds PROVE Good(Requests[k])
  <2> HIDE DEF Good
  <2>1. Requests["venice"] \in {<<"billing">>, <<"billing", "usage">>}
    BY DEF Requests
  <2>2. /\ Requests["openrouter"] = <<"key", "credits">>
        /\ Requests["composio"] = <<"summary", "breakdown", "projects">>
        /\ Requests["xai"] = <<"monthly", "daily", "limits", "prepaid">>
    BY DEF Requests
  <2>3. /\ Requests["openai"] = <<"costs">>
        /\ Requests["messari"] = <<"allowance">>
        /\ Requests["coingecko"] = <<"plan">> /\ Requests["tavily"] = <<"plan">>
    BY DEF Requests
  <2> QED BY <1>1, <1>2, <1>3, <1>4, <1>5, <2>1, <2>2, <2>3
<1>7. Len(Requests["coingecko"]) = 1
  BY DEF Requests
<1> QED BY <1>1, <1>6, <1>7

(* The keys of each collector. *)
LEMMA AccountFacts ==
  \A k \in Kinds :
    /\ Len(Accounts(k)) \in Nat /\ DOMAIN Accounts(k) = 1 .. Len(Accounts(k))
    /\ \A i \in DOMAIN Accounts(k) : Accounts(k)[i] \in Keys \cup {NoKey}
<1> SUFFICES ASSUME NEW k \in Kinds
             PROVE  /\ Len(Accounts(k)) \in Nat
                    /\ DOMAIN Accounts(k) = 1 .. Len(Accounts(k))
                    /\ \A i \in DOMAIN Accounts(k) : Accounts(k)[i] \in Keys \cup {NoKey}
  OBVIOUS
<1>1. CASE k \in {"venice", "openrouter"}
  BY <1>1, ApiAssumption DEF Accounts
<1>2. CASE k \notin {"venice", "openrouter"}
  <2>1. Accounts(k) = <<Sole>>
    BY <1>2 DEF Accounts
  <2> QED BY <2>1, ApiAssumption
<1> QED BY <1>1, <1>2

(* What is known of the current key and request. *)
LEMMA HereFacts ==
  ASSUME TypeOK
  PROVE  /\ kind \in Kinds /\ n \in Nat \ {0} /\ q \in Nat \ {0}
         /\ Len(Requests[kind]) \in Nat \ {0} /\ Len(Accounts(kind)) \in Nat
         /\ DOMAIN Requests[kind] = 1 .. Len(Requests[kind])
         /\ DOMAIN Accounts(kind) = 1 .. Len(Accounts(kind))
         /\ \A p \in (DOMAIN Accounts(kind)) \X (DOMAIN Requests[kind]) :
              p \in (Nat \ {0}) \X (Nat \ {0})
         /\ q \in DOMAIN Requests[kind] /\ Request \in Families
         /\ Request = "usage" => q = 2 /\ Len(Requests[kind]) = 2
         /\ n <= Len(Accounts(kind)) /\ Key # NoKey => Key \in Keys
<1>1. kind \in Kinds /\ n \in 1 .. Len(Accounts(kind)) + 1 /\ q \in 1 .. Len(Requests[kind])
  BY DEF TypeOK
<1>2. /\ Len(Requests[kind]) \in Nat \ {0} /\ DOMAIN Requests[kind] = 1 .. Len(Requests[kind])
      /\ \A j \in DOMAIN Requests[kind] : Requests[kind][j] \in Families
      /\ \A j \in DOMAIN Requests[kind] :
           Requests[kind][j] = "usage" => j = 2 /\ Len(Requests[kind]) = 2
  BY <1>1, RequestFacts
<1>3. /\ Len(Accounts(kind)) \in Nat /\ DOMAIN Accounts(kind) = 1 .. Len(Accounts(kind))
      /\ \A i \in DOMAIN Accounts(kind) : Accounts(kind)[i] \in Keys \cup {NoKey}
  BY <1>1, AccountFacts
<1>4. n \in Nat \ {0} /\ q \in Nat \ {0} /\ q \in DOMAIN Requests[kind]
  BY <1>1, <1>2, <1>3
<1>5. n <= Len(Accounts(kind)) /\ Key # NoKey => Key \in Keys
  BY <1>3, <1>4 DEF Key
<1>6. Request \in Families /\ (Request = "usage" => q = 2 /\ Len(Requests[kind]) = 2)
  BY <1>2, <1>4 DEF Request
<1>7. ASSUME NEW p \in (DOMAIN Accounts(kind)) \X (DOMAIN Requests[kind])
      PROVE  p \in (Nat \ {0}) \X (Nat \ {0})
  <2>1. \A i \in DOMAIN Accounts(kind) : i \in Nat \ {0}
    BY <1>3
  <2>2. \A j \in DOMAIN Requests[kind] : j \in Nat \ {0}
    BY <1>2
  <2> QED BY <2>1, <2>2
<1> QED BY <1>1, <1>2, <1>3, <1>4, <1>5, <1>6, <1>7

(* At the start no request has been made. *)
LEMMA InitIInv == Init => IInv
<1> SUFFICES ASSUME Init PROVE IInv
  OBVIOUS
<1>0. /\ kind \in Kinds /\ Len(Accounts(kind)) \in Nat /\ Len(Requests[kind]) \in Nat \ {0}
      /\ DOMAIN Accounts(kind) = 1 .. Len(Accounts(kind))
      /\ DOMAIN Requests[kind] = 1 .. Len(Requests[kind])
  BY RequestFacts, AccountFacts DEF Init
<1>1. TypeOK
  BY <1>0, ApiAssumption DEF Init, TypeOK, Statuses
<1>2. ControlInv /\ SampleInv /\ OnceInv /\ LabelInv
  BY DEF Init, ControlInv, SampleInv, OnceInv, LabelInv
<1>3. ReportedInv
  BY <1>0 DEF Init, ReportedInv, Before
<1>4. StatusInv /\ StatusTruthful /\ TimeInv
  BY ApiAssumption DEF Init, StatusInv, StatusTruthful, TimeInv
<1> QED BY <1>1, <1>2, <1>3, <1>4 DEF IInv

(* The same at the beginning of every scrape. *)
LEMMA CollectIInv == Collect => IInv'
<1> SUFFICES ASSUME Collect PROVE IInv'
  OBVIOUS
<1>0. /\ kind' \in Kinds /\ Len(Accounts(kind')) \in Nat /\ Len(Requests[kind']) \in Nat \ {0}
      /\ DOMAIN Accounts(kind') = 1 .. Len(Accounts(kind'))
      /\ DOMAIN Requests[kind'] = 1 .. Len(Requests[kind'])
  BY RequestFacts, AccountFacts DEF Collect
<1>1. TypeOK'
  BY <1>0, ApiAssumption DEF Collect, TypeOK, Statuses
<1>2. ControlInv' /\ SampleInv' /\ OnceInv' /\ LabelInv'
  BY DEF Collect, ControlInv, SampleInv, OnceInv, LabelInv
<1>3. ReportedInv'
  BY <1>0 DEF Collect, ReportedInv, Before
<1>4. StatusInv' /\ StatusTruthful' /\ TimeInv'
  BY ApiAssumption DEF Collect, StatusInv, StatusTruthful, TimeInv
<1> QED BY <1>1, <1>2, <1>3, <1>4 DEF IInv

(* Steps that leave the request, its label, the samples and the failures    *)
(* alone keep the parts of the invariant that are about them.               *)
LEMMA SameRequest ==
  ASSUME IInv, UNCHANGED <<kind, n, q, label, samples, failed, garbled>>
  PROVE  SampleInv' /\ OnceInv' /\ LabelInv' /\ ReportedInv' /\ StatusTruthful'
<1>1. SampleInv'
  BY DEF IInv, SampleInv, Before, Owns
<1>2. OnceInv' /\ StatusTruthful'
  BY DEF IInv, OnceInv, StatusTruthful
<1>3. LabelInv'
  BY DEF IInv, LabelInv, Owns
<1>4. ReportedInv'
  BY DEF IInv, ReportedInv, Before
<1> QED BY <1>1, <1>2, <1>3, <1>4

(* Time passes in a call, until it is given up. *)
LEMMA TickIInv == IInv /\ Tick => IInv'
<1> SUFFICES ASSUME IInv, Tick PROVE IInv'
  OBVIOUS
<1>1. TypeOK'
  BY DEF IInv, TypeOK, Tick, history
<1>2. ControlInv'
  BY DEF IInv, ControlInv, Key, Tick
<1>3. StatusInv'
  BY DEF IInv, StatusInv, Before, Request, Tick, history
<1>4. TimeInv'
  <2>1. TypeOK /\ TimeInv /\ pc = "call" /\ now' = now + 1 /\ now < GivenUp(started)
        /\ UNCHANGED <<kind, pc, started, deadline, calls>>
    BY DEF IInv, Tick, history
  <2>2. GivenUp(started) <= deadline
        /\ (kind = "coingecko" \/ GivenUp(started) <= started + HTTPTimeout)
    BY <2>1, ApiAssumption DEF TypeOK, GivenUp, ClientTimeout
  <2>3. GivenUp(started) \in Nat
    BY <2>1, ApiAssumption DEF TypeOK, GivenUp, ClientTimeout
  <2>4. now + 1 <= deadline /\ (kind = "coingecko" \/ now + 1 <= started + HTTPTimeout)
    BY <2>1, <2>2, <2>3, ApiAssumption DEF TypeOK
  <2> QED BY <2>1, <2>4, ApiAssumption DEF TypeOK, TimeInv
<1>5. SampleInv' /\ OnceInv' /\ LabelInv' /\ ReportedInv' /\ StatusTruthful'
  BY SameRequest DEF Tick, history
<1> QED BY <1>1, <1>2, <1>3, <1>4, <1>5 DEF IInv

(* A call begins with a status of its own, or with the one of the balance.  *)
LEMMA AskIInv == IInv /\ Ask => IInv'
<1> SUFFICES ASSUME IInv, Ask PROVE IInv'
  OBVIOUS
<1>0. TypeOK
  BY DEF IInv
<1>1. TypeOK'
  BY <1>0 DEF TypeOK, Ask, FreshStatus, Statuses
<1>2. ControlInv'
  BY DEF IInv, ControlInv, Key, Ask
<1>3. StatusInv'
  <2>1. status' = "error" <=> Request = "usage" /\ <<n, 1>> \in failed
    <3>1. Request = "usage" => q = 2 /\ q - 1 = 1
      BY <1>0, HereFacts
    <3>2. pc = "loop" /\ q > 1 => (status = "error" <=> <<n, q - 1>> \in failed)
      BY DEF IInv, StatusInv
    <3> QED BY <3>1, <3>2 DEF Ask, FreshStatus
  <2> QED BY <2>1 DEF IInv, StatusInv, Before, Request, Ask
<1>4. TimeInv'
  <2>1. (calls + 1) - 1 = calls
    BY <1>0 DEF TypeOK
  <2>2. now <= now + HTTPTimeout
    BY <1>0, ApiAssumption DEF TypeOK
  <2> QED BY <1>0, <2>1, <2>2 DEF IInv, TypeOK, TimeInv, Ask
<1>5. SampleInv' /\ OnceInv' /\ LabelInv' /\ ReportedInv' /\ StatusTruthful'
  BY SameRequest DEF Ask
<1> QED BY <1>1, <1>2, <1>3, <1>4, <1>5 DEF IInv

(* The end of a scrape. *)
LEMMA ReturnIInv == IInv /\ Return => IInv'
<1> SUFFICES ASSUME IInv, Return PROVE IInv'
  OBVIOUS
<1>1. TypeOK'
  BY DEF IInv, TypeOK, Return, history
<1>2. ControlInv'
  BY DEF IInv, ControlInv, Key, Return
<1>3. StatusInv'
  BY DEF IInv, StatusInv, Before, Request, Return, history
<1>4. TimeInv'
  BY DEF IInv, TimeInv, Return, history
<1>5. SampleInv' /\ OnceInv' /\ LabelInv' /\ ReportedInv' /\ StatusTruthful'
  BY SameRequest DEF Return, history
<1> QED BY <1>1, <1>2, <1>3, <1>4, <1>5 DEF IInv

(* A blank entry is passed without a request. *)
LEMMA SkipIInv == IInv /\ SkipBlank => IInv'
<1> SUFFICES ASSUME IInv, SkipBlank PROVE IInv'
  OBVIOUS
<1>0. TypeOK
  BY DEF IInv
<1>1. /\ n' = n + 1 /\ pc = "loop" /\ n <= Len(Accounts(kind)) /\ Key = NoKey
      /\ UNCHANGED <<kind, pc, q, status, label, started, now, deadline, samples, calls,
                     failed, garbled>>
  BY DEF SkipBlank, history
<1>2. q = 1
  <2>1. ~(q > 1)
    BY <1>1 DEF IInv, ControlInv
  <2> QED BY <2>1, <1>0, HereFacts
<1>3. TypeOK'
  BY <1>0, <1>1, HereFacts DEF TypeOK
<1>4. ControlInv' /\ OnceInv' /\ LabelInv' /\ StatusTruthful' /\ TimeInv'
  BY <1>1, <1>2 DEF IInv, ControlInv, OnceInv, LabelInv, StatusTruthful, TimeInv
<1>5. \A p \in (Nat \ {0}) \X (Nat \ {0}) :
        /\ Before(p) => Before(p)'
        /\ Before(p)' => Before(p) \/ p[1] = n
  BY <1>0, <1>1, <1>2, HereFacts DEF Before
<1>6. SampleInv'
  <2>1. \A s \in samples : s.at \in (Nat \ {0}) \X (Nat \ {0})
    BY <1>0 DEF TypeOK, Samples
  <2> QED BY <1>1, <1>5, <2>1 DEF IInv, SampleInv, Owns
<1>7. ReportedInv'
  <2> SUFFICES ASSUME NEW i \in DOMAIN Accounts(kind), NEW j \in DOMAIN Requests[kind],
                      Before(<<i, j>>)', Accounts(kind)[i] # NoKey
               PROVE  Requests[kind][j] \in Listing \/ \E s \in samples : s.at = <<i, j>>
    BY <1>1 DEF ReportedInv
  <2>1. <<i, j>> \in (Nat \ {0}) \X (Nat \ {0}) /\ <<i, j>>[1] = i
    BY <1>0, HereFacts
  <2>2. Before(<<i, j>>)
    BY <2>1, <1>1, <1>5 DEF Key
  <2> QED BY <2>2 DEF IInv, ReportedInv
<1>8. StatusInv'
  <2>1. failed \cup garbled \subseteq (Nat \ {0}) \X (Nat \ {0})
    BY <1>0 DEF TypeOK
  <2> QED BY <1>1, <1>2, <1>5, <2>1 DEF IInv, StatusInv
<1> QED BY <1>3, <1>4, <1>6, <1>7, <1>8 DEF IInv

-----------------------------------------------------------------------------
(* What the end of a call does, with an answer (ok) or without one.         *)
Reply(ok, value) ==
  /\ pc = "call" /\ label' = LabelOf(ok)
  /\ status' = (IF ok THEN status ELSE "error")
  /\ failed' = (IF ok THEN failed ELSE failed \cup {<<n, q>>})
  /\ garbled' = (IF ok /\ value = "zero" THEN garbled \cup {<<n, q>>} ELSE garbled)
  /\ ok \/ value = "zero"
  /\ \/ /\ ok \/ Request \notin Listing
        /\ Send(status', value, label')
     \/ Request \in Listing /\ UNCHANGED samples
  /\ Advance
  /\ UNCHANGED <<kind, started, now, deadline, calls>>

LEMMA Replies == /\ Answer => Reply(TRUE, "read") \/ Reply(TRUE, "zero")
                 /\ Fail \/ TimeOut => Reply(FALSE, "zero")
<1>1. Answer => Reply(TRUE, "read") \/ Reply(TRUE, "zero")
  BY DEF Answer, Reply, Send, Advance
<1>2. Fail \/ TimeOut => Reply(FALSE, "zero")
  BY DEF Fail, TimeOut, ReportError, Reply, Send, Advance
<1> QED BY <1>1, <1>2

(* The request just made is the only one that comes to lie behind.          *)
LEMMA AdvanceFacts ==
  ASSUME TypeOK, n <= Len(Accounts(kind)), Advance, kind' = kind
  PROVE  /\ n' \in 1 .. Len(Accounts(kind)) + 1 /\ q' \in 1 .. Len(Requests[kind])
         /\ q' > 1 => n' = n /\ q' = q + 1 /\ q < Len(Requests[kind])
         /\ \A p \in (Nat \ {0}) \X (Nat \ {0}) : Before(p) => Before(p)'
         /\ ~Before(<<n, q>>) /\ \A p : p = <<n, q>> => Before(p)'
         /\ \A p \in (Nat \ {0}) \X (Nat \ {0}) :
              p[2] <= Len(Requests[kind]) /\ Before(p)' => Before(p) \/ p = <<n, q>>
<1>1. \/ q < Len(Requests[kind]) /\ q' = q + 1 /\ n' = n
      \/ q = Len(Requests[kind]) /\ q' = 1 /\ n' = n + 1
  BY HereFacts DEF Advance, TypeOK
<1>2. /\ n' \in 1 .. Len(Accounts(kind)) + 1 /\ q' \in 1 .. Len(Requests[kind])
      /\ q' > 1 => n' = n /\ q' = q + 1 /\ q < Len(Requests[kind])
  BY <1>1, HereFacts
<1>3. ~Before(<<n, q>>) /\ \A p : p = <<n, q>> => Before(p)'
  <2>1. ~Before(<<n, q>>)
    BY HereFacts DEF Before
  <2>2. ASSUME NEW p, p = <<n, q>> PROVE Before(p)'
    <3>1. p[1] = n /\ p[2] = q
      BY <2>2
    <3> QED BY <3>1, <1>1, HereFacts DEF Before
  <2> QED BY <2>1, <2>2
<1>4. ASSUME NEW p \in (Nat \ {0}) \X (Nat \ {0})
      PROVE  /\ Before(p) => Before(p)'
             /\ p[2] <= Len(Requests[kind]) /\ Before(p)' => Before(p) \/ p = <<n, q>>
  BY <1>1, HereFacts DEF Before
<1> QED BY <1>2, <1>3, <1>4

(* The label of a request is one of its key's. *)
LEMMA LabelFacts ==
  ASSUME IInv, pc = "call", NEW ok \in BOOLEAN
  PROVE  LabelOf(ok) \in Labels /\ Owns(n, LabelOf(ok)) /\ (q > 1 => LabelOf(ok) = label)
<1>1. TypeOK /\ n <= Len(Accounts(kind)) /\ Key \in Keys
  BY HereFacts DEF IInv, ControlInv
<1>2. Redact[Key] \in Labels /\ Named[Key] \in Labels /\ NoLabel \in Labels /\ label \in Labels
  BY <1>1, ApiAssumption DEF TypeOK
<1>3. LabelOf(ok) \in Labels /\ (q > 1 => LabelOf(ok) = label)
  BY <1>2 DEF LabelOf, Fallback
<1>4. Owns(n, LabelOf(ok))
  <2>1. CASE q > 1
    BY <2>1, <1>3 DEF IInv, LabelInv
  <2>2. CASE ~(q > 1)
    BY <2>2 DEF Owns, LabelsOf, LabelOf, Fallback, Key
  <2> QED BY <2>1, <2>2
<1> QED BY <1>3, <1>4

(* The sample of a reply, if there is one. *)
Sample(value) ==
  [at |-> <<n, q>>, family |-> Request, label |-> label', status |-> status',
   value |-> value]

(* A reply reports its request once, with what the status variable said.    *)
LEMMA ReplyIInv ==
  ASSUME IInv, NEW ok \in BOOLEAN, NEW value \in {"read", "zero"}, Reply(ok, value)
  PROVE  IInv'
<1>1. /\ TypeOK /\ ControlInv /\ SampleInv /\ OnceInv /\ LabelInv /\ ReportedInv
      /\ StatusInv /\ StatusTruthful /\ TimeInv
  BY DEF IInv
<1>2. /\ pc = "call" /\ pc' = "loop" /\ label' = LabelOf(ok)
      /\ status' = (IF ok THEN status ELSE "error")
      /\ failed' = (IF ok THEN failed ELSE failed \cup {<<n, q>>})
      /\ garbled' = (IF ok /\ value = "zero" THEN garbled \cup {<<n, q>>} ELSE garbled)
      /\ ok \/ value = "zero"
      /\ UNCHANGED <<kind, started, now, deadline, calls>>
  BY DEF Reply, Advance
<1>3. \/ (ok \/ Request \notin Listing) /\ samples' = samples \cup {Sample(value)}
      \/ Request \in Listing /\ samples' = samples
  BY DEF Reply, Send, Sample
<1>4. /\ n <= Len(Accounts(kind)) /\ Key # NoKey
      /\ n \in DOMAIN Accounts(kind) /\ Accounts(kind)[n] # NoKey
  BY <1>1, <1>2, HereFacts DEF ControlInv, Key
<1>5. /\ n' \in 1 .. Len(Accounts(kind)) + 1 /\ q' \in 1 .. Len(Requests[kind])
      /\ q' > 1 => n' = n /\ q' = q + 1 /\ q < Len(Requests[kind])
      /\ \A p \in (Nat \ {0}) \X (Nat \ {0}) : Before(p) => Before(p)'
      /\ ~Before(<<n, q>>) /\ \A p : p = <<n, q>> => Before(p)'
      /\ \A p \in (Nat \ {0}) \X (Nat \ {0}) :
           p[2] <= Len(Requests[kind]) /\ Before(p)' => Before(p) \/ p = <<n, q>>
  BY <1>1, <1>2, <1>4, AdvanceFacts DEF Reply
<1>6. label' \in Labels /\ Owns(n, label')
  BY <1>2, LabelFacts
<1>7. /\ \A s \in samples : s.at \in (Nat \ {0}) \X (Nat \ {0})
      /\ failed \subseteq (Nat \ {0}) \X (Nat \ {0})
      /\ garbled \subseteq (Nat \ {0}) \X (Nat \ {0})
      /\ n \in Nat \ {0} /\ q \in Nat \ {0}
  BY <1>1, HereFacts DEF TypeOK, Samples
<1>8. TypeOK'
  <2>1. /\ status' \in Statuses
        /\ failed' \subseteq (Nat \ {0}) \X (Nat \ {0})
        /\ garbled' \subseteq (Nat \ {0}) \X (Nat \ {0})
    BY <1>1, <1>2, <1>7 DEF TypeOK, Statuses
  <2>2. Sample(value) \in Samples
    BY <2>1, <1>1, <1>6, <1>7, HereFacts DEF Sample, Samples
  <2>3. samples' \subseteq Samples
    BY <2>2, <1>1, <1>3 DEF TypeOK
  <2> QED BY <2>1, <2>3, <1>1, <1>2, <1>5, <1>6 DEF TypeOK
<1>9. ControlInv'
  <2>1. q' \in Nat /\ n' \in Nat
    BY <1>5, <1>1, HereFacts
  <2> QED BY <2>1, <1>2, <1>4, <1>5, <1>1, HereFacts DEF ControlInv, Key
<1>10. SampleInv'
  <2>1. ASSUME NEW s \in samples
        PROVE  /\ Before(s.at)'
               /\ s.at[1] \in DOMAIN Accounts(kind) /\ Accounts(kind)[s.at[1]] # NoKey
               /\ s.at[2] \in DOMAIN Requests[kind] /\ s.family = Requests[kind][s.at[2]]
               /\ Owns(s.at[1], s.label)
               /\ s.family \in Listing => s.at \notin failed'
    <3>1. s.at # <<n, q>>
      BY <1>1, <1>5 DEF SampleInv
    <3> QED BY <3>1, <1>1, <1>2, <1>5, <1>7 DEF SampleInv
  <2>2. /\ q \in DOMAIN Requests[kind] /\ Request = Requests[kind][q]
    BY <1>1, HereFacts DEF Request
  <2>3. CASE samples' = samples
    BY <2>1, <2>3, <1>2 DEF SampleInv, Owns
  <2>4. CASE (ok \/ Request \notin Listing) /\ samples' = samples \cup {Sample(value)}
    <3>1. /\ Sample(value).at = <<n, q>> /\ Sample(value).family = Request
          /\ Sample(value).label = label' /\ (Request \in Listing => <<n, q>> \notin failed')
      <4>1. <<n, q>> \notin failed
        BY <1>1, <1>5 DEF StatusInv
      <4> QED BY <2>4, <4>1, <1>2 DEF Sample
    <3>2. /\ <<n, q>>[1] = n /\ <<n, q>>[2] = q
      OBVIOUS
    <3> QED BY <2>1, <2>2, <2>4, <3>1, <3>2, <1>2, <1>4, <1>5, <1>6 DEF SampleInv, Owns
  <2> QED BY <2>3, <2>4, <1>3
<1>11. OnceInv'
  <2>1. \A s \in samples : s.at # <<n, q>>
    BY <1>1, <1>5 DEF SampleInv
  <2>2. Sample(value).at = <<n, q>>
    BY DEF Sample
  <2> QED BY <2>1, <2>2, <1>1, <1>3 DEF OnceInv
<1>12. LabelInv'
  BY <1>2, <1>5, <1>6 DEF LabelInv, Owns
<1>13. ReportedInv'
  <2> SUFFICES ASSUME NEW i \in DOMAIN Accounts(kind), NEW j \in DOMAIN Requests[kind],
                      Before(<<i, j>>)', Accounts(kind)[i] # NoKey
               PROVE  Requests[kind][j] \in Listing \/ \E s \in samples' : s.at = <<i, j>>
    BY <1>2 DEF ReportedInv
  <2>1. <<i, j>> \in (Nat \ {0}) \X (Nat \ {0}) /\ <<i, j>>[2] <= Len(Requests[kind])
    BY <1>1, HereFacts
  <2>2. CASE Before(<<i, j>>)
    BY <2>2, <1>1, <1>3 DEF ReportedInv
  <2>3. CASE <<i, j>> = <<n, q>>
    <3>1. Sample(value).at = <<n, q>> /\ Requests[kind][j] = Request
      BY <2>3 DEF Sample, Request
    <3> QED BY <3>1, <2>3, <1>3
  <2> QED BY <2>1, <2>2, <2>3, <1>5
<1>14. StatusInv'
  <2>1. \A p \in failed' \cup garbled' : Before(p)'
    BY <1>1, <1>2, <1>5, <1>7 DEF StatusInv
  <2>2. ASSUME q' > 1 PROVE status' = "error" <=> <<n', q' - 1>> \in failed'
    <3>1. n' = n /\ q' = q + 1 /\ q < Len(Requests[kind])
      BY <2>2, <1>5
    <3>2. q' - 1 = q
      BY <3>1, <1>7
    <3>3. Request # "usage"
      <4>1. Request = "usage" => q = 2 /\ Len(Requests[kind]) = 2
        BY <1>1, HereFacts
      <4>2. q # Len(Requests[kind])
        BY <3>1, <1>1, HereFacts
      <4> QED BY <4>1, <4>2
    <3>4. status # "error" /\ <<n, q>> \notin failed
      BY <3>3, <1>1, <1>2, <1>5 DEF StatusInv
    <3> QED BY <3>1, <3>2, <3>4, <1>2
  <2> QED BY <2>1, <2>2, <1>2 DEF StatusInv
<1>15. StatusTruthful'
  <2>1. ASSUME NEW s \in samples
        PROVE  /\ s.value = "zero" <=> s.at \in failed' \cup garbled'
               /\ s.status = "error" <=> \/ s.at \in failed'
                                         \/ s.family = "usage" /\ <<s.at[1], 1>> \in failed'
    <3>1. s.at # <<n, q>>
      BY <1>1, <1>5 DEF SampleInv
    <3>2. s.family = "usage" => <<s.at[1], 1>> # <<n, q>>
      <4>1. s.family = "usage" => s.at[2] = 2
        <5>1. s.at[2] \in DOMAIN Requests[kind] /\ s.family = Requests[kind][s.at[2]]
          BY <1>1 DEF SampleInv
        <5>2. \A j \in DOMAIN Requests[kind] : Requests[kind][j] = "usage" => j = 2
          BY <1>1, RequestFacts, HereFacts
        <5> QED BY <5>1, <5>2
      <4>2. Before(s.at)
        BY <1>1 DEF SampleInv
      <4> QED BY <4>1, <4>2, <1>7 DEF Before
    <3> QED BY <3>1, <3>2, <1>1, <1>2 DEF StatusTruthful
  <2>2. /\ Sample(value).at = <<n, q>> /\ Sample(value).at[1] = n /\ Sample(value).family = Request
        /\ Sample(value).status = status' /\ Sample(value).value = value
    BY DEF Sample
  <2>3. <<n, q>> \notin failed \cup garbled
    BY <1>1, <1>5 DEF StatusInv
  <2>4. status = "error" <=> Request = "usage" /\ <<n, 1>> \in failed
    BY <1>1, <1>2 DEF StatusInv
  <2>5. /\ Sample(value).value = "zero" <=> <<n, q>> \in failed' \cup garbled'
        /\ Sample(value).status = "error" <=> \/ <<n, q>> \in failed'
                                              \/ Request = "usage" /\ <<n, 1>> \in failed'
    <3>1. CASE ok
      BY <3>1, <2>2, <2>3, <2>4, <1>2
    <3>2. CASE ~ok
      BY <3>2, <2>2, <1>2
    <3> QED BY <3>1, <3>2
  <2> QED BY <2>1, <2>2, <2>5, <1>3 DEF StatusTruthful
<1>16. TimeInv'
  <2>1. (calls - 1) * HTTPTimeout + HTTPTimeout = calls * HTTPTimeout
    BY <1>1, ApiAssumption DEF TypeOK
  <2>2. (calls - 1) * HTTPTimeout \in Int
    BY <1>1, ApiAssumption DEF TypeOK
  <2>3. kind = "coingecko" \/ now <= calls * HTTPTimeout
    BY <2>1, <2>2, <1>1, <1>2, ApiAssumption DEF TypeOK, TimeInv
  <2> QED BY <2>3, <1>1, <1>2 DEF TimeInv
<1> QED BY <1>8, <1>9, <1>10, <1>11, <1>12, <1>13, <1>14, <1>15, <1>16 DEF IInv

-----------------------------------------------------------------------------
(* Every step preserves the invariant. *)
LEMMA NextIInv == IInv /\ [Next]_vars => IInv'
<1> SUFFICES ASSUME IInv, [Next]_vars PROVE IInv'
  OBVIOUS
<1>1. CASE Tick
  BY <1>1, TickIInv
<1>2. CASE Collect
  BY <1>2, CollectIInv
<1>3. CASE Answer
  BY <1>3, Replies, ReplyIInv
<1>4. CASE Fail \/ TimeOut
  BY <1>4, Replies, ReplyIInv
<1>5. CASE Ask
  BY <1>5, AskIInv
<1>6. CASE SkipBlank
  BY <1>6, SkipIInv
<1>7. CASE Return
  BY <1>7, ReturnIInv
<1>8. CASE UNCHANGED vars
  <2>1. UNCHANGED <<kind, pc, n, q, status, label, started, now, deadline, samples, calls,
                    failed, garbled>>
    BY <1>8 DEF vars, history
  <2>2. TypeOK' /\ ControlInv'
    BY <2>1 DEF IInv, TypeOK, ControlInv, Key
  <2>3. SampleInv' /\ OnceInv' /\ LabelInv' /\ ReportedInv' /\ StatusTruthful'
    BY <2>1, SameRequest
  <2>4. StatusInv' /\ TimeInv'
    BY <2>1 DEF IInv, StatusInv, TimeInv, Before, Request
  <2> QED BY <2>2, <2>3, <2>4 DEF IInv
<1> QED BY <1>1, <1>2, <1>3, <1>4, <1>5, <1>6, <1>7, <1>8 DEF Next, Local

THEOREM Safety == Spec => []IInv
BY InitIInv, NextIInv, PTL DEF Spec

(* Every variable keeps its type. *)
THEOREM TypeCorrect == Spec => []TypeOK
<1>1. IInv => TypeOK
  BY DEF IInv
<1> QED BY <1>1, Safety, PTL

(* Which zeros are marked as errors, and what else is marked: for any list  *)
(* of keys and any timeouts.                                                *)
THEOREM StatusIsTruthful == Spec => []StatusTruthful
<1>1. IInv => StatusTruthful
  BY DEF IInv
<1> QED BY <1>1, Safety, PTL

(* Two keys that can be told apart never send one series twice, whichever   *)
(* requests fail.                                                           *)
THEOREM SeriesUnique == Spec => []UniqueSeries
<1>1. ASSUME IInv, Distinguishable, NEW s \in samples, NEW t \in samples,
             s.family = t.family, s.label = t.label
      PROVE  s = t
  <2>1. kind \in Kinds /\ s.at \in (Nat \ {0}) \X (Nat \ {0}) /\ t.at \in (Nat \ {0}) \X (Nat \ {0})
    BY <1>1 DEF IInv, TypeOK, Samples
  <2>2. /\ s.at[2] \in DOMAIN Requests[kind] /\ s.family = Requests[kind][s.at[2]]
        /\ t.at[2] \in DOMAIN Requests[kind] /\ t.family = Requests[kind][t.at[2]]
        /\ s.at[1] \in DOMAIN Accounts(kind) /\ Accounts(kind)[s.at[1]] # NoKey
        /\ t.at[1] \in DOMAIN Accounts(kind) /\ Accounts(kind)[t.at[1]] # NoKey
        /\ Owns(s.at[1], s.label) /\ Owns(t.at[1], t.label)
    BY <1>1 DEF IInv, SampleInv
  <2>3. s.at[2] = t.at[2]
    <3>1. \A i, j \in DOMAIN Requests[kind] : Requests[kind][i] = Requests[kind][j] => i = j
      BY <2>1, RequestFacts
    <3> QED BY <3>1, <1>1, <2>2
  <2>4. s.at[1] = t.at[1]
    <3>1. CASE kind \in {"venice", "openrouter"}
      <4>1. /\ s.label \in LabelsOf(List[s.at[1]]) /\ t.label \in LabelsOf(List[t.at[1]])
            /\ s.at[1] \in DOMAIN List /\ t.at[1] \in DOMAIN List
            /\ List[s.at[1]] # NoKey
        BY <3>1, <2>2 DEF Owns, Accounts
      <4>2. List[s.at[1]] \in Keys /\ List[t.at[1]] \in Keys
        BY <3>1, <2>1, <2>2, AccountFacts DEF Accounts
      <4>3. List[s.at[1]] = List[t.at[1]]
        BY <4>1, <4>2, <1>1 DEF Distinguishable
      <4> QED BY <4>1, <4>3, <1>1 DEF Distinguishable
    <3>2. CASE kind \notin {"venice", "openrouter"}
      <4>1. Accounts(kind) = <<Sole>>
        BY <3>2 DEF Accounts
      <4> QED BY <4>1, <2>2
    <3> QED BY <3>1, <3>2
  <2>5. s.at = t.at
    BY <2>1, <2>3, <2>4
  <2> QED BY <2>5, <1>1 DEF IInv, OnceInv
<1>2. IInv => UniqueSeries
  BY <1>1 DEF UniqueSeries
<1> QED BY <1>2, Safety, PTL

(* The calls that fit into the deadline have their whole timeout each.      *)
THEOREM FullTimeouts == Spec => []FullTimeout
<1>1. ASSUME IInv PROVE FullTimeout
  <2>1. (calls - 1) * HTTPTimeout + HTTPTimeout = calls * HTTPTimeout
    BY <1>1, ApiAssumption DEF IInv, TypeOK
  <2>2. (calls - 1) * HTTPTimeout \in Int
    BY <1>1, ApiAssumption DEF IInv, TypeOK
  <2> QED BY <1>1, <2>1, <2>2, ApiAssumption DEF IInv, TypeOK, TimeInv, FullTimeout
<1> QED BY <1>1, Safety, PTL

(* Step by step a scrape keeps the contract of a collector, however many    *)
(* keys it has and however slow the answers are.                            *)
THEOREM ContractKept == Spec => Contract!Spec
<1> USE DEF Contract!Next, Contract!Begin, Contract!Wait, Contract!Send, Contract!Return,
            Contract!vars
<1>1. Init => Contract!Init
  BY DEF Init, Contract!Init
<1>2. IInv /\ IInv' /\ [Next]_vars => [Contract!Next]_(Contract!vars)
  <2> SUFFICES ASSUME IInv, IInv', [Next]_vars PROVE [Contract!Next]_(Contract!vars)
    OBVIOUS
  <2>1. CASE Collect
    BY <2>1 DEF Collect
  <2>2. CASE Tick
    <3>1. now' <= Timeout /\ now' = now + 1 /\ now \in Nat
      BY <2>2 DEF Tick, IInv, TypeOK, TimeInv
    <3>2. now < Timeout
      BY <3>1, ApiAssumption
    <3> QED BY <2>2, <3>2 DEF Tick
  <2>3. CASE Ask \/ SkipBlank
    BY <2>3 DEF Ask, SkipBlank, history
  <2>4. CASE Answer \/ Fail \/ TimeOut
    <3>1. samples \subseteq samples' /\ pc = "call" /\ pc' = "loop" /\ now' = now
      BY <2>4 DEF Answer, Fail, TimeOut, ReportError, Send, Advance
    <3> QED BY <3>1
  <2>5. CASE Return
    BY <2>5 DEF Return, history
  <2>6. CASE UNCHANGED vars
    BY <2>6 DEF vars
  <2> QED BY <2>1, <2>2, <2>3, <2>4, <2>5, <2>6 DEF Next, Local
<1> QED BY <1>1, <1>2, Safety, PTL DEF Spec, Contract!Spec

(* A scrape that returns has left out no request but a failed listing. *)
THEOREM AllRequestsReported == Spec => EveryRequestReported
<1> DEFINE Complete ==
  pc = "loop" /\ pc' = "idle" =>
    \A i \in DOMAIN Accounts(kind), j \in DOMAIN Requests[kind] :
      Accounts(kind)[i] # NoKey =>
        IF Requests[kind][j] \in Listing
        THEN <<i, j>> \in failed => \A s \in samples : s.at # <<i, j>>
        ELSE \E s \in samples : s.at = <<i, j>>
<1>1. IInv /\ [Next]_vars => [Complete]_vars
  <2> SUFFICES ASSUME IInv, [Next]_vars, pc = "loop", pc' = "idle",
                      NEW i \in DOMAIN Accounts(kind), NEW j \in DOMAIN Requests[kind],
                      Accounts(kind)[i] # NoKey
               PROVE  IF Requests[kind][j] \in Listing
                      THEN <<i, j>> \in failed => \A s \in samples : s.at # <<i, j>>
                      ELSE \E s \in samples : s.at = <<i, j>>
    OBVIOUS
  <2>1. n > Len(Accounts(kind))
    BY DEF Next, Local, vars, Tick, Collect, Answer, Fail, Ask, SkipBlank, TimeOut, Return
  <2>2. TypeOK
    BY DEF IInv
  <2>3. Before(<<i, j>>)
    BY <2>1, <2>2, HereFacts DEF Before
  <2>4. CASE Requests[kind][j] \in Listing
    <3>1. ASSUME NEW s \in samples, s.at = <<i, j>> PROVE <<i, j>> \notin failed
      <4>1. s.family = Requests[kind][s.at[2]] /\ (s.family \in Listing => s.at \notin failed)
        BY DEF IInv, SampleInv
      <4> QED BY <4>1, <3>1, <2>4
    <3> QED BY <3>1, <2>4
  <2>5. CASE Requests[kind][j] \notin Listing
    BY <2>5, <2>3 DEF IInv, ReportedInv
  <2> QED BY <2>4, <2>5
<1> QED BY <1>1, Safety, PTL DEF Spec, EveryRequestReported

-----------------------------------------------------------------------------
(***************************************************************************)
(* How long a scrape can go on.  Each of its steps uses up one of a number  *)
(* fixed by the keys and the timeout: what is left of KeepsContract is that *)
(* a step is taken at all, which is fairness.                               *)
(***************************************************************************)

(* The steps a scrape can still take: the clock's, two for each request     *)
(* that is left, four of them for each key, and the return.                 *)
StepsLeft ==
  IF pc = "idle" THEN 0
  ELSE (deadline - now) + 8 * (Len(Accounts(kind)) + 1 - n) - 2 * (q - 1)
       + (IF pc = "loop" THEN 1 ELSE 0)

(* No key has more than four requests. *)
LEMMA FewRequests == \A k \in Kinds : Len(Requests[k]) \in 1 .. 4
<1> SUFFICES ASSUME NEW k \in Kinds PROVE Len(Requests[k]) \in 1 .. 4
  OBVIOUS
<1>1. k \in {"venice", "openrouter", "composio", "xai", "openai", "messari",
            "coingecko", "tavily"}
  BY RequestFacts
<1>2. CASE k = "venice"
  <2>1. Requests[k] \in {<<"billing">>, <<"billing", "usage">>}
    BY <1>2 DEF Requests
  <2> QED BY <2>1
<1>3. CASE k = "openrouter"
  <2>1. Requests[k] = <<"key", "credits">>
    BY <1>3 DEF Requests
  <2> QED BY <2>1
<1>4. CASE k = "composio"
  <2>1. Requests[k] = <<"summary", "breakdown", "projects">>
    BY <1>4 DEF Requests
  <2> QED BY <2>1
<1>5. CASE k = "xai"
  <2>1. Requests[k] = <<"monthly", "daily", "limits", "prepaid">>
    BY <1>5 DEF Requests
  <2> QED BY <2>1
<1>6. CASE k \in {"openai", "messari", "coingecko", "tavily"}
  <2>1. Requests[k] \in {<<"costs">>, <<"allowance">>, <<"plan">>}
    BY <1>6 DEF Requests
  <2> QED BY <2>1
<1> QED BY <1>1, <1>2, <1>3, <1>4, <1>5, <1>6

LEMMA StepFacts ==
  ASSUME IInv
  PROVE  /\ pc \in {"idle", "loop", "call"}
         /\ Len(Accounts(kind)) \in Nat /\ n \in 1 .. Len(Accounts(kind)) + 1
         /\ q \in 1 .. 4
         /\ n = Len(Accounts(kind)) + 1 => q = 1
         /\ now \in Nat /\ deadline = Timeout /\ deadline \in Nat /\ now <= deadline
<1>1. Len(Accounts(kind)) \in Nat
  BY ApiAssumption DEF Accounts
<1>2. kind \in Kinds
  BY DEF IInv, TypeOK
<1>3. Len(Requests[kind]) \in 1 .. 4
  BY <1>2, FewRequests
<1>4. q \in 1 .. Len(Requests[kind]) /\ now \in Nat /\ deadline \in Nat
  BY DEF IInv, TypeOK
<1>5. pc \in {"idle", "loop", "call"} /\ n \in 1 .. Len(Accounts(kind)) + 1
  BY DEF IInv, TypeOK
<1>6. n > Len(Accounts(kind)) => q = 1
  BY DEF IInv, ControlInv
<1>7. deadline = Timeout /\ now <= deadline
  BY DEF IInv, TimeInv
<1>8. q \in 1 .. 4
  <2> DEFINE r == Len(Requests[kind])
  <2>1. r \in 1 .. 4 /\ q \in 1 .. r
    BY <1>3, <1>4
  <2> HIDE DEF r
  <2> QED BY <2>1
<1>9. n = Len(Accounts(kind)) + 1 => q = 1
  BY <1>1, <1>5, <1>6
<1> QED BY <1>1, <1>4, <1>5, <1>7, <1>8, <1>9

LEMMA StepsBounded ==
  IInv => StepsLeft \in 0 .. Timeout + 8 * Len(Accounts(kind)) + 1
<1> SUFFICES ASSUME IInv
             PROVE  StepsLeft \in 0 .. Timeout + 8 * Len(Accounts(kind)) + 1
  OBVIOUS
<1> DEFINE m == Len(Accounts(kind))
<1>1. /\ m \in Nat /\ n \in 1 .. m + 1 /\ q \in 1 .. 4 /\ (n = m + 1 => q = 1)
      /\ now \in Nat /\ deadline = Timeout /\ Timeout \in Nat /\ now <= Timeout
  BY StepFacts, ApiAssumption
<1>2. 8 * (m + 1 - n) - 2 * (q - 1) \in 0 .. 8 * m
  <2> HIDE DEF m
  <2>1. CASE n = m + 1
    BY <2>1, <1>1
  <2>2. CASE n # m + 1
    BY <2>2, <1>1
  <2> QED BY <2>1, <2>2
<1> QED BY <1>1, <1>2 DEF StepsLeft

LEMMA StepUsesUp == IInv /\ IInv' /\ Next /\ pc # "idle" => StepsLeft' < StepsLeft
<1> SUFFICES ASSUME IInv, IInv', Next, pc # "idle" PROVE StepsLeft' < StepsLeft
  OBVIOUS
<1> DEFINE m == Len(Accounts(kind))
<1>1. /\ pc \in {"loop", "call"} /\ m \in Nat /\ n \in 1 .. m + 1 /\ q \in 1 .. 4
      /\ (n = m + 1 => q = 1) /\ now \in Nat /\ deadline \in Nat /\ now <= deadline
  BY StepFacts
<1>2. now' \in Nat /\ now' <= deadline'
  BY StepFacts DEF IInv, TypeOK, TimeInv
<1>3. kind' = kind /\ deadline' = deadline
  BY DEF Next, Local, Tick, Collect, Answer, Fail, Ask, SkipBlank, TimeOut, Return
<1>4. Len(Accounts(kind))' = m
  BY <1>3
<1>5. CASE Tick
  BY <1>1, <1>2, <1>3, <1>4, <1>5 DEF Tick, StepsLeft
<1>6. CASE Ask
  BY <1>1, <1>3, <1>4, <1>6 DEF Ask, StepsLeft
<1>7. CASE SkipBlank
  BY <1>1, <1>3, <1>4, <1>7 DEF SkipBlank, StepsLeft
<1>8. CASE Answer \/ Fail \/ TimeOut
  <2>1. pc = "call" /\ now' = now /\ Advance
    BY <1>8 DEF Answer, Fail, TimeOut, ReportError
  <2>2. \/ q' = q + 1 /\ n' = n
        \/ q' = 1 /\ n' = n + 1
    BY <2>1 DEF Advance
  <2>3. pc' = "loop"
    BY <2>1 DEF Advance
  <2> QED BY <2>1, <2>2, <2>3, <1>1, <1>3, <1>4 DEF StepsLeft
<1>9. CASE Return
  <2>1. StepsLeft >= 1
    BY <1>1, <1>9 DEF Return, StepsLeft
  <2> QED BY <2>1, <1>1, <1>9 DEF Return, StepsLeft
<1> QED BY <1>5, <1>6, <1>7, <1>8, <1>9 DEF Next, Local, Collect

(* A scrape takes at most Timeout steps of the clock and eight a key, and   *)
(* one, whatever the requests are answered or whether they hang.            *)
BoundedScrape ==
  /\ [](StepsLeft \in 0 .. Timeout + 8 * Len(Accounts(kind)) + 1)
  /\ [][pc # "idle" => StepsLeft' < StepsLeft]_vars

(* Every scrape is bounded so: StepsLeft counts what is left of Collect.     *)
THEOREM ScrapeBounded == Spec => BoundedScrape
<1>1. IInv /\ IInv' /\ [Next]_vars => [pc # "idle" => StepsLeft' < StepsLeft]_vars
  BY StepUsesUp
<1> QED BY <1>1, StepsBounded, Safety, PTL DEF Spec, BoundedScrape
=============================================================================
