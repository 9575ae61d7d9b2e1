--------------------------- MODULE ProcessProofs ----------------------------
(***************************************************************************)
(* Proofs about the process that main runs: the configuration it loads, for *)
(* every set of keys and values, and the exporter it then serves, for any   *)
(* collectors, timeouts, scrape interval and number of requests.            *)
(***************************************************************************)
EXTENDS Exporter, Configuration, FiniteSetTheorems, TLAPS

-----------------------------------------------------------------------------
(***************************************************************************)
(* The exporter.  The inductive invariant adds the clock: no request is     *)
(* older than its collectors can be, and any two are an interval apart.     *)
(***************************************************************************)

(* A request in flight has no answer yet. *)
GatherInv == \A r \in active : answer[r] = "none" /\ carries[r] = {}

(* How old the requests in flight are, and how far apart. *)
AgeInv ==
  /\ \A r \in active : age[r] <= Timeout /\ since <= age[r]
  /\ \A r, s \in active : r = s \/ age[r] + Interval <= age[s]
                                \/ age[s] + Interval <= age[r]

IInv == TypeOK /\ GatherInv /\ AgeInv /\ AnsweredInTime /\ WholeAnswers

-----------------------------------------------------------------------------
(* At the start nothing is in flight. *)
LEMMA InitIInv == Init => IInv
BY ExporterAssumption
   DEF Init, Forked, IInv, TypeOK, GatherInv, AgeInv, AnsweredInTime, WholeAnswers

(* Registration and the server's life leave the requests alone or end all.  *)
LEMMA ServerIInv ==
  IInv /\ ((\E c \in Collectors : MustRegister(c)) \/ Listen \/ ListenFails) => IInv'
<1> SUFFICES ASSUME IInv,
                    (\E c \in Collectors : MustRegister(c)) \/ Listen \/ ListenFails
             PROVE  IInv'
  OBVIOUS
<1>1. UNCHANGED <<gather, age, reply, since>> /\ (active' = active \/ active' = {})
  BY DEF MustRegister, Listen, ListenFails
<1>2. TypeOK'
  BY <1>1 DEF IInv, TypeOK, MustRegister, Listen, ListenFails, gather, reply, registry
<1>3. GatherInv' /\ AgeInv' /\ AnsweredInTime'
  BY <1>1 DEF IInv, GatherInv, AgeInv, AnsweredInTime, gather, reply
<1>4. WholeAnswers'
  <2>1. CASE active' = active
    BY <1>1, <2>1 DEF IInv, WholeAnswers, gather, reply
  <2>2. CASE ListenFails
    BY <2>2 DEF IInv, TypeOK, GatherInv, WholeAnswers, ListenFails, gather, reply
  <2> QED BY <2>1, <2>2 DEF MustRegister, Listen
<1> QED BY <1>2, <1>3, <1>4 DEF IInv

(* A new request is an interval younger than the youngest in flight.        *)
LEMMA ArriveIInv == ASSUME NEW q \in Requests PROVE IInv /\ Arrive(q) => IInv'
<1> SUFFICES ASSUME IInv, Arrive(q) PROVE IInv'
  OBVIOUS
<1> USE ExporterAssumption
<1>1. /\ active' = active \cup {q} /\ since' = 0 /\ since = Interval
      /\ age' = [age EXCEPT ![q] = 0]
      /\ answer' = [answer EXCEPT ![q] = "none"]
      /\ carries' = [carries EXCEPT ![q] = {}]
  BY DEF Arrive
<1>2. TypeOK'
  BY DEF IInv, TypeOK, Arrive, registry
<1>3. GatherInv'
  BY <1>1 DEF IInv, TypeOK, GatherInv
<1>4. AgeInv'
  <2>1. age'[q] = 0 /\ \A r \in active : r # q /\ age'[r] = age[r] /\ age[r] >= Interval
    BY <1>1 DEF IInv, TypeOK, AgeInv, Arrive
  <2>2. \A r \in active : age[r] \in Nat
    BY DEF IInv, TypeOK
  <2> QED BY <2>1, <2>2, <1>1 DEF IInv, AgeInv
<1>5. AnsweredInTime' /\ WholeAnswers'
  BY <1>1 DEF IInv, TypeOK, AnsweredInTime, WholeAnswers, Arrive
<1> QED BY <1>2, <1>3, <1>4, <1>5 DEF IInv

(* A collector that returns changes nothing the invariant speaks of.        *)
LEMMA FinishIInv ==
  ASSUME NEW q \in Requests, NEW c \in Collectors
  PROVE  IInv /\ Finish(q, c) => IInv'
<1> SUFFICES ASSUME IInv, Finish(q, c) PROVE IInv'
  OBVIOUS
<1>1. /\ UNCHANGED <<active, snap, age, answer, carries, since>>
      /\ q \in active /\ c \in snap[q] /\ done' = [done EXCEPT ![q] = @ \cup {c}]
  BY DEF Finish, reply
<1>2. clash' \in [Requests -> BOOLEAN] /\ \A r \in Requests \ {q} : clash'[r] = clash[r]
  BY DEF IInv, TypeOK, Finish
<1>3. TypeOK'
  BY <1>1, <1>2 DEF IInv, TypeOK, Finish, registry
<1>4. GatherInv' /\ AgeInv' /\ AnsweredInTime' /\ WholeAnswers'
  BY <1>1, <1>2 DEF IInv, GatherInv, AgeInv, AnsweredInTime, WholeAnswers
<1> QED BY <1>3, <1>4 DEF IInv

(* The answer is written when no collector is left, so before its time.     *)
LEMMA RespondIInv == ASSUME NEW q \in Requests PROVE IInv /\ Respond(q) => IInv'
<1> SUFFICES ASSUME IInv, Respond(q) PROVE IInv'
  OBVIOUS
<1> USE ExporterAssumption
<1>1. /\ q \in active /\ done[q] = snap[q] /\ active' = active \ {q}
      /\ UNCHANGED <<snap, done, clash, age, since>>
      /\ answer' = [answer EXCEPT ![q] = IF age[q] < TTL THEN Code(q) ELSE "dropped"]
      /\ carries' = [carries EXCEPT ![q] = IF answer'[q] = "200" THEN done[q] ELSE {}]
  BY DEF Respond, Gathered, gather
<1>2. answer'[q] = (IF age[q] < TTL THEN Code(q) ELSE "dropped")
  BY <1>1 DEF IInv, TypeOK
<1>3. carries'[q] = (IF answer'[q] = "200" THEN done[q] ELSE {})
  BY <1>1 DEF IInv, TypeOK
<1>4. \A r \in Requests \ {q} : answer'[r] = answer[r] /\ carries'[r] = carries[r]
  BY <1>1 DEF IInv, TypeOK
<1>5. TypeOK'
  <2>1. Code(q) \in {"200", "500"}
    BY DEF Code
  <2>2. answer' \in [Requests -> {"none", "200", "500", "dropped"}]
    BY <1>1, <2>1 DEF IInv, TypeOK
  <2>3. carries' \in [Requests -> SUBSET Enabled]
    BY <1>1 DEF IInv, TypeOK
  <2> QED BY <1>1, <2>2, <2>3 DEF IInv, TypeOK, Respond, registry
<1>6. GatherInv' /\ AgeInv'
  BY <1>1, <1>4 DEF IInv, TypeOK, GatherInv, AgeInv
<1>7. AnsweredInTime'
  <2>1. Timeout < TTL => age[q] < TTL
    BY <1>1 DEF IInv, TypeOK, AgeInv
  <2>2. Timeout < TTL => answer'[q] # "dropped"
    BY <2>1, <1>2 DEF Code
  <2> QED BY <2>2, <1>4 DEF IInv, AnsweredInTime
<1>8. WholeAnswers'
  <2>1. answer'[q] = "200" => carries'[q] = snap[q] /\ ~clash[q]
    BY <1>1, <1>2, <1>3 DEF Code
  <2> QED BY <2>1, <1>1, <1>3, <1>4 DEF IInv, WholeAnswers
<1> QED BY <1>5, <1>6, <1>7, <1>8 DEF IInv

(* Time passes for all requests alike, and for none that is out of it.      *)
LEMMA TickIInv == IInv /\ Tick => IInv'
<1> SUFFICES ASSUME IInv, Tick PROVE IInv'
  OBVIOUS
<1> USE ExporterAssumption
<1>1. /\ UNCHANGED <<active, snap, done, clash, answer, carries>>
      /\ \A r \in active : age[r] < Timeout /\ age'[r] = age[r] + 1
      /\ since' = IF since < Interval THEN since + 1 ELSE since
  BY DEF IInv, TypeOK, Tick, CollectTime, gather, reply
<1>2. TypeOK'
  BY DEF IInv, TypeOK, Tick, registry, gather, reply
<1>3. \A r \in active : age[r] \in Nat
  BY DEF IInv, TypeOK
<1>4. AgeInv'
  BY <1>1, <1>3 DEF IInv, TypeOK, AgeInv
<1>5. GatherInv' /\ AnsweredInTime' /\ WholeAnswers'
  BY <1>1 DEF IInv, GatherInv, AnsweredInTime, WholeAnswers
<1> QED BY <1>2, <1>4, <1>5 DEF IInv

(* Every step keeps the invariant. *)
LEMMA NextIInv == IInv /\ [Next]_vars => IInv'
<1> SUFFICES ASSUME IInv, [Next]_vars PROVE IInv'
  OBVIOUS
<1>1. CASE (\E c \in Collectors : MustRegister(c)) \/ Listen \/ ListenFails
  BY <1>1, ServerIInv
<1>2. CASE Tick
  BY <1>2, TickIInv
<1>3. CASE \E r \in Requests : Arrive(r)
  BY <1>3, ArriveIInv
<1>4. CASE \E r \in Requests : Respond(r)
  BY <1>4, RespondIInv
<1>5. CASE \E r \in Requests : \E c \in Collectors : Finish(r, c)
  BY <1>5, FinishIInv
<1>6. CASE UNCHANGED vars
  BY <1>6 DEF vars, registry, gather, reply, IInv, TypeOK, GatherInv, AgeInv,
              AnsweredInTime, WholeAnswers
<1> QED BY <1>1, <1>2, <1>3, <1>4, <1>5, <1>6 DEF Next

-----------------------------------------------------------------------------
(* Two ages an interval apart fall into different intervals of the clock.   *)
LEMMA Quotients ==
  ASSUME NEW x \in Nat, NEW y \in Nat, NEW n \in Nat \ {0}, x + n <= y
  PROVE  x \div n # y \div n
<1>1. x \div n \in Int /\ y \div n \in Int
  OBVIOUS
<1>2. /\ n * (x \div n) <= x /\ x < n * (x \div n) + n
      /\ n * (y \div n) <= y /\ y < n * (y \div n) + n
  OBVIOUS
<1> QED BY <1>1, <1>2

(* A smaller age falls into an interval no later. *)
LEMMA QuotientBound ==
  ASSUME NEW x \in Nat, NEW y \in Nat, NEW n \in Nat \ {0}, x <= y
  PROVE  x \div n \in 0 .. (y \div n)
OBVIOUS

(* Requests an interval apart, none older than Timeout: one for each of the *)
(* intervals that Timeout touches, at the most.                             *)
LEMMA InFlight == IInv => InFlightBounded
<1> SUFFICES ASSUME IInv PROVE InFlightBounded
  OBVIOUS
<1> USE ExporterAssumption
<1> DEFINE last == Timeout \div Interval
           slot == [r \in active |-> age[r] \div Interval]
<1>1. \A r \in active : age[r] \in Nat
  BY DEF IInv, TypeOK
<1>2. last \in Nat
  OBVIOUS
<1>3. \A r \in active : slot[r] \in 0 .. last
  BY <1>1, QuotientBound DEF IInv, AgeInv
<1>4. \A r, s \in active : slot[r] = slot[s] => r = s
  <2> SUFFICES ASSUME NEW r \in active, NEW s \in active, r # s
               PROVE  slot[r] # slot[s]
    OBVIOUS
  <2>1. age[r] + Interval <= age[s] \/ age[s] + Interval <= age[r]
    BY DEF IInv, AgeInv
  <2> QED BY <2>1, <1>1, Quotients
<1>5. slot \in Injection(active, 0 .. last)
  BY <1>3, <1>4 DEF Injection, IsInjective
<1>6. IsFiniteSet(0 .. last) /\ Cardinality(0 .. last) = last + 1
  <2> HIDE DEF last
  <2>1. 0 \in Int /\ last \in Int /\ ~(0 > last) /\ last - 0 + 1 = last + 1
    BY <1>2
  <2> QED BY <2>1, FS_Interval
<1>7. Cardinality(active) <= last + 1
  BY <1>5, <1>6, FS_Injection
<1> QED BY <1>7 DEF InFlightBounded

-----------------------------------------------------------------------------
(* The invariant holds throughout the life of the process. *)
THEOREM Safety == Spec => []IInv
<1> QED BY InitIInv, NextIInv, PTL DEF Spec

(* Type correctness: in particular nothing is registered or gathered that   *)
(* the configuration does not enable.                                       *)
THEOREM TypeCorrect == Spec => []TypeOK
<1>1. IInv => TypeOK
  BY DEF IInv
<1> QED BY <1>1, Safety, PTL

(* No answer is lost to a write timeout longer than the collectors'.        *)
THEOREM AnswersInTime == Spec => []AnsweredInTime
<1>1. IInv => AnsweredInTime
  BY DEF IInv
<1> QED BY <1>1, Safety, PTL

(* An answer of 200 is whole and unambiguous, any other is empty.           *)
THEOREM AnswersWhole == Spec => []WholeAnswers
<1>1. IInv => WholeAnswers
  BY DEF IInv
<1> QED BY <1>1, Safety, PTL

(* However many requests are made and given up, those in flight are no more *)
(* than the collectors' deadline has room for.                              *)
THEOREM BoundedInFlight == Spec => []InFlightBounded
<1> QED BY InFlight, Safety, PTL

-----------------------------------------------------------------------------
(***************************************************************************)
(* The exporter keeps the collectors' contract.  What it models of a        *)
(* collector is, for each request, a Collect as CollectorContract specifies *)
(* it: it begins with the request, if it was registered by then, and        *)
(* returns with the context at the latest.                                  *)
(***************************************************************************)

(* Gather runs collector c for request r. *)
Runs(r, c) == r \in active /\ c \in snap[r] \ done[r]

Contract(r, c) == INSTANCE CollectorContract WITH
  phase <- IF Runs(r, c) THEN "busy" ELSE "idle",
  now   <- IF Runs(r, c) THEN age[r] ELSE 0,
  sent  <- {}

(* A request starts its own collectors and leaves those of others alone.    *)
LEMMA ArriveContract ==
  ASSUME NEW r \in Requests, NEW c \in Enabled, TypeOK, NEW q \in Requests, Arrive(q)
  PROVE  [Contract(r, c)!Next]_(Contract(r, c)!vars)
<1>1. CASE q = r
  BY <1>1 DEF TypeOK, Arrive, Runs, Contract!Next, Contract!Begin, Contract!vars
<1>2. CASE q # r
  BY <1>2 DEF TypeOK, Arrive, Runs, Contract!Next, Contract!vars
<1> QED BY <1>1, <1>2

(* A collector returns for the request it runs for, beside the same one     *)
(* running for another.                                                     *)
LEMMA FinishContract ==
  ASSUME NEW r \in Requests, NEW c \in Enabled, TypeOK, NEW q \in Requests,
         NEW d \in Collectors, Finish(q, d)
  PROVE  [Contract(r, c)!Next]_(Contract(r, c)!vars)
<1>1. /\ UNCHANGED <<active, snap, age>>
      /\ q \in active /\ d \in snap[q] \ done[q]
      /\ done' = [done EXCEPT ![q] = @ \cup {d}]
  BY DEF Finish
<1>2. CASE q = r /\ d = c
  <2>1. Runs(r, c) /\ ~Runs(r, c)'
    BY <1>1, <1>2 DEF TypeOK, Runs
  <2> QED BY <2>1 DEF Contract!Next, Contract!Return
<1>3. CASE ~(q = r /\ d = c)
  <2>1. Runs(r, c)' <=> Runs(r, c)
    BY <1>1, <1>3 DEF TypeOK, Runs
  <2> QED BY <1>1, <2>1 DEF Contract!vars
<1> QED BY <1>2, <1>3

(* An answer is written when nothing runs for its request any more.         *)
LEMMA RespondContract ==
  ASSUME NEW r \in Requests, NEW c \in Enabled, TypeOK, NEW q \in Requests, Respond(q)
  PROVE  [Contract(r, c)!Next]_(Contract(r, c)!vars)
<1>1. /\ UNCHANGED <<snap, done, age>> /\ active' = active \ {q} /\ done[q] = snap[q]
  BY DEF Respond, Gathered, gather
<1>2. Runs(r, c)' <=> Runs(r, c)
  BY <1>1 DEF Runs
<1> QED BY <1>1, <1>2 DEF Contract!vars

(* Time passes for a collector only as long as its context lasts.           *)
LEMMA TickContract ==
  ASSUME NEW r \in Requests, NEW c \in Enabled, TypeOK, Tick
  PROVE  [Contract(r, c)!Next]_(Contract(r, c)!vars)
<1>1. /\ UNCHANGED <<active, snap, done>>
      /\ r \in active => age[r] < Timeout /\ age'[r] = age[r] + 1
  BY DEF TypeOK, Tick, CollectTime, gather
<1>2. Runs(r, c)' <=> Runs(r, c)
  BY <1>1 DEF Runs
<1> QED BY <1>1, <1>2 DEF Runs, Contract!Next, Contract!Wait, Contract!vars

(* The exit of the process ends every Collect; registration ends none.      *)
LEMMA ServerContract ==
  ASSUME NEW r \in Requests, NEW c \in Enabled,
         (\E d \in Collectors : MustRegister(d)) \/ Listen \/ ListenFails
  PROVE  [Contract(r, c)!Next]_(Contract(r, c)!vars)
<1>1. UNCHANGED <<snap, done, age>>
  BY DEF MustRegister, Listen, ListenFails, gather
<1>2. CASE active' = active
  BY <1>1, <1>2 DEF Runs, Contract!vars
<1>3. CASE active' = {}
  <2>1. ~Runs(r, c)'
    BY <1>3 DEF Runs
  <2> QED BY <2>1 DEF Contract!Next, Contract!Return, Contract!vars
<1> QED BY <1>2, <1>3 DEF MustRegister, Listen, ListenFails

LEMMA NextContract ==
  ASSUME NEW r \in Requests, NEW c \in Enabled, TypeOK, [Next]_vars
  PROVE  [Contract(r, c)!Next]_(Contract(r, c)!vars)
<1>1. CASE UNCHANGED vars
  BY <1>1 DEF vars, registry, gather, reply, Runs, Contract!vars
<1> QED BY <1>1, ArriveContract, FinishContract, RespondContract, TickContract,
           ServerContract DEF Next

(* Every collector behaves for every request as its contract says, however  *)
(* many requests run it at once: what the exporter's properties rest on is  *)
(* what the collectors are proved to keep.                                  *)
THEOREM ContractsKept ==
  Spec => \A r \in Requests, c \in Enabled : Contract(r, c)!Spec
<1> SUFFICES ASSUME NEW r \in Requests, NEW c \in Enabled
             PROVE  Spec => Contract(r, c)!Spec
  OBVIOUS
<1>1. Init => Contract(r, c)!Init
  BY DEF Init, Runs, Contract!Init
<1>2. TypeOK /\ [Next]_vars => [Contract(r, c)!Next]_(Contract(r, c)!vars)
  BY NextContract
<1> QED BY <1>1, <1>2, TypeCorrect, PTL DEF Spec, Contract!Spec

-----------------------------------------------------------------------------
(***************************************************************************)
(* What registration promises.  It ends with all enabled collectors and     *)
(* loses none on the way, although they register concurrently with each     *)
(* other and with the first requests.                                       *)
(***************************************************************************)

RegistryInv == registered = Enabled \ pending

(* What is registered is what has been forked and is not pending any more.  *)
LEMMA NextRegistryInv == TypeOK /\ RegistryInv /\ [Next]_vars => RegistryInv'
<1> SUFFICES ASSUME TypeOK, RegistryInv, [Next]_vars PROVE RegistryInv'
  OBVIOUS
<1>1. CASE \E c \in Collectors : MustRegister(c)
  BY <1>1 DEF TypeOK, RegistryInv, MustRegister
<1>2. CASE UNCHANGED registry
  BY <1>2 DEF RegistryInv, registry
<1> QED BY <1>1, <1>2 DEF Next, Listen, ListenFails, Arrive, Finish, Respond, Tick, vars

(* main registers each enabled collector once and none is left behind.       *)
THEOREM NoneLost == Spec => []RegistryInv
<1>1. Init => RegistryInv
  BY DEF Init, Forked, RegistryInv
<1> QED BY <1>1, NextRegistryInv, TypeCorrect, PTL DEF Spec

(* What EventuallyComplete rests on: once no registration is pending, none  *)
(* is ever again, every new request gets all enabled collectors, and no     *)
(* request in flight is given others than it began with.                    *)
CompleteForGood ==
  [][pending = {} =>
       /\ pending' = {}
       /\ \A r \in Requests : snap'[r] = snap[r] \/ snap'[r] = Enabled
       /\ \A r \in Requests :
            Respond(r) /\ answer'[r] = "200" /\ snap[r] = Enabled => carries'[r] = Enabled]_vars

(* No request undoes what main's registrations have completed.               *)
THEOREM StaysComplete == Spec => CompleteForGood
<1> DEFINE A == pending = {} =>
       /\ pending' = {}
       /\ \A r \in Requests : snap'[r] = snap[r] \/ snap'[r] = Enabled
       /\ \A r \in Requests :
            Respond(r) /\ answer'[r] = "200" /\ snap[r] = Enabled => carries'[r] = Enabled
<1>1. TypeOK /\ RegistryInv /\ [Next]_vars => [A]_vars
  <2> SUFFICES ASSUME TypeOK, RegistryInv, Next, pending = {} PROVE A
    OBVIOUS
  <2>1. pending' = {}
    BY DEF Next, MustRegister, Listen, ListenFails, Arrive, Finish, Respond, Tick, registry
  <2>2. ASSUME NEW r \in Requests PROVE snap'[r] = snap[r] \/ snap'[r] = Enabled
    <3>1. CASE \E q \in Requests : Arrive(q)
      BY <3>1 DEF TypeOK, RegistryInv, Arrive
    <3>2. CASE UNCHANGED snap
      BY <3>2
    <3> QED BY <3>1, <3>2 DEF Next, MustRegister, Listen, ListenFails, Finish, Respond, Tick,
                              gather
  <2>3. ASSUME NEW r \in Requests, Respond(r), answer'[r] = "200", snap[r] = Enabled
        PROVE  carries'[r] = Enabled
    BY <2>3 DEF TypeOK, Respond, Gathered
  <2> QED BY <2>1, <2>2, <2>3
<1> QED BY <1>1, TypeCorrect, NoneLost, PTL DEF Spec, CompleteForGood

-----------------------------------------------------------------------------
(***************************************************************************)
(* The configuration.  The inductive invariant says, for each library, what *)
(* the keys it has gone through hold, that those it has not still hold what *)
(* they held before, and that an error is remembered exactly if one of them *)
(* is malformed.                                                            *)
(***************************************************************************)

LoadTypeInv ==
  /\ env \in Sources /\ file \in Sources
  /\ envFile \in BOOLEAN /\ readable \in BOOLEAN
  /\ pc \in {"parse", "read", "decode", "running", "exited"}
  /\ todo \subseteq Keys /\ cfg \in Sources /\ bad \in BOOLEAN

(* Of the keys env.Parse has gone through, a well-formed one is set and a  *)
(* malformed one is remembered.                                             *)
ParseInv ==
  pc = "parse" =>
    /\ \A k \in Keys \ todo : IF FromEnv(k) \in WellFormed[k] THEN cfg[k] = FromEnv(k) ELSE bad
    /\ bad => \E k \in Keys : FromEnv(k) \notin WellFormed[k]

(* What env.Parse leaves behind if it succeeds. *)
ParsedInv ==
  pc \in {"read", "decode"} =>
    envFile /\ \A k \in Keys : FromEnv(k) \in WellFormed[k]

ReadInv == pc = "read" => ~bad /\ \A k \in Keys : cfg[k] = FromEnv(k)

Touched(k) == file[k] # Unset /\ k \notin todo

DecodeInv ==
  pc = "decode" =>
    /\ readable /\ todo \subseteq {k \in Keys : file[k] # Unset}
    /\ \A k \in Keys : ~Touched(k) => cfg[k] = FromEnv(k)
    /\ \A k \in Keys : Touched(k) =>
         IF Get(k) \in WellFormed[k] THEN cfg[k] = Get(k) ELSE bad
    /\ bad => \E k \in Keys : file[k] # Unset /\ Get(k) \notin WellFormed[k]

LoadInv == LoadTypeInv /\ ParseInv /\ ParsedInv /\ ReadInv /\ DecodeInv /\ Precedence

-----------------------------------------------------------------------------
(* How the value a key should have relates to what the libraries find.      *)
LEMMA ValueFacts ==
  ASSUME LoadTypeInv, NEW k \in Keys
  PROVE  /\ FromEnv(k) \notin WellFormed[k] => Effective(k) \notin WellFormed[k]
         /\ ~envFile \/ file[k] = Unset => Effective(k) = FromEnv(k)
         /\ envFile /\ file[k] # Unset => Effective(k) = Get(k)
BY ConfigAssumption DEF LoadTypeInv, FromEnv, Effective, Get

(* The process begins with nothing parsed. *)
LEMMA BeginLoadInv ==
  ASSUME env \in Sources, file \in Sources, envFile \in BOOLEAN, readable \in BOOLEAN,
         pc = "parse", todo = Keys, cfg = NoConfig, bad = FALSE
  PROVE  LoadInv
<1>1. NoConfig \in Sources
  BY DEF NoConfig, Sources
<1> QED BY <1>1 DEF LoadInv, LoadTypeInv, ParseInv, ParsedInv, ReadInv, DecodeInv, Precedence

LEMMA RestartLoadInv == Restart => LoadInv'
<1> SUFFICES ASSUME Restart PROVE LoadInv'
  OBVIOUS
<1>1. NoConfig' = NoConfig
  BY DEF NoConfig
<1>2. NoConfig \in Sources
  BY DEF NoConfig, Sources
<1> QED BY <1>1, <1>2 DEF Restart, Begin, LoadInv, LoadTypeInv, ParseInv, ParsedInv, ReadInv,
            DecodeInv, Precedence

(* A library goes on to its next key. *)
LEMMA SetType ==
  ASSUME LoadTypeInv, NEW k \in Keys, NEW v, Set(k, v)
  PROVE  /\ LoadTypeInv' /\ k \in todo /\ todo' = todo \ {k} /\ pc' = pc
         /\ env' = env /\ file' = file /\ envFile' = envFile /\ readable' = readable
         /\ \A j \in Keys : j # k => cfg'[j] = cfg[j]
         /\ v \in WellFormed[k] => cfg'[k] = v /\ bad' = bad
         /\ v \notin WellFormed[k] => bad' /\ cfg' = cfg
<1>1. v \in WellFormed[k] => v \in Values \cup {Unset}
  BY ConfigAssumption
<1> QED BY <1>1 DEF LoadTypeInv, Set, inputs, Sources

LEMMA ParseLoadInv == ASSUME LoadInv, NEW k \in Keys, Parse(k) PROVE LoadInv'
<1>1. LoadTypeInv /\ pc = "parse" /\ Set(k, FromEnv(k))
  BY DEF LoadInv, Parse
<1>2. /\ LoadTypeInv' /\ todo' = todo \ {k} /\ pc' = "parse"
      /\ env' = env /\ file' = file /\ envFile' = envFile /\ readable' = readable
      /\ \A j \in Keys : j # k => cfg'[j] = cfg[j]
      /\ FromEnv(k) \in WellFormed[k] => cfg'[k] = FromEnv(k) /\ bad' = bad
      /\ FromEnv(k) \notin WellFormed[k] => bad' /\ cfg' = cfg
  BY <1>1, SetType
<1>3. \A j \in Keys : FromEnv(j)' = FromEnv(j)
  BY <1>2 DEF FromEnv
<1>4. ParseInv'
  <2>1. \A j \in Keys \ todo' : IF FromEnv(j) \in WellFormed[j] THEN cfg'[j] = FromEnv(j)
                                ELSE bad'
    <3> SUFFICES ASSUME NEW j \in Keys \ todo'
                 PROVE  IF FromEnv(j) \in WellFormed[j] THEN cfg'[j] = FromEnv(j) ELSE bad'
      OBVIOUS
    <3>1. CASE j = k
      BY <3>1, <1>2
    <3>2. CASE j # k
      <4>1. IF FromEnv(j) \in WellFormed[j] THEN cfg[j] = FromEnv(j) ELSE bad
        BY <3>2, <1>1, <1>2 DEF LoadInv, ParseInv
      <4>2. bad => bad'
        BY <1>2
      <4> QED BY <4>1, <4>2, <3>2, <1>2
    <3> QED BY <3>1, <3>2
  <2>2. bad' => \E j \in Keys : FromEnv(j) \notin WellFormed[j]
    BY <1>1, <1>2 DEF LoadInv, ParseInv
  <2> QED BY <2>1, <2>2, <1>3 DEF ParseInv
<1> QED BY <1>2, <1>4 DEF LoadInv, ParsedInv, ReadInv, DecodeInv, Precedence

LEMMA ParseReturnsLoadInv == LoadInv /\ ParseReturns => LoadInv'
<1> SUFFICES ASSUME LoadInv, ParseReturns PROVE LoadInv'
  OBVIOUS
<1>1. LoadTypeInv /\ pc = "parse" /\ todo = {}
  BY DEF LoadInv, ParseReturns
<1>2. CASE bad
  <2>1. PICK k \in Keys : FromEnv(k) \notin WellFormed[k]
    BY <1>1, <1>2 DEF LoadInv, ParseInv
  <2>2. Effective(k) \notin WellFormed[k]
    BY <2>1, <1>1, ValueFacts
  <2>3. Fatal
    BY <1>2 DEF ParseReturns
  <2>4. NoConfig \in Sources
    BY DEF NoConfig, Sources
  <2>5. LoadTypeInv' /\ pc' = "exited"
    BY <2>3, <2>4, <1>1 DEF Fatal, LoadTypeInv, inputs
  <2>6. Precedence'
    BY <2>2, <2>3 DEF Fatal, Precedence, Effective, inputs
  <2> QED BY <2>5, <2>6 DEF LoadInv, ParseInv, ParsedInv, ReadInv, DecodeInv
<1>3. CASE ~bad
  <2>1. /\ UNCHANGED <<inputs, todo, cfg, bad>>
        /\ pc' = IF envFile THEN "read" ELSE "running"
    BY <1>3 DEF ParseReturns
  <2>2. \A k \in Keys : FromEnv(k) \in WellFormed[k] /\ cfg[k] = FromEnv(k)
    BY <1>1, <1>3 DEF LoadInv, ParseInv
  <2>3. LoadTypeInv'
    BY <2>1, <1>1 DEF LoadTypeInv, inputs
  <2>4. ParseInv' /\ ParsedInv' /\ ReadInv' /\ DecodeInv'
    BY <2>1, <2>2, <1>3 DEF ParseInv, ParsedInv, ReadInv, DecodeInv, FromEnv, inputs
  <2>5. ~envFile => \A k \in Keys : Effective(k) = FromEnv(k)
    BY <1>1, ValueFacts
  <2>6. Precedence'
    BY <2>1, <2>2, <2>5 DEF Precedence, Effective, inputs
  <2> QED BY <2>3, <2>4, <2>6 DEF LoadInv
<1> QED BY <1>2, <1>3

LEMMA ReadLoadInv == LoadInv /\ ReadInConfig => LoadInv'
<1> SUFFICES ASSUME LoadInv, ReadInConfig PROVE LoadInv'
  OBVIOUS
<1>1. LoadTypeInv /\ pc = "read" /\ envFile /\ ~bad
  BY DEF LoadInv, ReadInConfig, ParsedInv, ReadInv
<1>2. CASE readable
  <2>1. /\ pc' = "decode" /\ todo' = {k \in Keys : file[k] # Unset}
        /\ UNCHANGED <<inputs, cfg, bad>>
    BY <1>2 DEF ReadInConfig
  <2>2. LoadTypeInv'
    BY <2>1, <1>1 DEF LoadTypeInv, inputs
  <2>3. ParseInv' /\ ReadInv' /\ Precedence'
    BY <2>1 DEF ParseInv, ReadInv, Precedence
  <2>4. ParsedInv'
    BY <2>1, <1>1 DEF LoadInv, ParsedInv, FromEnv, inputs
  <2>5. \A k \in Keys : ~Touched(k)'
    BY <2>1 DEF Touched, inputs
  <2>6. \A k \in Keys : cfg[k] = FromEnv(k)
    BY <1>1 DEF LoadInv, ReadInv
  <2>7. DecodeInv'
    BY <2>1, <2>5, <2>6, <1>1, <1>2 DEF DecodeInv, FromEnv, inputs
  <2> QED BY <2>2, <2>3, <2>4, <2>7 DEF LoadInv
<1>3. CASE ~readable
  <2>1. NoConfig \in Sources
    BY DEF NoConfig, Sources
  <2> QED BY <2>1, <1>1, <1>3 DEF ReadInConfig, Fatal, inputs, LoadInv, LoadTypeInv, ParseInv,
             ParsedInv, ReadInv, DecodeInv, Precedence
<1> QED BY <1>2, <1>3

LEMMA UnmarshalLoadInv == ASSUME LoadInv, NEW k \in Keys, Unmarshal(k) PROVE LoadInv'
<1>1. LoadTypeInv /\ pc = "decode" /\ Set(k, Get(k))
  BY DEF LoadInv, Unmarshal
<1>2. /\ LoadTypeInv' /\ k \in todo /\ todo' = todo \ {k} /\ pc' = "decode"
      /\ env' = env /\ file' = file /\ envFile' = envFile /\ readable' = readable
      /\ \A j \in Keys : j # k => cfg'[j] = cfg[j]
      /\ Get(k) \in WellFormed[k] => cfg'[k] = Get(k) /\ bad' = bad
      /\ Get(k) \notin WellFormed[k] => bad' /\ cfg' = cfg
  BY <1>1, SetType
<1>3. \A j \in Keys : FromEnv(j)' = FromEnv(j) /\ Get(j)' = Get(j)
  BY <1>2 DEF FromEnv, Get
<1>4. /\ readable /\ todo \subseteq {j \in Keys : file[j] # Unset}
      /\ \A j \in Keys : ~Touched(j) => cfg[j] = FromEnv(j)
      /\ \A j \in Keys : Touched(j) =>
           IF Get(j) \in WellFormed[j] THEN cfg[j] = Get(j) ELSE bad
      /\ bad => \E j \in Keys : file[j] # Unset /\ Get(j) \notin WellFormed[j]
  BY <1>1 DEF LoadInv, DecodeInv
<1>5. file[k] # Unset
  BY <1>2, <1>4
<1>6. \A j \in Keys : j # k => (Touched(j)' <=> Touched(j))
  BY <1>2 DEF Touched
<1>7. Touched(k)'
  BY <1>2, <1>5 DEF Touched
<1>8. DecodeInv'
  <2>1. \A j \in Keys : ~Touched(j)' => cfg'[j] = FromEnv(j)
    BY <1>2, <1>4, <1>6, <1>7
  <2>2. bad => bad'
    BY <1>2
  <2>3. \A j \in Keys : Touched(j)' =>
          IF Get(j) \in WellFormed[j] THEN cfg'[j] = Get(j) ELSE bad'
    <3> SUFFICES ASSUME NEW j \in Keys, Touched(j)'
                 PROVE  IF Get(j) \in WellFormed[j] THEN cfg'[j] = Get(j) ELSE bad'
      OBVIOUS
    <3>1. CASE j = k
      BY <3>1, <1>2
    <3>2. CASE j # k
      BY <3>2, <2>2, <1>2, <1>4, <1>6
    <3> QED BY <3>1, <3>2
  <2>4. bad' => \E j \in Keys : file[j] # Unset /\ Get(j) \notin WellFormed[j]
    BY <1>2, <1>4, <1>5
  <2>5. readable' /\ todo' \subseteq {j \in Keys : file'[j] # Unset}
    BY <1>2, <1>4
  <2> QED BY <2>1, <2>3, <2>4, <2>5, <1>2, <1>3 DEF DecodeInv
<1>9. ParsedInv'
  BY <1>1, <1>2, <1>3 DEF LoadInv, ParsedInv
<1> QED BY <1>2, <1>8, <1>9 DEF LoadInv, ParseInv, ReadInv, Precedence

LEMMA UnmarshalReturnsLoadInv == LoadInv /\ UnmarshalReturns => LoadInv'
<1> SUFFICES ASSUME LoadInv, UnmarshalReturns PROVE LoadInv'
  OBVIOUS
<1>1. /\ LoadTypeInv /\ pc = "decode" /\ todo = {} /\ envFile /\ readable
      /\ \A k \in Keys : FromEnv(k) \in WellFormed[k]
      /\ \A k \in Keys : file[k] = Unset => cfg[k] = FromEnv(k)
      /\ \A k \in Keys : file[k] # Unset =>
           IF Get(k) \in WellFormed[k] THEN cfg[k] = Get(k) ELSE bad
      /\ bad => \E k \in Keys : file[k] # Unset /\ Get(k) \notin WellFormed[k]
  BY DEF LoadInv, UnmarshalReturns, DecodeInv, ParsedInv, Touched
<1>2. /\ \A k \in Keys : file[k] = Unset => Effective(k) = FromEnv(k)
      /\ \A k \in Keys : file[k] # Unset => Effective(k) = Get(k)
  BY <1>1, ValueFacts
<1>3. CASE bad
  <2>1. PICK k \in Keys : Effective(k) \notin WellFormed[k]
    BY <1>1, <1>2, <1>3
  <2>2. Fatal
    BY <1>3 DEF UnmarshalReturns
  <2>3. NoConfig \in Sources
    BY DEF NoConfig, Sources
  <2>4. LoadTypeInv' /\ pc' = "exited"
    BY <2>2, <2>3, <1>1 DEF Fatal, LoadTypeInv, inputs
  <2>5. Precedence'
    BY <2>1, <2>2 DEF Fatal, Precedence, Effective, inputs
  <2> QED BY <2>4, <2>5 DEF LoadInv, ParseInv, ParsedInv, ReadInv, DecodeInv
<1>4. CASE ~bad
  <2>1. pc' = "running" /\ UNCHANGED <<inputs, todo, cfg, bad>>
    BY <1>4 DEF UnmarshalReturns
  <2>2. \A k \in Keys : cfg[k] = Effective(k) /\ Effective(k) \in WellFormed[k]
    BY <1>1, <1>2, <1>4
  <2>3. LoadTypeInv'
    BY <2>1, <1>1 DEF LoadTypeInv, inputs
  <2>4. Precedence'
    BY <2>1, <2>2, <1>1 DEF Precedence, Effective, inputs
  <2> QED BY <2>1, <2>3, <2>4 DEF LoadInv, ParseInv, ParsedInv, ReadInv, DecodeInv
<1> QED BY <1>3, <1>4

LEMMA StutterLoadInv == LoadInv /\ UNCHANGED loading => LoadInv'
BY DEF loading, inputs, LoadInv, LoadTypeInv, ParseInv, ParsedInv, ReadInv, DecodeInv, Precedence,
       FromEnv, Get, Touched, Effective

-----------------------------------------------------------------------------
(* The invariant holds however often the process is started. *)
THEOREM LoadSafety == LoadSpec => []LoadInv
<1>1. LoadInit => LoadInv
  BY BeginLoadInv DEF LoadInit
<1>2. LoadInv /\ [LoadNext]_loading => LoadInv'
  BY RestartLoadInv, ParseLoadInv, ParseReturnsLoadInv, ReadLoadInv, UnmarshalLoadInv,
     UnmarshalReturnsLoadInv, StutterLoadInv DEF LoadNext
<1> QED BY <1>1, <1>2, PTL DEF LoadSpec

(* Every key has the value it should, or main exits for a reason.           *)
THEOREM PrecedenceKept == LoadSpec => []Precedence
<1>1. LoadInv => Precedence
  BY DEF LoadInv
<1> QED BY <1>1, LoadSafety, PTL
=============================================================================
