------------------------------ MODULE Exporter ------------------------------
(***************************************************************************)
(* The process: main registers each enabled collector in a goroutine of its *)
(* own and serves /metrics meanwhile.  Every request runs all collectors    *)
(* registered by then, at once and beside those of other requests, waits    *)
(* for them and writes one answer.  Of a collector only the contract is     *)
(* kept here: it ends when its context does, at the latest.                 *)
(***************************************************************************)
EXTENDS Integers, FiniteSets

CONSTANTS
  Collectors,  \* the collectors the program has
  Enabled,     \* those its configuration switches on
  Ambiguous,   \* those whose samples may carry the same labels twice
  Requests,    \* the requests that can be in flight at once (a bound)
  Timeout,     \* Cfg.Timeout, the time each collector's context lasts
  TTL,         \* Cfg.TTL, the server's write timeout
  Interval     \* the time between two requests of the scraper

ASSUME ExporterAssumption ==
  /\ Enabled \subseteq Collectors /\ Ambiguous \subseteq Collectors
  /\ Timeout \in Nat \ {0} /\ TTL \in Nat \ {0} /\ Interval \in Nat \ {0}

VARIABLES
  pending,     \* the registrations forked and not yet done
  registered,  \* the default registry
  server,      \* "starting" | "up" | "exited"
  active,      \* the requests being served
  snap,        \* snap[r]: the collectors Gather found registered
  done,        \* done[r]: those of them whose Collect has returned
  clash,       \* clash[r]: Gather met the same labels twice
  age,         \* age[r]: time since the request was read
  answer,      \* answer[r]: what the last request r was answered
  carries,     \* carries[r]: the collectors whose samples that answer holds
  since        \* time since the last request, up to Interval

registry == <<pending, registered>>
gather   == <<snap, done, clash>>
reply    == <<answer, carries>>
vars     == <<registry, server, active, gather, age, reply, since>>

TypeOK ==
  /\ pending \subseteq Enabled /\ registered \subseteq Enabled
  /\ server \in {"starting", "up", "exited"}
  /\ active \subseteq Requests
  /\ snap \in [Requests -> SUBSET Enabled]
  /\ done \in [Requests -> SUBSET Enabled]
  /\ clash \in [Requests -> BOOLEAN]
  /\ age \in [Requests -> Nat]
  /\ answer \in [Requests -> {"none", "200", "500", "dropped"}]
  /\ carries \in [Requests -> SUBSET Enabled]
  /\ since \in 0 .. Interval

-----------------------------------------------------------------------------
(* Seeded bug: a registration overwrites the ones made meanwhile. *)
LostUpdate(c) ==
  /\ server # "exited" /\ c \in pending
  /\ pending' = pending \ {c} /\ registered' = {c}
  /\ UNCHANGED <<server, active, gather, age, reply, since>>

(* One of the goroutines main has forked reaches the registry's lock. *)
MustRegister(c) ==
  /\ server # "exited" /\ c \in pending
  /\ pending' = pending \ {c} /\ registered' = registered \cup {c}
  /\ UNCHANGED <<server, active, gather, age, reply, since>>

Listen ==
  /\ server = "starting" /\ server' = "up"
  /\ UNCHANGED <<registry, active, gather, age, reply, since>>

(* ListenAndServe returns only with an error, at once or later, and the     *)
(* process exits with all it was doing.                                     *)
ListenFails ==
  /\ server # "exited" /\ server' = "exited"
  /\ active' = {}
  /\ UNCHANGED <<registry, gather, age, reply, since>>

(* A request is read, and Gather takes what is registered at that moment.   *)
Arrive(r) ==
  /\ server = "up" /\ r \notin active /\ since = Interval
  /\ active' = active \cup {r}
  /\ snap' = [snap EXCEPT ![r] = registered]
  /\ done' = [done EXCEPT ![r] = {}]
  /\ clash' = [clash EXCEPT ![r] = FALSE]
  /\ age' = [age EXCEPT ![r] = 0]
  /\ answer' = [answer EXCEPT ![r] = "none"]
  /\ carries' = [carries EXCEPT ![r] = {}]
  /\ since' = 0
  /\ UNCHANGED <<registry, server>>

(* A Collect that Gather has started returns; its samples may be ambiguous. *)
Finish(r, c) ==
  /\ r \in active /\ c \in snap[r] \ done[r]
  /\ done' = [done EXCEPT ![r] = @ \cup {c}]
  /\ \E twice \in BOOLEAN :
       /\ twice => c \in Ambiguous
       /\ clash' = [clash EXCEPT ![r] = @ \/ twice]
  /\ UNCHANGED <<registry, server, active, snap, age, reply, since>>

(* Seeded bug: a collector's context lasts as long as the server's timeout. *)
WholeTTL == TTL

(* How long a Collect can take. *)
CollectTime == Timeout

(* Seeded bug: Gather waits for the collectors registered meanwhile, too. *)
AllRegistered(r) == done[r] = registered

(* Gather waits for each collector it has started. *)
Gathered(r) == done[r] = snap[r]

(* Seeded bug: an ambiguous family is served with the rest. *)
ContinueOnError(r) == "200"

(* The default handler answers an error of Gather with an error, whatever   *)
(* else was gathered.                                                       *)
Code(r) == IF clash[r] THEN "500" ELSE "200"

(* The answer is written at once, unless the write timeout has passed.      *)
Respond(r) ==
  /\ r \in active /\ Gathered(r)
  /\ active' = active \ {r}
  /\ answer' = [answer EXCEPT ![r] = IF age[r] < TTL THEN Code(r) ELSE "dropped"]
  /\ carries' = [carries EXCEPT ![r] = IF answer'[r] = "200" THEN done[r] ELSE {}]
  /\ UNCHANGED <<registry, server, gather, age, since>>

(* Time passes, but not for a request whose collectors are out of time:     *)
(* they return and the answer is written first.                             *)
Tick ==
  /\ server # "exited"
  /\ \A r \in active : age[r] < CollectTime
  /\ age' = [r \in Requests |-> IF r \in active THEN age[r] + 1 ELSE age[r]]
  /\ since' = IF since < Interval THEN since + 1 ELSE since
  /\ UNCHANGED <<registry, server, active, gather, reply>>

(* Seeded bug: a collector is registered without asking the configuration.  *)
ForkAll == Collectors

(* main forks a registration for each collector its configuration enables.  *)
Forked == Enabled

Init ==
  /\ pending = Forked /\ registered = {}
  /\ server = "starting" /\ active = {}
  /\ snap = [r \in Requests |-> {}] /\ done = [r \in Requests |-> {}]
  /\ clash = [r \in Requests |-> FALSE]
  /\ age = [r \in Requests |-> 0]
  /\ answer = [r \in Requests |-> "none"]
  /\ carries = [r \in Requests |-> {}]
  /\ since = Interval

TimeOut == \E r \in Requests, c \in Collectors : age[r] = CollectTime /\ Finish(r, c)

Next ==
  \/ \E c \in Collectors : MustRegister(c)
  \/ Listen \/ ListenFails \/ Tick
  \/ \E r \in Requests :
       Arrive(r) \/ Respond(r) \/ \E c \in Collectors : Finish(r, c)

Spec == Init /\ [][Next]_vars

(* Time passes, a collector out of time returns, a gathered answer is       *)
(* written, a forked goroutine runs.  No request is assumed to come.        *)
FairSpec ==
  /\ Spec
  /\ WF_vars(Tick) /\ WF_vars(TimeOut)
  /\ \A r \in Requests : WF_vars(Respond(r))
  /\ \A c \in Collectors : WF_vars(MustRegister(c))
-----------------------------------------------------------------------------
(* With a write timeout longer than the collectors', no answer is lost to   *)
(* it, however many requests and registrations are under way.               *)
AnsweredInTime == Timeout < TTL => \A r \in Requests : answer[r] # "dropped"

(* A request that its client has given up runs on, so requests pile up; the *)
(* collectors' deadline bounds how many.                                    *)
InFlightBounded == Cardinality(active) <= Timeout \div Interval + 1

(* An answer of 200 holds the samples of every collector its Gather found,  *)
(* and no labels twice; any other answer holds none at all.                 *)
WholeAnswers ==
  \A r \in Requests \ active :
    IF answer[r] = "200" THEN carries[r] = snap[r] /\ ~clash[r]
    ELSE carries[r] = {}

(* An enabled collector is missing only from the answers of the first       *)
(* requests: from some moment on every 200 holds all of them.               *)
EventuallyComplete ==
  <>[][\A r \in Requests : Respond(r) /\ answer'[r] = "200" => carries'[r] = Enabled]_vars

(* Every request is answered, unless the process exits. *)
RequestAnswered ==
  \A r \in Requests : r \in active ~> r \notin active
=============================================================================
