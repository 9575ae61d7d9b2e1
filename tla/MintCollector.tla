--------------------------- MODULE MintCollector ---------------------------
(***************************************************************************)
(* The mint collector: over one gRPC connection and under one context a     *)
(* scrape asks for the inflation, the annual provisions and the supply,     *)
(* each answered by the chain at its height of that moment.  The connection *)
(* is kept alive as Config.GRPCConn says: a server silent for PingTime is   *)
(* pinged, and given up if the ping is not acknowledged within AckTime.     *)
(* Time is counted in seconds; only waiting for an answer takes time.       *)
(***************************************************************************)
EXTENDS Integers, Sequences

CONSTANTS
  Timeout,    \* Cfg.Timeout, in seconds
  MinPing,    \* the shortest PingTime the gRPC library grants, in seconds
  MaxHeight   \* bound: the chain stops at this height

ASSUME MintAssumption ==
  Timeout \in Nat \ {0} /\ MinPing \in Nat \ {0} /\ MaxHeight \in Nat

VARIABLES
  pc,       \* "idle" | "client" | "loop" | "call"
  q,        \* the position of the current query
  samples,  \* the samples sent, in order
  conn,     \* open connections
  link,     \* what is under the connection: "down" | "up" | "lost" to the keepalive
  silent,   \* time since the server was last heard
  now,      \* time since the scrape began
  height,   \* the height of the chain
  base,     \* history: its height when the scrape began
  failed    \* history: the queries that gave no value

vars == <<pc, q, samples, conn, link, silent, now, height, base, failed>>
wire == <<conn, link, silent>>
env  == <<height, base>>

Families == <<"inflation", "annual_provisions", "total_supply">>

(* A value is known by the height it was read at; 0 stands for none. *)
Samples == [family : {"inflation", "annual_provisions", "total_supply"},
            status : {"success", "error"}, value : Nat]

TypeOK ==
  /\ pc \in {"idle", "client", "loop", "call"}
  /\ q \in 1 .. Len(Families) + 1
  /\ samples \in Seq(Samples)
  /\ conn \in 0..1
  /\ link \in {"down", "up", "lost"}
  /\ silent \in Nat /\ now \in Nat
  /\ height \in Nat \ {0} /\ base \in Nat \ {0}
  /\ failed \subseteq 1 .. Len(Families)

-----------------------------------------------------------------------------
(* time.Duration(c.Timeout): the number of seconds, taken as nanoseconds.   *)
KeepaliveTime == Timeout \div 1000000000

(* The library raises the time between pings to its minimum, and leaves the *)
(* time it waits for an acknowledgement as it is.                           *)
PingTime == IF KeepaliveTime > MinPing THEN KeepaliveTime ELSE MinPing
AckTime  == KeepaliveTime

NewBlock ==
  /\ height < MaxHeight /\ height' = height + 1
  /\ UNCHANGED <<pc, q, samples, wire, now, base, failed>>

(* Time passes for a query that waits, up to the next thing that is due.    *)
Tick ==
  /\ pc = "call" /\ now < Timeout /\ now' = now + 1
  /\ IF link = "up" THEN silent < PingTime + AckTime /\ silent' = silent + 1
     ELSE UNCHANGED silent
  /\ UNCHANGED <<pc, q, samples, conn, link, env, failed>>

-----------------------------------------------------------------------------
Collect ==
  /\ pc = "idle" /\ pc' = "client"
  /\ q' = 1 /\ samples' = <<>> /\ now' = 0
  /\ base' = height /\ failed' = {}
  /\ UNCHANGED <<wire, height>>

(* Without a connection nothing is sent.  One that is made is not yet used. *)
NewClient ==
  /\ pc = "client"
  /\ \/ pc' = "loop" /\ conn' = conn + 1
     \/ pc' = "idle" /\ UNCHANGED conn
  /\ link' = "down" /\ silent' = 0
  /\ UNCHANGED <<q, samples, now, env, failed>>

Ask ==
  /\ pc = "loop" /\ q <= Len(Families)
  /\ pc' = "call"
  /\ UNCHANGED <<q, samples, wire, now, env, failed>>

(* A query that finds no link dials first. *)
Dial ==
  /\ pc = "call" /\ link # "up" /\ now < Timeout
  /\ link' = "up" /\ silent' = 0
  /\ UNCHANGED <<pc, q, samples, conn, now, env, failed>>

(* The server acknowledges a ping, and goes on with the query. *)
Acknowledge ==
  /\ pc = "call" /\ link = "up" /\ silent >= PingTime
  /\ silent' = 0
  /\ UNCHANGED <<pc, q, samples, conn, link, now, env, failed>>

Send(st, v) ==
  /\ samples' = Append(samples, [family |-> Families[q], status |-> st, value |-> v])
  /\ pc' = "loop" /\ q' = q + 1

(* Seeded bug: the error is logged and the status left as it is. *)
LogOnly ==
  /\ Send("success", 0)
  /\ failed' = failed \cup {q}

(* Seeded bug: after an error the scrape is over. *)
GiveUp ==
  /\ samples' = Append(samples, [family |-> Families[q], status |-> "error", value |-> 0])
  /\ pc' = "loop" /\ q' = Len(Families) + 1
  /\ failed' = failed \cup {q}

(* A query without a value is a sample of 0 with an error status. *)
ReportError ==
  /\ Send("error", 0)
  /\ failed' = failed \cup {q}

(* The server answers in time, with the value at its present height or with *)
(* something that is no number.                                             *)
Answer ==
  /\ pc = "call" /\ link = "up" /\ now < Timeout
  /\ \/ Send("success", height) /\ UNCHANGED failed
     \/ ReportError
  /\ silent' = 0
  /\ UNCHANGED <<conn, link, now, env>>

(* The dial or the query is refused. *)
Refuse ==
  /\ pc = "call" /\ now < Timeout
  /\ ReportError
  /\ silent' = IF link = "up" THEN 0 ELSE silent
  /\ UNCHANGED <<conn, link, now, env>>

(* A ping was not acknowledged in time: the link is closed, and the query   *)
(* that waits on it fails.  The next one dials again.                       *)
LinkLost ==
  /\ pc = "call" /\ link = "up" /\ silent >= PingTime + AckTime
  /\ link' = "lost"
  /\ ReportError
  /\ UNCHANGED <<conn, silent, now, env>>

(* Seeded bug: a query that ran out of time is made again. *)
RetryOnTimeout ==
  /\ pc = "call" /\ now >= Timeout
  /\ pc' = "loop"
  /\ UNCHANGED <<q, samples, wire, now, env, failed>>

(* The context has expired: the waiting query fails, and the later ones do  *)
(* at once.                                                                 *)
TimeOut ==
  /\ pc = "call" /\ now >= Timeout
  /\ ReportError
  /\ UNCHANGED <<wire, now, env>>

(* Seeded bug: the connection is never closed. *)
LeakConn == conn

(* The deferred close. *)
CloseConn == conn - 1

Return ==
  /\ pc = "loop" /\ q > Len(Families)
  /\ pc' = "idle" /\ conn' = CloseConn
  /\ UNCHANGED <<q, samples, link, silent, now, env, failed>>

Init ==
  /\ pc = "idle" /\ q = 1 /\ samples = <<>> /\ failed = {}
  /\ conn = 0 /\ link = "down" /\ silent = 0 /\ now = 0
  /\ height = 1 /\ base = 1

Local == NewClient \/ Ask \/ LinkLost \/ TimeOut \/ Return

Next ==
  NewBlock \/ Tick \/ Collect \/ Dial \/ Acknowledge \/ Answer \/ Refuse \/ Local

Spec == Init /\ [][Next]_vars

(* The code between two queries runs on, time passes, and an unanswered     *)
(* ping and an expired context end a query.  No query is assumed to be      *)
(* answered.                                                                *)
FairSpec == Spec /\ WF_vars(Tick) /\ WF_vars(Local)
-----------------------------------------------------------------------------
Successes == {i \in DOMAIN samples : samples[i].status = "success"}

(* The status says whether the query of the family itself gave a value, and *)
(* such a value is the chain's at a height of this scrape; the families may *)
(* come from different blocks, but never a later family from an older one.  *)
SamplesTruthful ==
  /\ \A i \in DOMAIN samples : samples[i].status = "error" <=> i \in failed
  /\ \A i \in Successes : samples[i].value \in base .. height
  /\ \A i, j \in Successes : i < j => samples[i].value <= samples[j].value

(* A scrape that had a connection sends each family once, in order, also    *)
(* when a query fails, its answer is no number, the link is lost or the     *)
(* deadline passes half way: a family sent twice would cost the whole page. *)
OneSampleEach ==
  [][pc = "loop" /\ pc' = "idle" =>
       /\ Len(samples) = Len(Families)
       /\ \A i \in DOMAIN samples : samples[i].family = Families[i]]_vars

(* The collector keeps the contract Gather relies on: however silent the    *)
(* server, a scrape returns, no later than its context's time, and has      *)
(* taken back no sample.                                                    *)
Contract == INSTANCE CollectorContract WITH
  phase <- IF pc = "idle" THEN "idle" ELSE "busy",
  now   <- IF pc = "idle" THEN 0 ELSE now,
  sent  <- {samples[i] : i \in DOMAIN samples}

KeepsContract == Contract!FairSpec

(* GRPC_TIMEOUT_SECONDS is in seconds: a link is given up to the keepalive  *)
(* only after a ping has waited that many seconds for its acknowledgement.  *)
KeepaliveInSeconds == link = "lost" => silent >= PingTime + Timeout
=============================================================================
