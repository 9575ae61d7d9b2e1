--------------------------- MODULE ApiCollectors ---------------------------
(***************************************************************************)
(* The collectors of web APIs: Venice and OpenRouter for each key of a      *)
(* list, Composio, X.AI, OpenAI, Messari, CoinGecko and Tavily for one key. *)
(* A scrape makes a fixed sequence of requests for each key, each with the  *)
(* HTTP timeout and all under one context, and reports each by itself.      *)
(* Time is counted from the beginning of a scrape; only waiting takes time. *)
(***************************************************************************)
EXTENDS Integers, Sequences

CONSTANTS
  Keys,                \* API keys
  NoKey,               \* an entry of the list that is empty or all space
  List,                \* the configured list of keys, split at its commas
  Sole,                \* the key of a collector that takes no list
  Labels,              \* account labels
  NoLabel,             \* the label of a series that names no account
  Redact,              \* Redact[key]: redactKey(key)
  Named,               \* Named[key]: the label or plan an answer names
  VeniceUsageMetrics,  \* Cfg.VeniceUsageMetrics
  HTTPTimeout,         \* Cfg.HTTPTimeout
  Timeout              \* Cfg.Timeout, the time a scrape's context lasts

ASSUME ApiAssumption ==
  /\ NoKey \notin Keys /\ Sole \in Keys /\ List \in Seq(Keys \cup {NoKey})
  /\ NoLabel \in Labels
  /\ Redact \in [Keys -> Labels] /\ Named \in [Keys -> Labels]
  /\ VeniceUsageMetrics \in BOOLEAN
  /\ HTTPTimeout \in Nat \ {0} /\ Timeout \in Nat \ {0}

VARIABLES
  kind,      \* which collector scrapes
  pc,        \* "idle" | "loop" | "call"
  n, q,      \* the position of the current key, and of its current request
  status,    \* the status variable in scope
  label,     \* the account label of the current key
  started,   \* when the current call began
  now,       \* time since the scrape began
  deadline,  \* when its context expires
  samples,   \* the samples sent, each with the request it stands for
  calls,     \* history: the calls made
  failed,    \* history: the requests that failed
  garbled    \* history: those answered with an amount that is no number

vars    == <<kind, pc, n, q, status, label, started, now, deadline, samples, calls,
             failed, garbled>>
history == <<calls, failed, garbled>>

(* The requests each collector makes for a key, named for what they report. *)
Requests ==
  [venice     |-> IF VeniceUsageMetrics THEN <<"billing", "usage">> ELSE <<"billing">>,
   openrouter |-> <<"key", "credits">>,
   composio   |-> <<"summary", "breakdown", "projects">>,
   xai        |-> <<"monthly", "daily", "limits", "prepaid">>,
   openai     |-> <<"costs">>,
   messari    |-> <<"allowance">>,
   coingecko  |-> <<"plan">>,
   tavily     |-> <<"plan">>]

Kinds    == DOMAIN Requests
Statuses == {"success", "error"}

(* A request whose answer is a list: a failed one has nothing to report.    *)
Listing == {"usage", "summary", "breakdown"}

(* A request whose answer has its amounts as text, to be parsed: one that   *)
(* is no number counts as 0.                                                *)
Textual == {"usage", "summary", "breakdown", "limits", "prepaid", "costs"}

Families == {"billing", "key", "credits", "projects", "monthly", "daily", "limits",
             "prepaid", "costs", "allowance", "plan"} \cup Listing

(* The keys one after the other; a list of keys may have blank entries.     *)
Accounts(k) == IF k \in {"venice", "openrouter"} THEN List ELSE <<Sole>>

Samples == [at : (Nat \ {0}) \X (Nat \ {0}), family : Families, label : Labels,
            status : Statuses, value : {"read", "zero"}]

TypeOK ==
  /\ kind \in Kinds
  /\ pc \in {"idle", "loop", "call"}
  /\ n \in 1 .. Len(Accounts(kind)) + 1
  /\ q \in 1 .. Len(Requests[kind])
  /\ status \in Statuses
  /\ label \in Labels
  /\ started \in Nat /\ now \in Nat /\ deadline \in Nat
  /\ samples \subseteq Samples
  /\ calls \in Nat
  /\ failed \subseteq (Nat \ {0}) \X (Nat \ {0})
  /\ garbled \subseteq (Nat \ {0}) \X (Nat \ {0})

-----------------------------------------------------------------------------
Key     == Accounts(kind)[n]
Request == Requests[kind][q]

(* Seeded bug: the HTTP client is given the timeout of the whole scrape. *)
ScrapeTimeout == Timeout

(* How long the HTTP client waits for one answer. *)
ClientTimeout == HTTPTimeout

(* Seeded bug: the request is made with a background context. *)
NoContext(t) == t + ClientTimeout

(* When a call that began at t is given up: by its client, which CoinGecko  *)
(* leaves without a timeout, or by the context.                             *)
GivenUp(t) ==
  IF kind = "coingecko" \/ deadline < t + ClientTimeout THEN deadline
  ELSE t + ClientTimeout

Tick ==
  /\ pc = "call" /\ now < GivenUp(started)
  /\ now' = now + 1
  /\ UNCHANGED <<kind, pc, n, q, status, label, started, deadline, samples, history>>

-----------------------------------------------------------------------------
Collect ==
  /\ pc = "idle"
  /\ kind' \in Kinds
  /\ pc' = "loop" /\ n' = 1 /\ q' = 1
  /\ status' = "success" /\ label' = NoLabel
  /\ started' = 0 /\ now' = 0 /\ deadline' = Timeout
  /\ samples' = {} /\ calls' = 0 /\ failed' = {} /\ garbled' = {}

(* splitCommaList leaves out a blank entry. *)
SkipBlank ==
  /\ pc = "loop" /\ n <= Len(Accounts(kind)) /\ Key = NoKey
  /\ n' = n + 1
  /\ UNCHANGED <<kind, pc, q, status, label, started, now, deadline, samples, history>>

(* Seeded bug: the status has no initial value. *)
ZeroStatus == IF Request = "billing" THEN "" ELSE status

(* Seeded bug: one status for all the requests of a key. *)
OneStatus == IF q = 1 THEN "success" ELSE status

(* Every request begins with a status of its own, but Venice's usage, which *)
(* goes on with that of the balance.                                        *)
FreshStatus == IF Request = "usage" THEN status ELSE "success"

Ask ==
  /\ pc = "loop" /\ n <= Len(Accounts(kind)) /\ Key # NoKey
  /\ pc' = "call" /\ started' = now /\ calls' = calls + 1
  /\ status' = FreshStatus
  /\ UNCHANGED <<kind, n, q, label, now, deadline, samples, failed, garbled>>

(* Seeded bug: without an answer the key has no label. *)
NoFallback == NoLabel

(* OpenRouter falls back on the redacted key; a plan that is not known is   *)
(* an empty label.                                                          *)
Fallback == IF kind = "openrouter" THEN Redact[Key] ELSE NoLabel

(* The account label: fixed by a key's first request, used by all of them.  *)
LabelOf(answered) ==
  IF q > 1 THEN label
  ELSE IF kind = "venice" THEN Redact[Key]
  ELSE IF kind \notin {"openrouter", "messari", "coingecko", "tavily"} THEN NoLabel
  ELSE IF answered THEN Named[Key] ELSE Fallback

Send(st, value, l) ==
  samples' = samples \cup {[at |-> <<n, q>>, family |-> Request, label |-> l,
                            status |-> st, value |-> value]}

(* On to the next request of the key, or to the next key. *)
Advance ==
  /\ pc' = "loop"
  /\ IF q < Len(Requests[kind]) THEN q' = q + 1 /\ UNCHANGED n
     ELSE q' = 1 /\ n' = n + 1

(* An answer in time is decoded and sent, an amount that cannot be parsed   *)
(* without a word in the status; a listing may have no rows.                *)
Answer ==
  /\ pc = "call" /\ now < GivenUp(started)
  /\ label' = LabelOf(TRUE)
  /\ \/ Send(status, "read", label') /\ UNCHANGED garbled
     \/ /\ Request \in Textual /\ Send(status, "zero", label')
        /\ garbled' = garbled \cup {<<n, q>>}
     \/ Request \in Listing /\ UNCHANGED <<samples, garbled>>
  /\ Advance
  /\ UNCHANGED <<kind, status, started, now, deadline, calls, failed>>

(* Seeded bug: after an error the rest of the key is left out. *)
ReturnOnError ==
  /\ label' = LabelOf(FALSE)
  /\ status' = "error" /\ failed' = failed \cup {<<n, q>>}
  /\ IF Request \in Listing THEN UNCHANGED samples ELSE Send("error", "zero", label')
  /\ pc' = "loop" /\ q' = 1 /\ n' = n + 1

(* A failed request is reported with the zero value of its response, which  *)
(* for a listing is no sample at all.                                       *)
ReportError ==
  /\ label' = LabelOf(FALSE)
  /\ status' = "error" /\ failed' = failed \cup {<<n, q>>}
  /\ IF Request \in Listing THEN UNCHANGED samples ELSE Send("error", "zero", label')
  /\ Advance

(* The request is refused, answered with another code than 200, or cannot   *)
(* be decoded.                                                              *)
Fail ==
  /\ pc = "call" /\ now < GivenUp(started)
  /\ ReportError
  /\ UNCHANGED <<kind, started, now, deadline, calls, garbled>>

(* Seeded bug: a request that timed out is made again. *)
RetryOnTimeout ==
  /\ pc = "call" /\ now >= GivenUp(started)
  /\ started' = now
  /\ UNCHANGED <<kind, pc, n, q, status, label, now, deadline, samples, history>>

(* A call is given up, at once if the context has expired before it.        *)
TimeOut ==
  /\ pc = "call" /\ now >= GivenUp(started)
  /\ ReportError
  /\ UNCHANGED <<kind, started, now, deadline, calls, garbled>>

Return ==
  /\ pc = "loop" /\ n > Len(Accounts(kind))
  /\ pc' = "idle"
  /\ UNCHANGED <<kind, n, q, status, label, started, now, deadline, samples, history>>

Init ==
  /\ kind = "openai" /\ pc = "idle" /\ n = 1 /\ q = 1
  /\ status = "success" /\ label = NoLabel
  /\ started = 0 /\ now = 0 /\ deadline = Timeout
  /\ samples = {} /\ calls = 0 /\ failed = {} /\ garbled = {}

Local == Ask \/ SkipBlank \/ TimeOut \/ Return

Next == Tick \/ Collect \/ Answer \/ Fail \/ Local

Spec == Init /\ [][Next]_vars

(* The code between two calls runs on, time passes, and a call that is      *)
(* given up returns.  No request is assumed to be answered.                 *)
FairSpec == Spec /\ WF_vars(Tick) /\ WF_vars(Local)
-----------------------------------------------------------------------------
(* A zero that stands for nothing read comes of a failed request, and then  *)
(* it is marked, or of an amount in the answer that is no number, and then  *)
(* it is not.  A mark says that the request itself failed or, for Venice's  *)
(* usage, the balance request of the same key did, so that usage well read  *)
(* can be marked.                                                           *)
StatusTruthful ==
  \A s \in samples :
    /\ s.value = "zero" <=> s.at \in failed \cup garbled
    /\ s.status = "error" <=> \/ s.at \in failed
                              \/ s.family = "usage" /\ <<s.at[1], 1>> \in failed

(* The labels a key can have are no other key's, and no key is listed twice. *)
LabelsOf(k) == {Redact[k], Named[k]}

Distinguishable ==
  /\ \A i, j \in DOMAIN List : List[i] = List[j] /\ List[i] # NoKey => i = j
  /\ \A k, m \in Keys : k # m => LabelsOf(k) \cap LabelsOf(m) = {}

(* With such keys no two samples of a scrape are one series, whichever of   *)
(* the requests failed and took the fallback label: one repeated series     *)
(* would cost the whole answer.                                             *)
UniqueSeries ==
  Distinguishable =>
    \A s, t \in samples :
      s.family = t.family /\ s.label = t.label /\ s.status = t.status => s = t

(* A scrape that returns has reported every request of every key, answered  *)
(* or not, but for the listings: a failed one leaves no trace.              *)
EveryRequestReported ==
  [][pc = "loop" /\ pc' = "idle" =>
       \A i \in DOMAIN Accounts(kind), j \in DOMAIN Requests[kind] :
         Accounts(kind)[i] # NoKey =>
           IF Requests[kind][j] \in Listing
           THEN <<i, j>> \in failed => \A s \in samples : s.at # <<i, j>>
           ELSE \E s \in samples : s.at = <<i, j>>]_vars

(* As many calls as fit into the deadline have their whole HTTP timeout,    *)
(* whatever the ones before them did: one that hangs does not cost the next *)
(* its answer.                                                              *)
FullTimeout ==
  pc = "call" /\ kind # "coingecko" /\ calls * HTTPTimeout <= Timeout =>
    started + HTTPTimeout <= deadline

(* The collector keeps the contract Gather relies on: however many keys and *)
(* however slow the answers, a scrape returns, no later than its context's  *)
(* time, and has taken back no sample.                                      *)
Contract == INSTANCE CollectorContract WITH
  phase <- IF pc = "idle" THEN "idle" ELSE "busy",
  now   <- IF pc = "idle" THEN 0 ELSE now,
  sent  <- samples

KeepsContract == Contract!FairSpec
=============================================================================
