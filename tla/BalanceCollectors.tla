------------------------- MODULE BalanceCollectors -------------------------
(***************************************************************************)
(* The wallet collector and the Base and BNB collectors, which are twins:   *)
(* a scrape asks for the balance of each address of a configured list, one  *)
(* after the other, under one context.  The two kinds differ in how they    *)
(* read the list and in how long an error status lasts.  Time is counted    *)
(* from the beginning of a scrape; only waiting for an answer takes time.   *)
(***************************************************************************)
EXTENDS Integers, Sequences

CONSTANTS
  Accounts,   \* the accounts that can be asked for
  NoAccount,  \* what is left of an entry that is empty or all space
  Balances,   \* the balances an account can have; 0 stands for no answer
  List,       \* the configured list, split at its commas
  Timeout     \* Cfg.Timeout, the time a scrape's context lasts

Entries == [account : Accounts \cup {NoAccount}, padded : BOOLEAN]

ASSUME BalanceAssumption ==
  /\ NoAccount \notin Accounts
  /\ Balances \subseteq Nat \ {0}
  /\ List \in Seq(Entries)
  /\ Timeout \in Nat \ {0}

VARIABLES
  kind,      \* which collector scrapes: "wallet" or "chain" (Base, BNB)
  pc,        \* "idle" | "client" | "loop" | "call"
  i,         \* the position of the current entry
  status,    \* the status variable of Collect
  samples,   \* the samples sent, each with the position it stands for
  conn,      \* open connections
  now,       \* time since the scrape began
  deadline,  \* when its context expires
  balance,   \* the accounts on their chain
  seen,      \* history: the balances each account had during this scrape
  failed     \* history: the positions whose call failed

vars == <<kind, pc, i, status, samples, conn, now, deadline, balance, seen, failed>>
env  == <<balance, seen>>
call == <<kind, conn, deadline>>

Statuses == {"success", "error"}

Samples == [at : DOMAIN List, label : Entries, value : Balances \cup {0},
            status : Statuses]

TypeOK ==
  /\ kind \in {"wallet", "chain"}
  /\ pc \in {"idle", "client", "loop", "call"}
  /\ i \in 1 .. Len(List) + 1
  /\ status \in Statuses
  /\ samples \subseteq Samples
  /\ conn \in 0..1
  /\ now \in Nat /\ deadline \in Nat
  /\ balance \in [Accounts -> Balances]
  /\ seen \in [Accounts -> SUBSET Balances]
  /\ failed \subseteq DOMAIN List

-----------------------------------------------------------------------------
(* A transfer changes a balance. *)
Transfer ==
  \E a \in Accounts, b \in Balances :
    /\ balance' = [balance EXCEPT ![a] = b]
    /\ seen' = [seen EXCEPT ![a] = @ \cup {b}]
    /\ UNCHANGED <<kind, pc, i, status, samples, conn, now, deadline, failed>>

(* Time passes for a call that waits, until the context expires and ends it. *)
Tick ==
  /\ pc = "call" /\ now < deadline
  /\ now' = now + 1
  /\ UNCHANGED <<kind, pc, i, status, samples, conn, deadline, env, failed>>

-----------------------------------------------------------------------------
(* Only the Base and BNB collectors trim an entry and skip a blank one. *)
Trim(e)  == [e EXCEPT !.padded = FALSE]
Label(e) == IF kind = "chain" THEN Trim(e) ELSE e
Skips(e) == kind = "chain" /\ e.account = NoAccount

(* An address is known to the node only as it is, without any space. *)
Valid(label) == label.account \in Accounts /\ ~label.padded

(* A scrape arrives.  The wallet collector needs a connection first. *)
Collect ==
  /\ pc = "idle"
  /\ kind' \in {"wallet", "chain"}
  /\ pc' = IF kind' = "wallet" THEN "client" ELSE "loop"
  /\ i' = 1 /\ status' = "success" /\ samples' = {} /\ failed' = {}
  /\ now' = 0 /\ deadline' = Timeout
  /\ seen' = [a \in Accounts |-> {balance[a]}]
  /\ UNCHANGED <<conn, balance>>

(* Without a connection the wallet collector sends nothing at all. *)
NewClient ==
  /\ pc = "client"
  /\ \/ pc' = "loop" /\ conn' = conn + 1
     \/ pc' = "idle" /\ UNCHANGED conn
  /\ UNCHANGED <<kind, i, status, samples, now, deadline, env, failed>>

(* Seeded bug: the status is reset for neither kind. *)
StickyStatus == status

(* Seeded bug: each address is given a context of its own. *)
ContextPerAddress ==
  /\ pc = "loop" /\ i <= Len(List) /\ ~Skips(List[i])
  /\ pc' = "call"
  /\ status' = IF kind = "chain" THEN "success" ELSE status
  /\ deadline' = now + Timeout
  /\ UNCHANGED <<kind, i, samples, conn, now, env, failed>>

(* The Base and BNB collectors begin every address with a fresh status, the *)
(* wallet collector keeps the one it has.                                   *)
FreshStatus == IF kind = "chain" THEN "success" ELSE status

(* The call for the next entry is made. *)
Ask ==
  /\ pc = "loop" /\ i <= Len(List) /\ ~Skips(List[i])
  /\ pc' = "call"
  /\ status' = FreshStatus
  /\ UNCHANGED <<call, i, samples, now, env, failed>>

SkipBlank ==
  /\ pc = "loop" /\ i <= Len(List) /\ Skips(List[i])
  /\ i' = i + 1
  /\ UNCHANGED <<call, pc, status, samples, now, env, failed>>

Send(value, st) ==
  /\ samples' = samples \cup {[at |-> i, label |-> Label(List[i]),
                               value |-> value, status |-> st]}
  /\ pc' = "loop" /\ i' = i + 1

(* The balance is read in time. *)
Answer ==
  /\ pc = "call" /\ now < deadline /\ Valid(Label(List[i]))
  /\ Send(balance[List[i].account], status)
  /\ UNCHANGED <<call, status, now, env, failed>>

(* Seeded bug: a failed call sends no sample. *)
ContinueOnError ==
  /\ pc' = "loop" /\ i' = i + 1
  /\ UNCHANGED samples
  /\ status' = "error" /\ failed' = failed \cup {i}

(* Seeded bug: the error is logged and the status left as it is. *)
LogOnly ==
  /\ Send(0, status)
  /\ failed' = failed \cup {i}
  /\ UNCHANGED status

(* A failed call is a sample of 0 with an error status. *)
ReportError ==
  /\ Send(0, "error")
  /\ status' = "error" /\ failed' = failed \cup {i}

(* A call fails: refused, not decoded, or for an address nobody knows. *)
Fail ==
  /\ pc = "call" /\ now < deadline
  /\ ReportError
  /\ UNCHANGED <<call, now, env>>

(* Seeded bug: a call that ran out of time is made again. *)
RetryOnTimeout ==
  /\ pc = "call" /\ now >= deadline
  /\ pc' = "loop" /\ status' = "error"
  /\ UNCHANGED <<call, i, samples, now, env, failed>>

(* The context has expired: the waiting call ends, and so does at once each *)
(* later one.  The timeout of the HTTP client is as long as the context's   *)
(* and so never ends a call before it.                                      *)
TimeOut ==
  /\ pc = "call" /\ now >= deadline
  /\ ReportError
  /\ UNCHANGED <<call, now, env>>

(* Seeded bug: the connection is never closed. *)
LeakConn == conn

(* The deferred close, for the collector that has a connection. *)
CloseConn == IF kind = "wallet" THEN conn - 1 ELSE conn

Return ==
  /\ pc = "loop" /\ i > Len(List)
  /\ pc' = "idle" /\ conn' = CloseConn
  /\ UNCHANGED <<kind, i, status, samples, now, deadline, env, failed>>

Init ==
  /\ kind = "wallet" /\ pc = "idle" /\ i = 1 /\ status = "success"
  /\ samples = {} /\ conn = 0 /\ now = 0 /\ deadline = Timeout
  /\ balance \in [Accounts -> Balances]
  /\ seen = [a \in Accounts |-> {balance[a]}]
  /\ failed = {}

Local == NewClient \/ Ask \/ SkipBlank \/ TimeOut \/ Return

Next == Transfer \/ Tick \/ Collect \/ Answer \/ Fail \/ Local

Spec == Init /\ [][Next]_vars

(* The code between two calls runs on, time passes, and an expired context  *)
(* ends a call.  No call is assumed to be answered.                         *)
FairSpec == Spec /\ WF_vars(Tick) /\ WF_vars(Local)
-----------------------------------------------------------------------------
(* A sample with status success carries a balance its account had at some   *)
(* moment of this scrape: never a default, never another account's.         *)
SuccessIsReal ==
  \A s \in samples : s.status = "success" => s.value \in seen[s.label.account]

(* What an error status means.  For Base and BNB: the call for this address *)
(* failed.  For the wallet collector: this call or an earlier one did, so a *)
(* balance that was read may be marked as an error.                         *)
ErrorMeansFailure ==
  \A s \in samples :
    s.status = "error" <=> IF kind = "chain" THEN s.at \in failed
                           ELSE \E n \in failed : n <= s.at

(* A scrape that had a connection returns with exactly one sample for each  *)
(* entry it does not skip, also when the deadline passed half way.          *)
Reported(n) == \E s \in samples : s.at = n /\ s.label = Label(List[n])

EveryEntryReported ==
  [][pc = "loop" /\ pc' = "idle" =>
       /\ \A n \in DOMAIN List : ~Skips(List[n]) => Reported(n)
       /\ \A s, t \in samples : s.at = t.at => s = t]_vars

(* The collector keeps the contract Gather relies on: however long the list *)
(* and however slow the answers, a scrape returns, no later than its        *)
(* context's time, and has taken back no sample.                            *)
Contract == INSTANCE CollectorContract WITH
  phase <- IF pc = "idle" THEN "idle" ELSE "busy",
  now   <- IF pc = "idle" THEN 0 ELSE now,
  sent  <- samples

KeepsContract == Contract!FairSpec
=============================================================================
