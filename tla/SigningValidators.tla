------------------------- MODULE SigningValidators -------------------------
(***************************************************************************)
(* grpc.SigningValidators: the join of two paginated queries, the slashing *)
(* module's signing infos and the staking module's validators, made while  *)
(* the chain that answers them keeps committing blocks.  Every page is     *)
(* read at the height the node has when the call arrives, so the join sees *)
(* up to as many different heights as it fetched pages.                    *)
(*                                                                         *)
(* A list of the program is a set of records tagged with the page that     *)
(* delivered them: within one page the node iterates over distinct store   *)
(* keys, and the order inside a page reaches no result.  A duplicate in    *)
(* the program's list is two records with different page tags.             *)
(***************************************************************************)
EXTENDS Naturals, FiniteSets

CONSTANTS
  Validators,  \* consensus addresses; one operator account each
  ConsRank,    \* position of a signing info in its store (by consensus address)
  OperRank,    \* position of a validator in its store (by operator address)
  PageLimit    \* the node's default page size

(* Store keys are distinct and not empty: rank 0 stands for the empty key. *)
ASSUME RanksAssumption ==
  /\ ConsRank \in [Validators -> Nat \ {0}]
  /\ OperRank \in [Validators -> Nat \ {0}]
  /\ \A u, v \in Validators : u # v => /\ ConsRank[u] # ConsRank[v]
                                       /\ OperRank[u] # OperRank[v]
ASSUME PageAssumption == PageLimit \in Nat \ {0}

VARIABLES
  \* the chain, external
  staked,      \* validators present in the staking module
  jailed,      \* the jailed ones
  siginfos,    \* validators that have a signing info
  tombstoned,  \* the tombstoned ones
  \* one call of SigningValidators
  pc,          \* "idle" | "dial" | "infos" | "vals" | "join" | "done"
  key,         \* pagination key of the next request, 0 when empty
  page,        \* pages received so far
  infos,       \* what SignigInfos accumulated
  vals,        \* what Validators accumulated
  result,      \* the returned slice
  failed,      \* the call returned an error
  conn,        \* gRPC connections opened and not closed
  expired,     \* the context's deadline has passed
  \* history
  steady       \* validators continuously staked, with a signing info, since the call began

chain == <<staked, jailed, siginfos, tombstoned>>
call  == <<pc, key, page, infos, vals, result, failed, conn, expired>>
vars  == <<chain, call, steady>>

Queries == {"infos", "vals"}
Infos   == [cons : Validators, tombstoned : BOOLEAN, page : Nat]
Vals    == [cons : Validators, jailed : BOOLEAN, page : Nat]
Results == [cons : Validators, tombstoned : BOOLEAN, jailed : BOOLEAN, page : Nat]

TypeOK ==
  /\ staked \subseteq Validators
  /\ jailed \subseteq staked
  /\ siginfos \subseteq Validators
  /\ tombstoned \subseteq siginfos
  /\ pc \in {"idle", "dial", "infos", "vals", "join", "done"}
  /\ key \in Nat
  /\ page \in Nat
  /\ infos \subseteq Infos
  /\ vals \subseteq Vals
  /\ result \subseteq Results
  /\ failed \in BOOLEAN
  /\ conn \in Nat
  /\ expired \in BOOLEAN
  /\ steady \subseteq Validators

-----------------------------------------------------------------------------
(***************************************************************************)
(* The chain.  Staking and slashing as the queries expose them: a signing  *)
(* info is created when a validator first bonds and outlives the           *)
(* validator; tombstoning jails for ever; a tombstoned key does not join   *)
(* again.                                                                  *)
(***************************************************************************)
LegalChain == tombstoned \cap staked \subseteq jailed

(* A block that changes the stores; steady loses whoever left either one. *)
Commit(st, ja, si, to) ==
  /\ staked' = st /\ jailed' = ja /\ siginfos' = si /\ tombstoned' = to
  /\ steady' = steady \cap st \cap si
  /\ UNCHANGED call

Create(v) == /\ v \notin staked \cup tombstoned
             /\ Commit(staked \cup {v}, jailed, siginfos, tombstoned)

Bond(v) == /\ v \in staked \ (jailed \cup siginfos)
           /\ Commit(staked, jailed, siginfos \cup {v}, tombstoned)

Jail(v) == /\ v \in staked \ jailed
           /\ Commit(staked, jailed \cup {v}, siginfos, tombstoned)

Unjail(v) == /\ v \in jailed \ tombstoned
             /\ Commit(staked, jailed \ {v}, siginfos, tombstoned)

Tombstone(v) == /\ v \in (staked \cap siginfos) \ tombstoned
                /\ Commit(staked, jailed \cup {v}, siginfos, tombstoned \cup {v})

Remove(v) == /\ v \in staked
             /\ Commit(staked \ {v}, jailed \ {v}, siginfos, tombstoned)

Moves(v) == Create(v) \/ Bond(v) \/ Jail(v) \/ Unjail(v) \/ Tombstone(v) \/ Remove(v)

Chain == \E v \in Validators : Moves(v)

-----------------------------------------------------------------------------
(***************************************************************************)
(* Key-based pagination of a store: the keys from k up to, not including,  *)
(* next.  A page is short only when nothing follows it, and then the next  *)
(* key is empty.                                                           *)
(***************************************************************************)
PageOf(S, rank, k, next) ==
  {v \in S : rank[v] >= k /\ (next = 0 \/ rank[v] < next)}

Serves(S, rank, k, next) ==
  IF next = 0
  THEN Cardinality(PageOf(S, rank, k, next)) <= PageLimit
  ELSE next > k /\ Cardinality(PageOf(S, rank, k, next)) = PageLimit

(* Seeded bug: validators are asked for before signing infos. *)
ValidatorsFirst(p) == IF p = "dial" THEN "vals" ELSE IF p = "vals" THEN "infos" ELSE "join"

(* The order of the calls: signing infos strictly before validators. *)
NextCall(p) == IF p = "dial" THEN "infos" ELSE IF p = "infos" THEN "vals" ELSE "join"

(* Seeded bug: the loop never asks for a second page. *)
FirstPageOnly(next) == TRUE

(* The pagination loop leaves on an empty next key. *)
LastPage(next) == next = 0

(* Seeded bug: the next request resumes at the last item received. *)
TurnAtLastItem(q, next) ==
  /\ pc'  = IF LastPage(next) THEN NextCall(q) ELSE q
  /\ key' = IF LastPage(next) THEN 0 ELSE next - 1
  /\ page' = page + 1

(* With more pages to come the loop keeps the next key; a finished query   *)
(* hands over to its successor, which starts from an empty key.            *)
Turn(q, next) ==
  /\ pc'  = IF LastPage(next) THEN NextCall(q) ELSE q
  /\ key' = IF LastPage(next) THEN 0 ELSE next
  /\ page' = page + 1

(* Seeded bug: the connection is not closed. *)
LeakConn == UNCHANGED conn

(* The deferred close runs on every return after a successful dial. *)
CloseConn == conn' = conn - 1

(* Any error of a query, of UnpackInterfaces or of valConsMap is returned. *)
ReturnError ==
  /\ pc' = "done" /\ failed' = TRUE /\ result' = {}
  /\ UNCHANGED <<key, page, infos, vals, expired>>

Start ==
  /\ pc \in {"idle", "done"}
  /\ pc' = "dial" /\ key' = 0 /\ page' = 0
  /\ infos' = {} /\ vals' = {} /\ result' = {} /\ failed' = FALSE
  /\ expired' = FALSE
  /\ steady' = staked \cap siginfos
  /\ UNCHANGED <<conn, chain>>

(* Seeded bug: the close is deferred before the dial's error is looked at. *)
CloseBeforeCheck ==
  /\ pc = "dial"
  /\ \/ /\ pc' = NextCall("dial") /\ conn' = conn + 1
        /\ UNCHANGED <<key, page, infos, vals, result, failed, expired>>
     \/ ReturnError /\ CloseConn
  /\ UNCHANGED <<chain, steady>>

(* NewClient: an error leaves nothing to close. *)
NewClient ==
  /\ pc = "dial"
  /\ \/ /\ pc' = NextCall("dial") /\ conn' = conn + 1
        /\ UNCHANGED <<key, page, infos, vals, result, failed, expired>>
     \/ ReturnError /\ UNCHANGED conn
  /\ UNCHANGED <<chain, steady>>

SignigInfos ==
  /\ pc = "infos" /\ ~expired
  /\ \E next \in {0} \cup {ConsRank[v] : v \in siginfos} :
       /\ Serves(siginfos, ConsRank, key, next)
       /\ infos' = infos \cup
            {[cons |-> v, tombstoned |-> v \in tombstoned, page |-> page] :
               v \in PageOf(siginfos, ConsRank, key, next)}
       /\ Turn("infos", next)
  /\ UNCHANGED <<vals, result, failed, conn, expired, chain, steady>>

ValidatorsQuery ==
  /\ pc = "vals" /\ ~expired
  /\ \E next \in {0} \cup {OperRank[v] : v \in staked} :
       /\ Serves(staked, OperRank, key, next)
       /\ vals' = vals \cup
            {[cons |-> v, jailed |-> v \in jailed, page |-> page] :
               v \in PageOf(staked, OperRank, key, next)}
       /\ Turn("vals", next)
  /\ UNCHANGED <<infos, result, failed, conn, expired, chain, steady>>

(* Seeded bug: a failed query is retried without a look at the context. *)
RetryForever == pc \in Queries /\ UNCHANGED vars

(* Seeded bug: a query that fails begins again, and keeps the pages it had. *)
RestartQuery ==
  /\ pc \in Queries /\ key' = 0
  /\ UNCHANGED <<pc, page, infos, vals, result, failed, conn, expired, chain, steady>>

(* A query fails: transport, empty response, or the deadline. *)
QueryFails ==
  /\ pc \in Queries
  /\ ReturnError /\ CloseConn
  /\ UNCHANGED <<chain, steady>>

(* valConsMap keeps, of several entries for one address, the last written. *)
InValsMap(x) == \A y \in vals : y.cons = x.cons => y.page <= x.page

(* The join: signing infos without a validator are skipped. *)
Join ==
  /\ pc = "join"
  /\ \/ /\ result' = {[cons |-> p[1].cons, tombstoned |-> p[1].tombstoned,
                       jailed |-> p[2].jailed, page |-> p[1].page] :
                        p \in {ix \in infos \X vals : /\ ix[1].cons = ix[2].cons
                                                      /\ InValsMap(ix[2])}}
        /\ pc' = "done"
        /\ UNCHANGED <<key, page, infos, vals, failed, expired>>
     \/ ReturnError
  /\ CloseConn
  /\ UNCHANGED <<chain, steady>>

(* The deadline of the context that Collect created passes, during the call *)
(* or after it.                                                             *)
Expire ==
  /\ pc # "idle" /\ ~expired
  /\ expired' = TRUE
  /\ UNCHANGED <<pc, key, page, infos, vals, result, failed, conn, chain, steady>>

Init ==
  /\ staked \in SUBSET Validators
  /\ jailed \in SUBSET staked
  /\ siginfos \in SUBSET Validators
  /\ tombstoned \in SUBSET siginfos
  /\ LegalChain
  /\ pc = "idle" /\ key = 0 /\ page = 0
  /\ infos = {} /\ vals = {} /\ result = {}
  /\ failed = FALSE /\ conn = 0 /\ expired = FALSE
  /\ steady = {}

Step == NewClient \/ SignigInfos \/ ValidatorsQuery \/ QueryFails \/ Join

Next == Chain \/ Start \/ Step \/ Expire

Spec == Init /\ [][Next]_vars

(* The deadline passes whatever the node does, and a goroutine that can    *)
(* take a step takes it.                                                   *)
FairSpec == Spec /\ WF_vars(Expire) /\ WF_vars(Step)
-----------------------------------------------------------------------------
(* No consensus address appears twice in the returned slice, although its  *)
(* pages were read at different heights: Gather answers the whole scrape   *)
(* with an error when two samples of one family carry the same labels.     *)
UniqueSeries ==
  \A r, s \in result : r.cons = s.cons => r = s

(* A validator reported tombstoned is reported jailed.  The two labels come *)
(* from two queries at two heights, so this rests on their order: the flag  *)
(* that is never taken back is read first.                                  *)
TombstonedAreJailed ==
  \A r \in result : r.tombstoned => r.jailed

(* A successful call reports every validator that had both records all the  *)
(* time it ran, whatever joined or left between two pages.                  *)
SteadyCovered ==
  pc = "done" /\ ~failed => \A v \in steady : \E r \in result : r.cons = v

(* The connection is open exactly while the call uses it: every return,     *)
(* early or not, closes what the dial opened, over any number of scrapes.   *)
ConnectionBalance ==
  conn = IF pc \in {"infos", "vals", "join"} THEN 1 ELSE 0

(* Whatever the node answers, or fails to answer, the call returns. *)
Termination == pc = "dial" ~> pc = "done"
=============================================================================
