---------------------- MODULE SigningValidatorsProofs ----------------------
(***************************************************************************)
(* The safety of grpc.SigningValidators for every set of validators, every *)
(* page size and every order of the two stores.                            *)
(***************************************************************************)
EXTENDS SigningValidators, FiniteSetTheorems, TLAPS

Returned == {"idle", "done"}

(* The chain only ever takes a tombstone's jail away with the validator, and *)
(* what was continuously present is present.                                 *)
ChainInv ==
  /\ LegalChain
  /\ steady \subseteq staked \cap siginfos

(* What the call accumulated lies below the key it will ask for next. *)
PagesInv ==
  /\ pc = "dial" => infos = {} /\ vals = {} /\ key = 0
  /\ pc = "infos" => vals = {} /\ \A r \in infos : ConsRank[r.cons] < key
  /\ pc = "vals" => \A x \in vals : OperRank[x.cons] < key
  /\ \A r, s \in infos : r.cons = s.cons => r = s
  /\ \A x, y \in vals : x.cons = y.cons => x = y

(* A tombstone that was read is on the chain, so a later read of the        *)
(* validator sees it jailed.                                                *)
TombInv ==
  /\ \A r \in infos : r.tombstoned => r.cons \in tombstoned
  /\ \A r \in infos, x \in vals : r.tombstoned /\ x.cons = r.cons => x.jailed

(* No steady validator below the key was left out. *)
CoverInv ==
  /\ pc = "infos" =>
       \A v \in steady : ConsRank[v] < key => \E r \in infos : r.cons = v
  /\ pc \in {"vals", "join"} => \A v \in steady : \E r \in infos : r.cons = v
  /\ pc = "vals" =>
       \A v \in steady : OperRank[v] < key => \E x \in vals : x.cons = v
  /\ pc = "join" => \A v \in steady : \E x \in vals : x.cons = v

ResultInv ==
  /\ UniqueSeries
  /\ TombstonedAreJailed
  /\ SteadyCovered

IInv ==
  /\ TypeOK
  /\ ChainInv
  /\ PagesInv
  /\ TombInv
  /\ CoverInv
  /\ ResultInv
  /\ ConnectionBalance

-----------------------------------------------------------------------------
(***************************************************************************)
(* The initial states, the chain's steps, and the call's steps that fetch  *)
(* no page.                                                                *)
(***************************************************************************)
LEMMA InitIInv == Init => IInv
<1> SUFFICES ASSUME Init PROVE IInv
  OBVIOUS
<1> USE DEF Init
<1>1. TypeOK
  BY DEF TypeOK
<1>2. ChainInv /\ PagesInv /\ TombInv
  BY DEF ChainInv, LegalChain, PagesInv, TombInv
<1>3. CoverInv /\ ResultInv /\ ConnectionBalance
  BY DEF CoverInv, ResultInv, UniqueSeries, TombstonedAreJailed, SteadyCovered,
         ConnectionBalance
<1> QED BY <1>1, <1>2, <1>3 DEF IInv

(* Every block of the chain keeps what an unjailing, a tombstone or a       *)
(* removal could disturb; the call's own variables do not move.             *)
LEMMA CommitIInv ==
  ASSUME IInv, NEW st, NEW ja, NEW si, NEW to, Commit(st, ja, si, to),
         st \subseteq Validators, ja \subseteq st, si \subseteq Validators,
         to \subseteq si, to \cap st \subseteq ja, tombstoned \subseteq to
  PROVE  IInv'
<1> USE DEF Commit, call, IInv
<1>1. TypeOK'
  BY DEF TypeOK
<1>2. ChainInv'
  BY DEF ChainInv, LegalChain
<1>3. PagesInv'
  BY DEF PagesInv
<1>4. TombInv'
  BY DEF TombInv
<1>5. CoverInv'
  BY DEF CoverInv
<1>6. ResultInv'
  BY DEF ResultInv, UniqueSeries, TombstonedAreJailed, SteadyCovered
<1>7. ConnectionBalance'
  BY DEF ConnectionBalance
<1> QED BY <1>1, <1>2, <1>3, <1>4, <1>5, <1>6, <1>7

LEMMA ChainIInv == IInv /\ Chain => IInv'
<1> SUFFICES ASSUME IInv, NEW v \in Validators,
                    Create(v) \/ Bond(v) \/ Jail(v) \/ Unjail(v)
                      \/ Tombstone(v) \/ Remove(v)
             PROVE  IInv'
  BY DEF Chain, Moves
<1> USE DEF IInv, TypeOK, ChainInv, LegalChain
<1>1. CASE Create(v)
  BY <1>1, CommitIInv DEF Create
<1>2. CASE Bond(v)
  BY <1>2, CommitIInv DEF Bond
<1>3. CASE Jail(v)
  BY <1>3, CommitIInv DEF Jail
<1>4. CASE Unjail(v)
  BY <1>4, CommitIInv DEF Unjail
<1>5. CASE Tombstone(v)
  BY <1>5, CommitIInv DEF Tombstone
<1>6. CASE Remove(v)
  BY <1>6, CommitIInv DEF Remove
<1> QED BY <1>1, <1>2, <1>3, <1>4, <1>5, <1>6

LEMMA StartIInv == IInv /\ Start => IInv'
  BY DEF Start, chain, IInv, TypeOK, ChainInv, LegalChain, PagesInv, TombInv,
         CoverInv, ResultInv, UniqueSeries, TombstonedAreJailed, SteadyCovered,
         ConnectionBalance

LEMMA NewClientIInv == IInv /\ NewClient => IInv'
<1> SUFFICES ASSUME IInv, NewClient PROVE IInv'
  OBVIOUS
<1> USE DEF NewClient, NextCall, ReturnError, chain, IInv
<1>1. TypeOK'
  <2>1. conn = 0
    BY DEF ConnectionBalance
  <2>2. CASE pc' = "infos" /\ conn' = conn + 1 /\ UNCHANGED <<result, failed>>
    BY <2>1, <2>2 DEF TypeOK
  <2>3. CASE ReturnError /\ UNCHANGED conn
    BY <2>1, <2>3 DEF TypeOK
  <2> QED BY <2>2, <2>3
<1>2. ChainInv' /\ PagesInv' /\ TombInv'
  BY DEF TypeOK, ChainInv, LegalChain, PagesInv, TombInv
<1>3. CoverInv'
  <2>1. pc' \in {"infos", "done"} /\ key' = 0 /\ steady' = steady
    BY DEF PagesInv
  <2>2. \A v \in steady : ~(ConsRank[v] < 0)
    BY RanksAssumption DEF TypeOK
  <2> QED BY <2>1, <2>2 DEF CoverInv
<1>4. ResultInv' /\ ConnectionBalance'
  BY DEF ResultInv, UniqueSeries, TombstonedAreJailed, SteadyCovered, ConnectionBalance
<1> QED BY <1>1, <1>2, <1>3, <1>4

LEMMA QueryFailsIInv == IInv /\ QueryFails => IInv'
  BY DEF QueryFails, Queries, ReturnError, CloseConn, chain, IInv, TypeOK,
         ChainInv, LegalChain, PagesInv, TombInv, CoverInv, ResultInv,
         UniqueSeries, TombstonedAreJailed, SteadyCovered, ConnectionBalance

LEMMA ExpireIInv == IInv /\ Expire => IInv'
  BY DEF Expire, chain, IInv, TypeOK, ChainInv, LegalChain, PagesInv, TombInv,
         CoverInv, ResultInv, UniqueSeries, TombstonedAreJailed, SteadyCovered,
         ConnectionBalance

LEMMA StutterIInv == IInv /\ UNCHANGED vars => IInv'
  BY DEF vars, call, chain, IInv, TypeOK, ChainInv, LegalChain, PagesInv,
         TombInv, CoverInv, ResultInv, UniqueSeries, TombstonedAreJailed,
         SteadyCovered, ConnectionBalance

-----------------------------------------------------------------------------
(***************************************************************************)
(* The two queries.  A page holds the stored keys from the request's key   *)
(* up to the next key, so it meets nothing received before and leaves out  *)
(* nothing below the next key.                                             *)
(***************************************************************************)
LEMMA InfosPage ==
  ASSUME IInv, pc = "infos",
         NEW next \in {0} \cup {ConsRank[v] : v \in siginfos},
         Serves(siginfos, ConsRank, key, next),
         infos' = infos \cup
            {[cons |-> v, tombstoned |-> v \in tombstoned, page |-> page] :
               v \in PageOf(siginfos, ConsRank, key, next)}
  PROVE  /\ infos' \subseteq Infos
         /\ \A r, s \in infos' : r.cons = s.cons => r = s
         /\ \A r \in infos' : r.tombstoned => r.cons \in tombstoned
         /\ next # 0 => \A r \in infos' : ConsRank[r.cons] < next
         /\ \A v \in steady : next = 0 \/ ConsRank[v] < next =>
                              \E r \in infos' : r.cons = v
<1> DEFINE P == PageOf(siginfos, ConsRank, key, next)
           New == {[cons |-> v, tombstoned |-> v \in tombstoned, page |-> page] : v \in P}
<1> USE DEF IInv, TypeOK
<1>1. /\ P \subseteq siginfos
      /\ \A v \in P : ConsRank[v] >= key /\ (next # 0 => ConsRank[v] < next)
  BY DEF PageOf
<1>2. ASSUME NEW r \in New
      PROVE  /\ r \in Infos /\ r.cons \in P
             /\ r = [cons |-> r.cons, tombstoned |-> r.cons \in tombstoned, page |-> page]
             /\ r.tombstoned => r.cons \in tombstoned
  <2>1. PICK v \in P :
          r = [cons |-> v, tombstoned |-> v \in tombstoned, page |-> page]
    OBVIOUS
  <2>2. r.cons = v /\ (r.tombstoned <=> v \in tombstoned)
    BY <2>1
  <2>3. v \in Validators /\ (v \in tombstoned) \in BOOLEAN /\ page \in Nat
    BY <1>1
  <2> QED BY <2>1, <2>2, <2>3 DEF Infos
<1>3. /\ \A r \in infos : r.cons \in Validators
      /\ \A r \in infos : ConsRank[r.cons] < key
      /\ \A v \in Validators : ConsRank[v] \in Nat
  <2>1. \A r \in Infos : r.cons \in Validators
    BY DEF Infos
  <2>2. \A r \in infos : r.cons \in Validators
    BY <2>1
  <2>3. \A r \in infos : ConsRank[r.cons] < key
    BY DEF PagesInv
  <2> QED BY <2>2, <2>3, RanksAssumption
<1>4. infos' = infos \cup New
  OBVIOUS
<1>5. infos' \subseteq Infos
  BY <1>2, <1>4
<1>6. ASSUME NEW r \in infos', NEW s \in infos', r.cons = s.cons
      PROVE  r = s
  <2>1. CASE r \in infos /\ s \in infos
    BY <1>6, <2>1 DEF PagesInv
  <2>2. CASE r \in New /\ s \in New
    BY <1>6, <2>2
  <2>3. ~(r \in infos /\ s \in New) /\ ~(s \in infos /\ r \in New)
    BY <1>1, <1>2, <1>3, <1>6, RanksAssumption
  <2> QED BY <1>4, <2>1, <2>2, <2>3
<1>7. \A r \in infos' : r.tombstoned => r.cons \in tombstoned
  BY <1>2, <1>4 DEF TombInv
<1>8. ASSUME next # 0, NEW r \in infos' PROVE ConsRank[r.cons] < next
  BY <1>1, <1>2, <1>3, <1>4, <1>8, RanksAssumption DEF Serves
<1>9. ASSUME NEW v \in steady, next = 0 \/ ConsRank[v] < next
      PROVE  \E r \in infos' : r.cons = v
  <2>1. CASE ConsRank[v] < key
    BY <1>4, <2>1 DEF CoverInv
  <2>2. CASE ConsRank[v] >= key
    <3>1. v \in P
      BY <1>9, <2>2 DEF PageOf, ChainInv
    <3>2. [cons |-> v, tombstoned |-> v \in tombstoned, page |-> page] \in infos'
      BY <1>4, <3>1
    <3> QED BY <3>2
  <2>3. ConsRank[v] \in Nat /\ key \in Nat
    BY <1>3
  <2> QED BY <2>1, <2>2, <2>3
<1> QED BY <1>5, <1>6, <1>7, <1>8, <1>9

LEMMA ValsPage ==
  ASSUME IInv, pc = "vals",
         NEW next \in {0} \cup {OperRank[v] : v \in staked},
         Serves(staked, OperRank, key, next),
         vals' = vals \cup
            {[cons |-> v, jailed |-> v \in jailed, page |-> page] :
               v \in PageOf(staked, OperRank, key, next)}
  PROVE  /\ vals' \subseteq Vals
         /\ \A x, y \in vals' : x.cons = y.cons => x = y
         /\ \A r \in infos, x \in vals' :
              r.tombstoned /\ x.cons = r.cons => x.jailed
         /\ next # 0 => \A x \in vals' : OperRank[x.cons] < next
         /\ \A v \in steady : next = 0 \/ OperRank[v] < next =>
                              \E x \in vals' : x.cons = v
<1> DEFINE P == PageOf(staked, OperRank, key, next)
           New == {[cons |-> v, jailed |-> v \in jailed, page |-> page] : v \in P}
<1> USE DEF IInv, TypeOK
<1>1. /\ P \subseteq staked
      /\ \A v \in P : OperRank[v] >= key /\ (next # 0 => OperRank[v] < next)
  BY DEF PageOf
<1>2. ASSUME NEW x \in New
      PROVE  /\ x \in Vals /\ x.cons \in P
             /\ x = [cons |-> x.cons, jailed |-> x.cons \in jailed, page |-> page]
             /\ x.cons \in jailed => x.jailed
  <2>1. PICK v \in P : x = [cons |-> v, jailed |-> v \in jailed, page |-> page]
    OBVIOUS
  <2>2. x.cons = v /\ (x.jailed <=> v \in jailed)
    BY <2>1
  <2>3. v \in Validators /\ (v \in jailed) \in BOOLEAN /\ page \in Nat
    BY <1>1
  <2> QED BY <2>1, <2>2, <2>3 DEF Vals
<1>3. /\ \A x \in vals : x.cons \in Validators
      /\ \A x \in vals : OperRank[x.cons] < key
      /\ \A v \in Validators : OperRank[v] \in Nat
  <2>1. \A x \in Vals : x.cons \in Validators
    BY DEF Vals
  <2>2. \A x \in vals : x.cons \in Validators
    BY <2>1
  <2>3. \A x \in vals : OperRank[x.cons] < key
    BY DEF PagesInv
  <2> QED BY <2>2, <2>3, RanksAssumption
<1>4. vals' = vals \cup New
  OBVIOUS
<1>5. vals' \subseteq Vals
  BY <1>2, <1>4
<1>6. ASSUME NEW x \in vals', NEW y \in vals', x.cons = y.cons
      PROVE  x = y
  <2>1. CASE x \in vals /\ y \in vals
    BY <1>6, <2>1 DEF PagesInv
  <2>2. CASE x \in New /\ y \in New
    BY <1>2, <1>6, <2>2
  <2>3. ~(x \in vals /\ y \in New) /\ ~(y \in vals /\ x \in New)
    BY <1>1, <1>2, <1>3, <1>6, RanksAssumption
  <2> QED BY <1>4, <2>1, <2>2, <2>3
<1>7. ASSUME NEW r \in infos, NEW x \in vals', r.tombstoned, x.cons = r.cons
      PROVE  x.jailed
  <2>1. CASE x \in vals
    BY <1>7, <2>1 DEF TombInv
  <2>2. CASE x \in New
    <3>1. x.cons \in tombstoned \cap staked
      BY <1>1, <1>2, <1>7, <2>2 DEF TombInv
    <3> QED BY <1>2, <2>2, <3>1 DEF ChainInv, LegalChain
  <2> QED BY <1>4, <2>1, <2>2
<1>8. ASSUME next # 0, NEW x \in vals' PROVE OperRank[x.cons] < next
  BY <1>1, <1>2, <1>3, <1>4, <1>8, RanksAssumption DEF Serves
<1>9. ASSUME NEW v \in steady, next = 0 \/ OperRank[v] < next
      PROVE  \E x \in vals' : x.cons = v
  <2>1. CASE OperRank[v] < key
    BY <1>4, <2>1 DEF CoverInv
  <2>2. CASE OperRank[v] >= key
    <3>1. v \in P
      BY <1>9, <2>2 DEF PageOf, ChainInv
    <3>2. [cons |-> v, jailed |-> v \in jailed, page |-> page] \in vals'
      BY <1>4, <3>1
    <3> QED BY <3>2
  <2>3. OperRank[v] \in Nat /\ key \in Nat
    BY <1>3
  <2> QED BY <2>1, <2>2, <2>3
<1> QED BY <1>5, <1>6, <1>7, <1>8, <1>9

LEMMA SignigInfosIInv == IInv /\ SignigInfos => IInv'
<1> SUFFICES ASSUME IInv, pc = "infos",
                    NEW next \in {0} \cup {ConsRank[v] : v \in siginfos},
                    Serves(siginfos, ConsRank, key, next),
                    infos' = infos \cup
                      {[cons |-> v, tombstoned |-> v \in tombstoned, page |-> page] :
                         v \in PageOf(siginfos, ConsRank, key, next)},
                    Turn("infos", next),
                    UNCHANGED <<vals, result, failed, conn, expired, chain, steady>>
             PROVE  IInv'
  BY DEF SignigInfos
<1>1. /\ pc' = IF next = 0 THEN "vals" ELSE "infos"
      /\ key' = next
      /\ page' = page + 1
  BY DEF Turn, LastPage, NextCall
<1>2. /\ infos' \subseteq Infos
      /\ \A r, s \in infos' : r.cons = s.cons => r = s
      /\ \A r \in infos' : r.tombstoned => r.cons \in tombstoned
      /\ next # 0 => \A r \in infos' : ConsRank[r.cons] < next
      /\ \A v \in steady : next = 0 \/ ConsRank[v] < next =>
                           \E r \in infos' : r.cons = v
  BY InfosPage
<1>3. vals = {} /\ vals' = {}
  BY DEF IInv, PagesInv
<1>4. TypeOK'
  <2>1. key' \in Nat /\ page' \in Nat
    BY <1>1, RanksAssumption DEF IInv, TypeOK
  <2> QED BY <1>1, <1>2, <2>1 DEF IInv, TypeOK, chain
<1>5. ChainInv'
  BY DEF IInv, ChainInv, LegalChain, chain
<1>6. PagesInv'
  BY <1>1, <1>2, <1>3 DEF PagesInv
<1>7. TombInv'
  BY <1>2, <1>3 DEF TombInv, chain
<1>8. CoverInv'
  <2>1. \A v \in steady : ~(OperRank[v] < 0)
    BY RanksAssumption DEF IInv, TypeOK
  <2> QED BY <1>1, <1>2, <2>1 DEF CoverInv
<1>9. ResultInv' /\ ConnectionBalance'
  BY <1>1 DEF IInv, ResultInv, UniqueSeries, TombstonedAreJailed, SteadyCovered,
              ConnectionBalance
<1> QED BY <1>4, <1>5, <1>6, <1>7, <1>8, <1>9 DEF IInv

LEMMA ValidatorsQueryIInv == IInv /\ ValidatorsQuery => IInv'
<1> SUFFICES ASSUME IInv, pc = "vals",
                    NEW next \in {0} \cup {OperRank[v] : v \in staked},
                    Serves(staked, OperRank, key, next),
                    vals' = vals \cup
                      {[cons |-> v, jailed |-> v \in jailed, page |-> page] :
                         v \in PageOf(staked, OperRank, key, next)},
                    Turn("vals", next),
                    UNCHANGED <<infos, result, failed, conn, expired, chain, steady>>
             PROVE  IInv'
  BY DEF ValidatorsQuery
<1>1. /\ pc' = IF next = 0 THEN "join" ELSE "vals"
      /\ key' = next
      /\ page' = page + 1
  BY DEF Turn, LastPage, NextCall
<1>2. /\ vals' \subseteq Vals
      /\ \A x, y \in vals' : x.cons = y.cons => x = y
      /\ \A r \in infos, x \in vals' :
           r.tombstoned /\ x.cons = r.cons => x.jailed
      /\ next # 0 => \A x \in vals' : OperRank[x.cons] < next
      /\ \A v \in steady : next = 0 \/ OperRank[v] < next =>
                           \E x \in vals' : x.cons = v
  BY ValsPage
<1>3. TypeOK'
  <2>1. key' \in Nat /\ page' \in Nat
    BY <1>1, RanksAssumption DEF IInv, TypeOK
  <2> QED BY <1>1, <1>2, <2>1 DEF IInv, TypeOK, chain
<1>4. ChainInv'
  BY DEF IInv, ChainInv, LegalChain, chain
<1>5. PagesInv'
  BY <1>1, <1>2 DEF IInv, PagesInv
<1>6. TombInv'
  BY <1>2 DEF IInv, TombInv, chain
<1>7. CoverInv'
  BY <1>1, <1>2 DEF IInv, CoverInv
<1>8. ResultInv' /\ ConnectionBalance'
  BY <1>1 DEF IInv, ResultInv, UniqueSeries, TombstonedAreJailed, SteadyCovered,
              ConnectionBalance
<1> QED BY <1>3, <1>4, <1>5, <1>6, <1>7, <1>8 DEF IInv

-----------------------------------------------------------------------------
(***************************************************************************)
(* The join reads the accumulated lists only: what they were proved to be  *)
(* is what makes its result right.                                         *)
(***************************************************************************)
LEMMA JoinIInv == IInv /\ Join => IInv'
<1> SUFFICES ASSUME IInv, Join PROVE IInv'
  OBVIOUS
<1> DEFINE Pairs == {p \in infos \X vals : p[1].cons = p[2].cons /\ InValsMap(p[2])}
           Row(p) == [cons |-> p[1].cons, tombstoned |-> p[1].tombstoned,
                      jailed |-> p[2].jailed, page |-> p[1].page]
<1>1. CASE ReturnError
  BY <1>1 DEF Join, ReturnError, CloseConn, chain, IInv, TypeOK, ChainInv,
         LegalChain, PagesInv, TombInv, CoverInv, ResultInv, UniqueSeries,
         TombstonedAreJailed, SteadyCovered, ConnectionBalance
<1>2. CASE /\ result' = {Row(p) : p \in Pairs}
           /\ pc' = "done"
           /\ UNCHANGED <<key, page, infos, vals, failed, expired>>
  <2>1. /\ pc = "join" /\ conn' = conn - 1 /\ conn = 1
        /\ UNCHANGED <<chain, steady>>
    BY DEF Join, CloseConn, IInv, ConnectionBalance
  <2>2. ASSUME NEW r \in result'
        PROVE  \E i \in infos, x \in vals :
                 /\ i.cons = x.cons
                 /\ r = [cons |-> i.cons, tombstoned |-> i.tombstoned,
                         jailed |-> x.jailed, page |-> i.page]
    <3>1. PICK p \in Pairs : r = Row(p)
      BY <1>2
    <3>2. p[1] \in infos /\ p[2] \in vals /\ p[1].cons = p[2].cons
      OBVIOUS
    <3> QED BY <3>1, <3>2
  <2>3. \A i \in Infos : /\ i.cons \in Validators /\ i.tombstoned \in BOOLEAN
                         /\ i.page \in Nat
    BY DEF Infos
  <2>4. \A x \in Vals : x.jailed \in BOOLEAN
    BY DEF Vals
  <2>5. result' \subseteq Results
    <3> SUFFICES ASSUME NEW r \in result' PROVE r \in Results
      OBVIOUS
    <3>1. PICK i \in infos, x \in vals :
                 r = [cons |-> i.cons, tombstoned |-> i.tombstoned,
                      jailed |-> x.jailed, page |-> i.page]
      BY <2>2
    <3>2. i \in Infos /\ x \in Vals
      BY DEF IInv, TypeOK
    <3> QED BY <2>3, <2>4, <3>1, <3>2 DEF Results
  <2>6. TypeOK'
    BY <1>2, <2>1, <2>5 DEF IInv, TypeOK, chain
  <2>7. ChainInv' /\ PagesInv' /\ TombInv' /\ CoverInv'
    BY <1>2, <2>1 DEF IInv, ChainInv, LegalChain, PagesInv, TombInv, CoverInv, chain
  <2>8. UniqueSeries'
    <3> SUFFICES ASSUME NEW r \in result', NEW s \in result', r.cons = s.cons
                 PROVE  r = s
      BY DEF UniqueSeries
    <3>1. PICK i \in infos, x \in vals :
                 /\ i.cons = x.cons
                 /\ r = [cons |-> i.cons, tombstoned |-> i.tombstoned,
                         jailed |-> x.jailed, page |-> i.page]
      BY <2>2
    <3>2. PICK j \in infos, y \in vals :
                 /\ j.cons = y.cons
                 /\ s = [cons |-> j.cons, tombstoned |-> j.tombstoned,
                         jailed |-> y.jailed, page |-> j.page]
      BY <2>2
    <3>3. i.cons = j.cons /\ x.cons = y.cons
      BY <3>1, <3>2
    <3>4. i = j /\ x = y
      BY <3>3 DEF IInv, PagesInv
    <3> QED BY <3>1, <3>2, <3>4
  <2>9. TombstonedAreJailed'
    <3> SUFFICES ASSUME NEW r \in result', r.tombstoned PROVE r.jailed
      BY DEF TombstonedAreJailed
    <3>1. PICK i \in infos, x \in vals :
                 /\ i.cons = x.cons
                 /\ r = [cons |-> i.cons, tombstoned |-> i.tombstoned,
                         jailed |-> x.jailed, page |-> i.page]
      BY <2>2
    <3>2. i.tombstoned /\ r.jailed = x.jailed
      BY <3>1
    <3> QED BY <3>1, <3>2 DEF IInv, TombInv
  <2>10. SteadyCovered'
    <3> SUFFICES ASSUME NEW v \in steady PROVE \E r \in result' : r.cons = v
      BY <2>1 DEF SteadyCovered
    <3>1. PICK i \in infos : i.cons = v
      BY <2>1 DEF IInv, CoverInv
    <3>2. PICK x \in vals : x.cons = v
      BY <2>1 DEF IInv, CoverInv
    <3>3. InValsMap(x)
      <4> SUFFICES ASSUME NEW y \in vals, y.cons = x.cons PROVE y.page <= x.page
        BY DEF InValsMap
      <4>1. y = x
        BY DEF IInv, PagesInv
      <4>2. x.page \in Nat
        BY DEF IInv, TypeOK, Vals
      <4> QED BY <4>1, <4>2
    <3>4. <<i, x>> \in Pairs
      BY <3>1, <3>2, <3>3
    <3>5. Row(<<i, x>>).cons = v
      BY <3>1
    <3> QED BY <1>2, <3>4, <3>5
  <2>11. ConnectionBalance'
    BY <1>2, <2>1 DEF ConnectionBalance
  <2> QED BY <2>6, <2>7, <2>8, <2>9, <2>10, <2>11 DEF IInv, ResultInv
<1> QED BY <1>1, <1>2 DEF Join

LEMMA NextIInv == IInv /\ [Next]_vars => IInv'
<1> SUFFICES ASSUME IInv, [Next]_vars PROVE IInv'
  OBVIOUS
<1>1. CASE Chain
  BY <1>1, ChainIInv
<1>2. CASE Start
  BY <1>2, StartIInv
<1>3. CASE NewClient
  BY <1>3, NewClientIInv
<1>4. CASE SignigInfos
  BY <1>4, SignigInfosIInv
<1>5. CASE ValidatorsQuery
  BY <1>5, ValidatorsQueryIInv
<1>6. CASE QueryFails
  BY <1>6, QueryFailsIInv
<1>7. CASE Join
  BY <1>7, JoinIInv
<1>8. CASE Expire
  BY <1>8, ExpireIInv
<1>9. CASE UNCHANGED vars
  BY <1>9, StutterIInv
<1> QED BY <1>1, <1>2, <1>3, <1>4, <1>5, <1>6, <1>7, <1>8, <1>9 DEF Next, Step

-----------------------------------------------------------------------------
(* The inductive invariant holds in every reachable state. *)
THEOREM Safety == Spec => []IInv
<1> QED BY InitIInv, NextIInv, PTL DEF Spec

(* Type correctness of the call's and the chain's variables. *)
THEOREM TypeCorrect == Spec => []TypeOK
<1>1. IInv => TypeOK
  BY DEF IInv
<1> QED BY <1>1, Safety, PTL

(* SigningValidators never returns two rows for one consensus address, for  *)
(* any number of validators, any page size and any chain activity between   *)
(* two pages, so the collector never emits a duplicate series.              *)
THEOREM NoDuplicateRows == Spec => []UniqueSeries
<1>1. IInv => UniqueSeries
  BY DEF IInv, ResultInv
<1> QED BY <1>1, Safety, PTL

(* Signing infos are read before validators, so a row whose tombstoned flag *)
(* is set has its jailed flag set.                                          *)
THEOREM TombstonedRowsAreJailed == Spec => []TombstonedAreJailed
<1>1. IInv => TombstonedAreJailed
  BY DEF IInv, ResultInv
<1> QED BY <1>1, Safety, PTL

(* A call that succeeds reports every validator that was staked and had a   *)
(* signing info from its start to its end.                                  *)
THEOREM SteadyRowsCovered == Spec => []SteadyCovered
<1>1. IInv => SteadyCovered
  BY DEF IInv, ResultInv
<1> QED BY <1>1, Safety, PTL

(* Every return of SigningValidators closes exactly the connection it       *)
(* opened.                                                                  *)
THEOREM ConnectionsBalanced == Spec => []ConnectionBalance
<1>1. IInv => ConnectionBalance
  BY DEF IInv
<1> QED BY <1>1, Safety, PTL

-----------------------------------------------------------------------------
(***************************************************************************)
(* How long a call can go on before its deadline.  A page that is followed  *)
(* by another is full, so the next key lies beyond at least one more store  *)
(* key: pagination moves on, whatever is created, bonded or removed between *)
(* two pages, and ends if the store keys are finitely many.                 *)
(***************************************************************************)

(* The store keys that pages from k on can still hold. *)
KeysFrom(rank, k) == {v \in Validators : rank[v] >= k}

(* The steps a call can still take. *)
StepsLeft ==
  IF pc = "dial" THEN 2 * Cardinality(Validators) + 4
  ELSE IF pc = "infos"
       THEN Cardinality(KeysFrom(ConsRank, key)) + Cardinality(Validators) + 3
  ELSE IF pc = "vals" THEN Cardinality(KeysFrom(OperRank, key)) + 2
  ELSE IF pc = "join" THEN 1 ELSE 0

LEMMA KeysFinite ==
  ASSUME IsFiniteSet(Validators), NEW rank, NEW k
  PROVE  /\ IsFiniteSet(KeysFrom(rank, k))
         /\ Cardinality(KeysFrom(rank, k)) \in Nat /\ Cardinality(Validators) \in Nat
         /\ Cardinality(KeysFrom(rank, k)) <= Cardinality(Validators)
<1>1. KeysFrom(rank, k) \subseteq Validators
  BY DEF KeysFrom
<1> QED BY <1>1, FS_Subset, FS_CardinalityType

(* A full page leaves fewer keys to come. *)
LEMMA PageMovesOn ==
  ASSUME IsFiniteSet(Validators), NEW S \in SUBSET Validators,
         NEW rank \in [Validators -> Nat \ {0}], NEW k \in Nat,
         NEW next \in Nat \ {0}, Serves(S, rank, k, next)
  PROVE  Cardinality(KeysFrom(rank, next)) < Cardinality(KeysFrom(rank, k))
<1>1. next > k /\ Cardinality(PageOf(S, rank, k, next)) = PageLimit
  BY DEF Serves
<1>2. PageOf(S, rank, k, next) # {}
  BY <1>1, PageAssumption, FS_EmptySet
<1>3. PICK v \in S : rank[v] >= k /\ rank[v] < next
  BY <1>2 DEF PageOf
<1>4. \A u \in Validators : rank[u] \in Nat
  OBVIOUS
<1>5. KeysFrom(rank, next) \subseteq KeysFrom(rank, k)
  BY <1>1, <1>4 DEF KeysFrom
<1>6. v \in KeysFrom(rank, k) /\ v \notin KeysFrom(rank, next)
  BY <1>3, <1>4 DEF KeysFrom
<1> QED BY <1>5, <1>6, KeysFinite, FS_Subset

LEMMA StepsBounded ==
  ASSUME IsFiniteSet(Validators)
  PROVE  StepsLeft \in 0 .. 2 * Cardinality(Validators) + 4
BY KeysFinite DEF StepsLeft

LEMMA StepUsesUp ==
  ASSUME IsFiniteSet(Validators), IInv, Step
  PROVE  StepsLeft' < StepsLeft
<1> DEFINE n == Cardinality(Validators)
           a == Cardinality(KeysFrom(ConsRank, key))
           b == Cardinality(KeysFrom(OperRank, key))
<1>1. n \in Nat /\ a \in Nat /\ b \in Nat
  BY KeysFinite
<1>2. TypeOK
  BY DEF IInv
<1>3. CASE NewClient
  <2>1. pc = "dial" /\ key' = key /\ pc' \in {"infos", "done"}
    BY <1>3 DEF NewClient, NextCall, ReturnError
  <2>2. a <= n
    BY KeysFinite
  <2>3. StepsLeft = 2 * n + 4
    BY <2>1 DEF StepsLeft
  <2>4. StepsLeft' \in {a + n + 3, 0}
    BY <2>1 DEF StepsLeft
  <2> HIDE DEF n, a
  <2> QED BY <2>2, <2>3, <2>4, <1>1
<1>4. CASE SignigInfos
  <2>1. PICK next \in {0} \cup {ConsRank[v] : v \in siginfos} :
          Serves(siginfos, ConsRank, key, next) /\ Turn("infos", next)
    BY <1>4 DEF SignigInfos
  <2>2. StepsLeft = a + n + 3
    BY <1>4 DEF SignigInfos, StepsLeft
  <2>3. CASE next = 0
    <3>1. pc' = "vals" /\ key' = 0
      BY <2>1, <2>3 DEF Turn, LastPage, NextCall
    <3>2. StepsLeft' = Cardinality(KeysFrom(OperRank, 0)) + 2
      BY <3>1 DEF StepsLeft
    <3>3. Cardinality(KeysFrom(OperRank, 0)) \in Nat /\ Cardinality(KeysFrom(OperRank, 0)) <= n
      BY KeysFinite
    <3> HIDE DEF n, a
    <3> QED BY <2>2, <3>2, <3>3, <1>1
  <2>4. CASE next # 0
    <3>1. pc' = "infos" /\ key' = next
      BY <2>1, <2>4 DEF Turn, LastPage
    <3>2. next \in Nat \ {0}
      BY <2>1, <2>4, <1>2, RanksAssumption DEF TypeOK
    <3>3. Cardinality(KeysFrom(ConsRank, next)) < a
      BY <2>1, <3>2, <1>2, RanksAssumption, PageMovesOn DEF TypeOK
    <3>4. StepsLeft' = Cardinality(KeysFrom(ConsRank, next)) + n + 3
      BY <3>1 DEF StepsLeft
    <3>5. Cardinality(KeysFrom(ConsRank, next)) \in Nat
      BY KeysFinite
    <3> HIDE DEF n, a
    <3> QED BY <2>2, <3>3, <3>4, <3>5, <1>1
  <2> QED BY <2>3, <2>4
<1>5. CASE ValidatorsQuery
  <2>1. PICK next \in {0} \cup {OperRank[v] : v \in staked} :
          Serves(staked, OperRank, key, next) /\ Turn("vals", next)
    BY <1>5 DEF ValidatorsQuery
  <2>2. StepsLeft = b + 2
    BY <1>5 DEF ValidatorsQuery, StepsLeft
  <2>3. CASE next = 0
    <3>1. pc' = "join"
      BY <2>1, <2>3 DEF Turn, LastPage, NextCall
    <3>2. StepsLeft' = 1
      BY <3>1 DEF StepsLeft
    <3> HIDE DEF b
    <3> QED BY <2>2, <3>2, <1>1
  <2>4. CASE next # 0
    <3>1. pc' = "vals" /\ key' = next
      BY <2>1, <2>4 DEF Turn, LastPage
    <3>2. next \in Nat \ {0}
      BY <2>1, <2>4, <1>2, RanksAssumption DEF TypeOK
    <3>3. Cardinality(KeysFrom(OperRank, next)) < b
      BY <2>1, <3>2, <1>2, RanksAssumption, PageMovesOn DEF TypeOK
    <3>4. StepsLeft' = Cardinality(KeysFrom(OperRank, next)) + 2
      BY <3>1 DEF StepsLeft
    <3>5. Cardinality(KeysFrom(OperRank, next)) \in Nat
      BY KeysFinite
    <3> HIDE DEF b
    <3> QED BY <2>2, <3>3, <3>4, <3>5, <1>1
  <2> QED BY <2>3, <2>4
<1>6. CASE QueryFails \/ Join
  <2>1. pc \in {"infos", "vals", "join"} /\ pc' = "done"
    BY <1>6 DEF QueryFails, Join, Queries, ReturnError
  <2>2. StepsLeft' = 0
    BY <2>1 DEF StepsLeft
  <2>3. StepsLeft \in {a + n + 3, b + 2, 1}
    BY <2>1 DEF StepsLeft
  <2> HIDE DEF n, a, b
  <2> QED BY <2>2, <2>3, <1>1
<1> QED BY <1>3, <1>4, <1>5, <1>6 DEF Step

(* A call takes at most two steps a validator and four, one page after the  *)
(* other, however the chain changes between them and also if no deadline    *)
(* ever passes.                                                             *)
BoundedCall ==
  /\ [](StepsLeft \in 0 .. 2 * Cardinality(Validators) + 4)
  /\ [][Step => StepsLeft' < StepsLeft]_vars
  /\ [][pc \notin Returned => Step \/ StepsLeft' = StepsLeft]_vars

(* Every call is bounded so: StepsLeft counts what is left of its loop.      *)
THEOREM CallBounded == IsFiniteSet(Validators) => (Spec => BoundedCall)
<1> SUFFICES ASSUME IsFiniteSet(Validators) PROVE Spec => BoundedCall
  OBVIOUS
<1>1. IInv /\ [Next]_vars => [Step => StepsLeft' < StepsLeft]_vars
  BY StepUsesUp
<1>2. [Next]_vars => [pc \notin Returned => Step \/ StepsLeft' = StepsLeft]_vars
  <2> SUFFICES ASSUME Next, pc \notin Returned, ~Step PROVE StepsLeft' = StepsLeft
    OBVIOUS
  <2>1. UNCHANGED <<pc, key>>
    BY DEF Next, Returned, Start, Expire, Chain, Moves, Create, Bond, Jail, Unjail, Tombstone,
           Remove, Commit, call
  <2> QED BY <2>1 DEF StepsLeft, KeysFrom
<1>3. StepsLeft \in 0 .. 2 * Cardinality(Validators) + 4
  BY StepsBounded
<1> QED BY <1>1, <1>2, <1>3, Safety, PTL DEF Spec, BoundedCall
=============================================================================
