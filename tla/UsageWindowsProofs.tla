------------------------- MODULE UsageWindowsProofs -------------------------
(***************************************************************************)
(* Proofs about UsageWindows, for any tools, any length of days and months *)
(* and any usage.  The inductive invariant says which window each request  *)
(* asks for, by the time it was computed at, and that a sample keeps what  *)
(* it was made from: nothing used later reaches a window that has ended.   *)
(***************************************************************************)
EXTENDS UsageWindows, FiniteSetTheorems, SequenceTheorems, TLAPS

(* A window that was computed, by the request that asks for it. *)
WindowOf(request, now) ==
  CASE request = "costs" -> Buckets(now)
    [] request = "daily" -> DayToDate(now)
    [] OTHER             -> MonthToDate(now)

ControlInv ==
  /\ usage \in Seq(Tools \cup {None})
  /\ kind \in DOMAIN Requests
  /\ pc \in {"idle", "loop", "call"}
  /\ q \in 1 .. Len(Requests[kind]) + 1
  /\ pc = "call" => q <= Len(Requests[kind])
  /\ asked \in 0 .. Clock

(* Composio's window is the same for both its requests, the others compute  *)
(* one for each.                                                            *)
WindowInv ==
  /\ pc = "call" => window = WindowOf(Request, asked)
  /\ kind = "composio" /\ pc # "idle" => window = MonthToDate(asked)

(* What a row's sample is made of, and what of it could not be read. *)
Shown(rows, illegible, w) ==
  \E shown \in SUBSET Active(w) : \E garbled \in SUBSET shown :
    /\ shown = Active(w) \/ Cardinality(shown) = BreakdownLimit
    /\ rows = [tool \in shown |-> ParseFloatOrZero(Used(tool, w), tool \notin garbled)]
    /\ illegible = UsedOf(garbled, w)

(* A total is what was used, but for what of the answer could not be read.  *)
Adds(amount, illegible, w) ==
  amount \in Nat /\ illegible \in Nat /\ amount + illegible = Total(w)

(* Samples were asked for before they were sent; Composio's share a window. *)
SamplesInv ==
  \A s \in samples :
    /\ s.asked \in 0 .. s.sent /\ s.sent \in 0 .. Clock
    /\ s.request \in {"summary", "breakdown"} => kind = "composio" /\ s.asked = asked
    /\ s.request = "summary" => Adds(s.amount, s.illegible, MonthToDate(s.asked))
    /\ s.request = "breakdown" => Shown(s.rows, s.illegible, MonthToDate(s.asked))

IInv == ControlInv /\ WindowInv /\ SamplesInv /\ PeriodCovered

-----------------------------------------------------------------------------
(***************************************************************************)
(* The sum of a function.  The library's fold is a recursive function; its  *)
(* equation has a solution here, the number of ticks, and no second one: a  *)
(* smallest set on which two differ would be one element larger than a set  *)
(* on which they agree.                                                     *)
(***************************************************************************)

(* A set of subsets of a finite set has a smallest one. *)
LEMMA SmallestSubset ==
  ASSUME NEW D, IsFiniteSet(D), NEW C \in SUBSET (SUBSET D), C # {}
  PROVE  \E s \in C : \A r \in C : r \subseteq s => r = s
<1>1. IsWellFoundedOn(StrictSubsetOrdering(D), SUBSET D)
  BY FS_StrictSubsetOrderingWellFounded, FS_FiniteSubsetsOfFinite
<1>2. PICK s \in C : \A r \in C : <<r, s>> \notin StrictSubsetOrdering(D)
  BY <1>1, WFMin
<1>3. \A r \in C : r \subseteq s => r = s
  BY <1>2 DEF StrictSubsetOrdering
<1> QED BY <1>3

(* What is used of the tools of a set is, tool by tool, what is used of     *)
(* them all.                                                                *)
LEMMA SumOfUses ==
  ASSUME NEW D, IsFiniteSet(D), NEW T, IsFiniteSet(T), NEW u
  PROVE  SumFunction([x \in D |-> Cardinality({t \in T : u[t] = x})])
           = Cardinality({t \in T : u[t] \in D})
<1> DEFINE f == [x \in D |-> Cardinality({t \in T : u[t] = x})]
           some(s) == CHOOSE x \in s : TRUE
           next(g) == [s \in SUBSET D |-> IF s = {} THEN 0
                                          ELSE f[some(s)] + g[s \ {some(s)}]]
           count == [s \in SUBSET D |-> Cardinality({t \in T : u[t] \in s})]
           h == CHOOSE g : g = next(g)
<1>1. SumFunction(f) = h[D]
  BY DEF SumFunction, SumFunctionOnSet, FoldFunctionOnSet, MapThenFoldSet
<1>2. \A s \in SUBSET D : s # {} => some(s) \in s /\ s \ {some(s)} \in SUBSET D
  OBVIOUS
<1>3. count[{}] = 0
  BY FS_EmptySet
<1>4. ASSUME NEW s \in SUBSET D, s # {}
      PROVE  count[s] = f[some(s)] + count[s \ {some(s)}]
  <2> DEFINE A == {t \in T : u[t] = some(s)}
             B == {t \in T : u[t] \in s \ {some(s)}}
  <2>1. IsFiniteSet(A) /\ IsFiniteSet(B)
    BY FS_Subset
  <2>2. A \cup B = {t \in T : u[t] \in s} /\ A \cap B = {}
    BY <1>2, <1>4
  <2>3. Cardinality(A \cup B) = Cardinality(A) + Cardinality(B)
    <3>1. /\ Cardinality(A \cup B)
               = Cardinality(A) + Cardinality(B) - Cardinality(A \cap B)
          /\ Cardinality(A) \in Nat /\ Cardinality(B) \in Nat
      BY <2>1, FS_Union, FS_CardinalityType
    <3>2. Cardinality(A \cap B) = 0
      BY <2>2, FS_EmptySet
    <3> HIDE DEF A, B
    <3> QED BY <3>1, <3>2
  <2>4. /\ count[s] = Cardinality(A \cup B)
        /\ f[some(s)] = Cardinality(A)
        /\ count[s \ {some(s)}] = Cardinality(B)
    BY <1>2, <1>4, <2>2
  <2> QED BY <2>3, <2>4
<1> HIDE DEF f, some
<1>5. count = next(count)
  BY <1>3, <1>4
<1> HIDE DEF count
<1>6. h = next(h)
  BY <1>5
<1>7. \A s \in SUBSET D : h[s] = count[s]
  <2> DEFINE C == {s \in SUBSET D : h[s] # count[s]}
  <2> SUFFICES ASSUME C # {} PROVE FALSE
    OBVIOUS
  <2>1. PICK s \in C : \A r \in C : r \subseteq s => r = s
    <3>1. C \in SUBSET (SUBSET D)
      OBVIOUS
    <3> HIDE DEF C
    <3> QED BY <3>1, SmallestSubset
  <2>2. s # {}
    BY <1>3, <1>6
  <2>3. s \ {some(s)} \notin C
    BY <1>2, <2>1, <2>2
  <2>4. h[s \ {some(s)}] = count[s \ {some(s)}]
    BY <1>2, <2>2, <2>3
  <2>5. h[s] = f[some(s)] + h[s \ {some(s)}]
    BY <1>6, <2>2
  <2> QED BY <1>4, <2>2, <2>4, <2>5
<1>8. count[D] = Cardinality({t \in T : u[t] \in D})
  BY DEF count
<1> QED BY <1>1, <1>7, <1>8 DEF f

-----------------------------------------------------------------------------
(***************************************************************************)
(* Windows.                                                                 *)
(***************************************************************************)

(* When the usage of a window is counted, it is a finite set of ticks.      *)
LEMMA TicksFinite ==
  ASSUME usage \in Seq(Tools \cup {None}), NEW w
  PROVE  IsFiniteSet(Ticks(w))
<1>1. DOMAIN usage = 1 .. Clock /\ Clock \in Nat
  BY LenProperties DEF Clock
<1>2. IsFiniteSet(DOMAIN usage)
  BY <1>1, FS_Interval
<1> QED BY <1>2, FS_Subset DEF Ticks

(* A wider window has no less in it. *)
LEMMA TotalMonotone ==
  ASSUME usage \in Seq(Tools \cup {None}), NEW v, NEW w, Ticks(v) \subseteq Ticks(w)
  PROVE  Total(v) <= Total(w)
<1> DEFINE used(x) == {t \in Ticks(x) : usage[t] # None}
<1>1. IsFiniteSet(used(w))
  BY TicksFinite, FS_Subset
<1>2. used(v) \in SUBSET used(w)
  OBVIOUS
<1> QED BY <1>1, <1>2, FS_Subset DEF Total, Units

(* The units of some ticks are those of two parts of them together. *)
LEMMA UnitsSplit ==
  ASSUME NEW T, IsFiniteSet(T), NEW S \in SUBSET T
  PROVE  /\ Units(T) \in Nat /\ Units(S) \in Nat /\ Units(T \ S) \in Nat
         /\ Units(T \ S) + Units(S) = Units(T)
<1> DEFINE used(x) == {t \in x : usage[t] # None}
           A == used(T \ S)
           B == used(S)
<1>1. IsFiniteSet(A) /\ IsFiniteSet(B)
  BY FS_Subset
<1>2. A \cup B = used(T) /\ A \cap B = {}
  OBVIOUS
<1>3. /\ Cardinality(A \cup B) = Cardinality(A) + Cardinality(B) - Cardinality(A \cap B)
      /\ Cardinality(A) \in Nat /\ Cardinality(B) \in Nat /\ Cardinality({}) = 0
  BY <1>1, FS_Union, FS_CardinalityType, FS_EmptySet
<1>4. Units(T) = Cardinality(A \cup B) /\ Units(S) = Cardinality(B)
      /\ Units(T \ S) = Cardinality(A)
  BY <1>2 DEF Units
<1>5. Cardinality(A \cap B) = 0
  BY <1>2, FS_EmptySet
<1> HIDE DEF A, B
<1>6. Cardinality(A \cup B) = Cardinality(A) + Cardinality(B)
  BY <1>3, <1>5
<1> QED BY <1>3, <1>4, <1>6

(* The month and the day begin no later than the moment they are asked for  *)
(* at, and the whole days asked for reach beyond it.                        *)
LEMMA PeriodBegins ==
  ASSUME NEW now \in Nat
  PROVE  /\ MonthStart(now) \in 0 .. now /\ DayStart(now) \in 0 .. now
         /\ Buckets(now).to >= now /\ Buckets(now).to \in Nat
<1>1. Day \in Nat \ {0} /\ Day * Month \in Nat \ {0}
  BY WindowsAssumption
<1>2. MonthStart(now) \in 0 .. now
  BY <1>1 DEF MonthStart
<1>3. DayStart(now) \in 0 .. now
  BY <1>1 DEF DayStart
<1>4. now - MonthStart(now) \in Nat
  BY <1>2
<1>5. ASSUME NEW elapsed \in Nat
      PROVE  Days(elapsed) * Day > elapsed /\ Days(elapsed) \in Nat
  BY <1>1 DEF Days
<1> QED BY <1>1, <1>2, <1>3, <1>4, <1>5 DEF Buckets

(* Each window begins where its period begins, and covers it up to now.     *)
LEMMA WindowCovers ==
  ASSUME NEW request \in {"costs", "monthly", "daily", "summary", "breakdown"},
         NEW now \in Nat
  PROVE  LET w == WindowOf(request, now)
         IN  /\ w.from = IF request = "daily" THEN DayStart(now) ELSE MonthStart(now)
             /\ w.from \in Nat /\ w.to \in Nat /\ now <= w.to
<1>1. /\ MonthStart(now) \in Nat /\ DayStart(now) \in Nat
      /\ Buckets(now).to >= now /\ Buckets(now).to \in Nat
  BY PeriodBegins
<1> QED BY <1>1 DEF WindowOf, Buckets, DayToDate, MonthToDate

(* What happens later does not change what happened in a window before.     *)
LEMMA WindowEnded ==
  ASSUME usage \in Seq(Tools \cup {None}), NEW x, usage' = Append(usage, x),
         NEW w, w.to <= Clock, w.to \in Int
  PROVE  /\ Ticks(w)' = Ticks(w)
         /\ \A t \in Ticks(w) : usage'[t] = usage[t]
         /\ Total(w)' = Total(w)
         /\ Active(w)' = Active(w)
         /\ \A tool : Used(tool, w)' = Used(tool, w)
         /\ \A S : UsedOf(S, w)' = UsedOf(S, w)
<1>1. /\ Clock \in Nat
      /\ DOMAIN usage = 1 .. Clock /\ DOMAIN usage' = 1 .. (Clock + 1)
      /\ \A t \in 1 .. Clock : usage'[t] = usage[t]
  BY LenProperties DEF Clock
<1>2. Ticks(w)' = Ticks(w)
  BY <1>1 DEF Ticks
<1>3. \A t \in Ticks(w) : usage'[t] = usage[t]
  BY <1>1 DEF Ticks
<1>4. /\ Total(w)' = Total(w) /\ Active(w)' = Active(w)
      /\ \A tool : Used(tool, w)' = Used(tool, w)
  BY <1>2, <1>3 DEF Total, Units, Active, Used
<1>5. \A S : UsedOf(S, w)' = UsedOf(S, w)
  BY <1>2, <1>3 DEF UsedOf
<1> QED BY <1>2, <1>3, <1>4, <1>5

-----------------------------------------------------------------------------
(***************************************************************************)
(* The steps.                                                               *)
(***************************************************************************)
LEMMA InitIInv == Init => IInv
<1> SUFFICES ASSUME Init PROVE IInv
  OBVIOUS
<1>1. usage \in Seq(Tools \cup {None}) /\ Clock = 0
  BY DEF Init, Clock
<1>2. ControlInv
  BY <1>1 DEF Init, ControlInv, Requests
<1> QED BY <1>2 DEF Init, IInv, WindowInv, SamplesInv, PeriodCovered

(* The requests are those of the collector. *)
LEMMA CurrentRequest ==
  ASSUME ControlInv, q <= Len(Requests[kind])
  PROVE  /\ Request \in {"costs", "monthly", "daily", "summary", "breakdown"}
         /\ Request \in {"summary", "breakdown"} <=> kind = "composio"
<1> USE DEF ControlInv, Requests, Request
<1>1. kind \in {"openai", "xai", "composio"}
  OBVIOUS
<1>2. CASE kind = "openai"
  <2>1. Requests[kind] = <<"costs">> /\ q = 1
    BY <1>2
  <2> QED BY <1>2, <2>1
<1>3. CASE kind = "xai"
  <2>1. Requests[kind] = <<"monthly", "daily">> /\ q \in {1, 2}
    BY <1>3
  <2> QED BY <1>3, <2>1
<1>4. CASE kind = "composio"
  <2>1. Requests[kind] = <<"summary", "breakdown">> /\ q \in {1, 2}
    BY <1>4
  <2> QED BY <1>4, <2>1
<1> QED BY <1>1, <1>2, <1>3, <1>4

(* A step that sends nothing and leaves Composio's window alone. *)
LEMMA SamplesStay ==
  ASSUME IInv, UNCHANGED <<usage, kind, samples>>, kind = "composio" => asked' = asked
  PROVE  SamplesInv' /\ PeriodCovered'
<1>1. /\ Clock' = Clock
      /\ \A w : Total(w)' = Total(w)
      /\ \A rows, n, w : Shown(rows, n, w)' <=> Shown(rows, n, w)
  BY DEF Clock, Total, Units, Ticks, Shown, Active, Used, UsedOf
<1>2. SamplesInv'
  BY <1>1 DEF IInv, SamplesInv, MonthToDate, MonthStart, Adds
<1>3. PeriodCovered'
  BY <1>1 DEF IInv, PeriodCovered, PeriodStart
<1> QED BY <1>2, <1>3

(* What was sent stays true while usage goes on. *)
LEMMA TickIInv == IInv /\ Tick => IInv'
<1> SUFFICES ASSUME IInv, NEW x \in Tools \cup {None}, usage' = Append(usage, x),
                    UNCHANGED <<kind, pc, q, window, samples, asked>>
             PROVE  IInv'
  BY DEF Tick
<1>1. usage \in Seq(Tools \cup {None}) /\ Clock \in Nat
  BY LenProperties DEF IInv, ControlInv, Clock
<1>2. usage' \in Seq(Tools \cup {None}) /\ Clock' = Clock + 1
  BY <1>1, AppendProperties DEF Clock
<1>3. ControlInv'
  BY <1>1, <1>2 DEF IInv, ControlInv
<1>4. WindowInv'
  BY DEF IInv, WindowInv, Request
<1>5. ASSUME NEW s \in samples
      PROVE  /\ s.asked \in Nat /\ s.sent \in Nat /\ s.asked <= Clock /\ s.sent <= Clock
             /\ \A from : Total([from |-> from, to |-> s.asked])'
                             = Total([from |-> from, to |-> s.asked])
             /\ \A from : Total([from |-> from, to |-> s.sent])'
                             = Total([from |-> from, to |-> s.sent])
             /\ Shown(s.rows, s.illegible, MonthToDate(s.asked)) =>
                  Shown(s.rows, s.illegible, MonthToDate(s.asked))'
  <2>1. s.asked \in Nat /\ s.sent \in Nat /\ s.asked <= Clock /\ s.sent <= Clock
    BY <1>1 DEF IInv, SamplesInv
  <2>2. \A from : Total([from |-> from, to |-> s.asked])'
                    = Total([from |-> from, to |-> s.asked])
    BY <1>1, <2>1, WindowEnded
  <2>3. \A from : Total([from |-> from, to |-> s.sent])'
                    = Total([from |-> from, to |-> s.sent])
    BY <1>1, <2>1, WindowEnded
  <2>4. Shown(s.rows, s.illegible, MonthToDate(s.asked)) =>
          Shown(s.rows, s.illegible, MonthToDate(s.asked))'
    <3> DEFINE w == MonthToDate(s.asked)
    <3>1. w.to = s.asked
      BY DEF MonthToDate
    <3> HIDE DEF w
    <3>2. /\ Active(w)' = Active(w) /\ \A tool : Used(tool, w)' = Used(tool, w)
          /\ \A S : UsedOf(S, w)' = UsedOf(S, w)
      BY <1>1, <2>1, <3>1, WindowEnded
    <3>3. Shown(s.rows, s.illegible, w) => Shown(s.rows, s.illegible, w)'
      BY <3>2 DEF Shown, ParseFloatOrZero
    <3> QED BY <3>3 DEF w
  <2> QED BY <2>1, <2>2, <2>3, <2>4
<1>6. SamplesInv'
  <2> SUFFICES ASSUME NEW s \in samples
               PROVE  /\ s.asked \in 0 .. s.sent /\ s.sent \in 0 .. Clock'
                      /\ s.request \in {"summary", "breakdown"} =>
                           kind = "composio" /\ s.asked = asked
                      /\ s.request = "summary" =>
                           Adds(s.amount, s.illegible, MonthToDate(s.asked))'
                      /\ s.request = "breakdown" =>
                           Shown(s.rows, s.illegible, MonthToDate(s.asked))'
    BY DEF SamplesInv
  <2>1. Total(MonthToDate(s.asked))' = Total(MonthToDate(s.asked))
    BY <1>5 DEF MonthToDate
  <2> QED BY <1>1, <1>2, <1>5, <2>1 DEF IInv, SamplesInv, Adds
<1>7. PeriodCovered'
  BY <1>5 DEF IInv, PeriodCovered, PeriodStart
<1> QED BY <1>3, <1>4, <1>6, <1>7 DEF IInv

(* A scrape begins without samples. *)
LEMMA CollectIInv == IInv /\ Collect => IInv'
<1> SUFFICES ASSUME IInv, Collect PROVE IInv'
  OBVIOUS
<1>1. Clock \in Nat /\ Clock' = Clock
  BY LenProperties DEF IInv, ControlInv, Clock, Collect
<1>2. ControlInv'
  BY <1>1 DEF IInv, ControlInv, Collect, Requests
<1>3. WindowInv'
  BY DEF Collect, WindowInv
<1>4. SamplesInv' /\ PeriodCovered'
  BY DEF Collect, SamplesInv, PeriodCovered
<1> QED BY <1>2, <1>3, <1>4 DEF IInv

(* The next request gets a window of its own, or Composio's. *)
LEMMA AskIInv == IInv /\ Ask => IInv'
<1> SUFFICES ASSUME IInv, Ask PROVE IInv'
  OBVIOUS
<1>1. Clock \in Nat /\ Clock' = Clock
  BY LenProperties DEF IInv, ControlInv, Clock, Ask
<1>2. ControlInv'
  BY <1>1 DEF IInv, ControlInv, Ask
<1>3. /\ pc' = "call" /\ kind' = kind /\ Request' = Request
      /\ kind = "composio" => asked' = asked
      /\ kind # "composio" => asked' = Clock
  BY DEF Ask, Request
<1>4. /\ Request \in {"costs", "monthly", "daily", "summary", "breakdown"}
      /\ Request \in {"summary", "breakdown"} <=> kind = "composio"
  BY CurrentRequest DEF IInv, Ask
<1>5. WindowInv'
  <2>1. CASE kind = "composio"
    <3>1. window' = MonthToDate(asked)
      BY <1>4, <2>1 DEF IInv, WindowInv, Ask, NextWindow
    <3> QED BY <1>3, <1>4, <2>1, <3>1 DEF WindowInv, WindowOf
  <2>2. CASE kind # "composio"
    <3>1. window' = WindowOf(Request, Clock)
      BY <1>4, <2>2 DEF Ask, NextWindow, WindowOf
    <3> QED BY <1>3, <2>2, <3>1 DEF WindowInv
  <2> QED BY <2>1, <2>2
<1>6. SamplesInv' /\ PeriodCovered'
  BY <1>3, SamplesStay DEF Ask
<1> QED BY <1>2, <1>5, <1>6 DEF IInv

(* The loop goes on, and the window stays. *)
LEMMA AdvanceInv ==
  ASSUME IInv, pc = "call", Advance, UNCHANGED <<usage, kind, window, asked>>
  PROVE  ControlInv' /\ WindowInv'
<1>1. ControlInv'
  BY DEF IInv, ControlInv, Advance, Clock, Requests
<1>2. WindowInv'
  BY DEF IInv, WindowInv, Advance
<1> QED BY <1>1, <1>2

(* The sample that is sent now joins those sent before. *)
LEMMA SendInv ==
  ASSUME IInv, pc = "call", NEW amount, NEW rows, NEW illegible,
         Send(amount, rows, illegible),
         UNCHANGED <<usage, kind, window, asked>>,
         Request = "breakdown" => Shown(rows, illegible, window),
         Request # "breakdown" => Adds(amount, illegible, window)
  PROVE  SamplesInv' /\ PeriodCovered'
<1> DEFINE new == [request |-> Request, amount |-> amount, rows |-> rows,
                   illegible |-> illegible, asked |-> asked, sent |-> Clock]
           start == IF Request = "daily" THEN DayStart(asked) ELSE MonthStart(asked)
<1>1. samples' = samples \cup {new} /\ Clock' = Clock
  BY DEF Send, Clock
<1>2. /\ Clock \in Nat /\ asked \in 0 .. Clock /\ asked \in Nat
      /\ usage \in Seq(Tools \cup {None})
  BY LenProperties DEF IInv, ControlInv, Clock
<1>3. /\ Request \in {"costs", "monthly", "daily", "summary", "breakdown"}
      /\ Request \in {"summary", "breakdown"} <=> kind = "composio"
  BY CurrentRequest DEF IInv, ControlInv
<1>4. window = WindowOf(Request, asked)
  BY DEF IInv, WindowInv
<1>5. Request \in {"summary", "breakdown"} => window = MonthToDate(asked)
  BY <1>3 DEF IInv, WindowInv
<1>6. window.from = start /\ window.from \in Nat /\ window.to \in Nat /\ asked <= window.to
  BY <1>2, <1>3, <1>4, WindowCovers
<1>7. /\ Total([from |-> start, to |-> asked]) <= Total(window)
      /\ Total(window) <= Total([from |-> start, to |-> Clock])
  <2>1. Ticks([from |-> start, to |-> asked]) \subseteq Ticks(window)
    BY <1>2, <1>6, LenProperties DEF Ticks, Clock
  <2>2. Ticks(window) \subseteq Ticks([from |-> start, to |-> Clock])
    BY <1>2, <1>6, LenProperties DEF Ticks, Clock
  <2> QED BY <1>2, <2>1, <2>2, TotalMonotone
<1>8. \A w : /\ Total(w)' = Total(w)
            /\ \A r, n : Shown(r, n, w)' <=> Shown(r, n, w)
  BY DEF Total, Units, Ticks, Shown, Active, Used, UsedOf
<1>9. SamplesInv'
  <2>1. /\ new.asked \in 0 .. new.sent /\ new.sent \in 0 .. Clock
        /\ new.request \in {"summary", "breakdown"} => kind = "composio" /\ new.asked = asked
        /\ new.request = "summary" =>
             Adds(new.amount, new.illegible, MonthToDate(new.asked))
        /\ new.request = "breakdown" =>
             Shown(new.rows, new.illegible, MonthToDate(new.asked))
    BY <1>2, <1>3, <1>5
  <2> HIDE DEF new
  <2> QED BY <1>1, <1>8, <2>1 DEF IInv, SamplesInv, MonthToDate, MonthStart, Adds
<1>10. PeriodCovered'
  <2>1. new.request # "breakdown" =>
          /\ Total([from |-> PeriodStart(new), to |-> new.asked])
               <= new.amount + new.illegible
          /\ new.amount + new.illegible
               <= Total([from |-> PeriodStart(new), to |-> new.sent])
    BY <1>7 DEF PeriodStart, Adds
  <2> HIDE DEF new
  <2> QED BY <1>1, <1>8, <2>1 DEF IInv, PeriodCovered
<1> QED BY <1>9, <1>10

(* A window's usage is its finitely many ticks'. *)
LEMMA WindowUnits ==
  ASSUME IInv, NEW S \in SUBSET Ticks(window)
  PROVE  /\ Total(window) \in Nat /\ Total(window) + 0 = Total(window)
         /\ 0 + Total(window) = Total(window) /\ Units(S) \in Nat /\ Units(Ticks(window) \ S) \in Nat
         /\ Units(Ticks(window) \ S) + Units(S) = Total(window)
<1>1. IsFiniteSet(Ticks(window))
  BY TicksFinite DEF IInv, ControlInv
<1> QED BY <1>1, UnitsSplit DEF Total

(* OpenAI's sum, whichever of its amounts are illegible. *)
LEMMA AnswerCostsIInv == IInv /\ AnswerCosts => IInv'
<1> SUFFICES ASSUME IInv, AnswerCosts PROVE IInv'
  OBVIOUS
<1>1. ControlInv' /\ WindowInv'
  BY AdvanceInv DEF AnswerCosts
<1>2. PICK garbled \in SUBSET Ticks(window) :
        Send(Units(Ticks(window) \ garbled), <<>>, Units(garbled))
  BY DEF AnswerCosts
<1>3. Adds(Units(Ticks(window) \ garbled), Units(garbled), window)
  BY WindowUnits DEF Adds
<1>4. SamplesInv' /\ PeriodCovered'
  BY <1>2, <1>3, SendInv DEF AnswerCosts
<1> QED BY <1>1, <1>4 DEF IInv

(* X.AI's usage. *)
LEMMA AnswerUsageIInv == IInv /\ AnswerUsage => IInv'
<1> SUFFICES ASSUME IInv, AnswerUsage PROVE IInv'
  OBVIOUS
<1>1. ControlInv' /\ WindowInv'
  BY AdvanceInv DEF AnswerUsage
<1>2. Adds(Total(window), 0, window)
  BY WindowUnits, Ticks(window) \in SUBSET Ticks(window) DEF Adds
<1>3. SamplesInv' /\ PeriodCovered'
  BY <1>2, SendInv DEF AnswerUsage
<1> QED BY <1>1, <1>3 DEF IInv

(* Composio's total, or the 0 that stands for one. *)
LEMMA AnswerSummaryIInv == IInv /\ AnswerSummary => IInv'
<1> SUFFICES ASSUME IInv, AnswerSummary PROVE IInv'
  OBVIOUS
<1>1. ControlInv' /\ WindowInv'
  BY AdvanceInv DEF AnswerSummary
<1>2. PICK legible \in BOOLEAN :
        Send(ParseFloatOrZero(Total(window), legible), <<>>,
             IF legible THEN 0 ELSE Total(window))
  BY DEF AnswerSummary
<1>3. Adds(ParseFloatOrZero(Total(window), legible),
           IF legible THEN 0 ELSE Total(window), window)
  BY WindowUnits, Ticks(window) \in SUBSET Ticks(window) DEF Adds, ParseFloatOrZero
<1>4. SamplesInv' /\ PeriodCovered'
  BY <1>2, <1>3, SendInv DEF AnswerSummary
<1> QED BY <1>1, <1>4 DEF IInv

(* Composio's rows, some of them 0. *)
LEMMA AnswerRowsIInv == IInv /\ AnswerRows => IInv'
<1> SUFFICES ASSUME IInv, AnswerRows PROVE IInv'
  OBVIOUS
<1>1. ControlInv' /\ WindowInv'
  BY AdvanceInv DEF AnswerRows
<1> DEFINE rows(shown, garbled) ==
             [tool \in shown |->
                ParseFloatOrZero(Used(tool, window), tool \notin garbled)]
           lost(garbled) == UsedOf(garbled, window)
<1>2. PICK shown \in SUBSET Active(window) : \E garbled \in SUBSET shown :
        /\ shown = Active(window) \/ Cardinality(shown) = BreakdownLimit
        /\ Send(0, rows(shown, garbled), lost(garbled))
  BY DEF AnswerRows
<1>3. PICK garbled \in SUBSET shown : Send(0, rows(shown, garbled), lost(garbled))
  BY <1>2
<1>4. Shown(rows(shown, garbled), lost(garbled), window)
  BY <1>2 DEF Shown
<1> HIDE DEF rows, lost
<1>5. SamplesInv' /\ PeriodCovered'
  BY <1>3, <1>4, SendInv DEF AnswerRows
<1> QED BY <1>1, <1>5 DEF IInv

(* A failure, the end of the scrape, and no step at all send nothing. *)
LEMMA QuietIInv == IInv /\ (Fail \/ Return \/ UNCHANGED vars) => IInv'
<1> SUFFICES ASSUME IInv, Fail \/ Return \/ UNCHANGED vars PROVE IInv'
  OBVIOUS
<1>1. ControlInv' /\ WindowInv'
  <2>1. CASE Fail
    BY <2>1, AdvanceInv DEF Fail
  <2>2. CASE Return \/ UNCHANGED vars
    BY <2>2 DEF Return, vars, IInv, ControlInv, WindowInv, Clock, Request
  <2> QED BY <2>1, <2>2
<1>2. SamplesInv' /\ PeriodCovered'
  BY SamplesStay DEF Fail, Return, vars
<1> QED BY <1>1, <1>2 DEF IInv

LEMMA NextIInv == IInv /\ [Next]_vars => IInv'
  BY TickIInv, CollectIInv, AskIInv, AnswerCostsIInv, AnswerUsageIInv, AnswerSummaryIInv,
     AnswerRowsIInv, QuietIInv DEF Next

-----------------------------------------------------------------------------
(* The invariant holds however long usage goes on and whoever scrapes.      *)
THEOREM Safety == Spec => []IInv
<1> QED BY InitIInv, NextIInv, PTL DEF Spec

(* What is reported for a month or a day covers, with what was illegible of *)
(* the answer, all of it up to the moment the request's window was computed, *)
(* and nothing from before it or after the answer: whatever period ends in  *)
(* between.                                                                 *)
THEOREM PeriodsCovered == Spec => []PeriodCovered
<1>1. IInv => PeriodCovered
  BY DEF IInv
<1> QED BY <1>1, Safety, PTL

(* Composio's legible rows are a part of what was used, and with the        *)
(* illegible ones the whole of it unless rows were cut.                     *)
LEMMA RowsInv == IInv => RowsAddUp
<1> SUFFICES ASSUME IInv, NEW s \in samples, NEW t \in samples,
                    s.request = "summary", t.request = "breakdown"
             PROVE  /\ s.illegible = 0 => SumFunction(t.rows) <= s.amount
                    /\ Cardinality(Active(MonthToDate(s.asked))) <= BreakdownLimit =>
                         SumFunction(t.rows) + t.illegible = s.amount + s.illegible
  BY DEF RowsAddUp
<1> DEFINE w == MonthToDate(asked)
           used == {i \in Ticks(w) : usage[i] # None}
<1>1. /\ s.amount \in Nat /\ s.illegible \in Nat
      /\ s.amount + s.illegible = Cardinality(used)
      /\ Shown(t.rows, t.illegible, w) /\ s.asked = asked
  BY DEF IInv, SamplesInv, Adds, Total, Units
<1>2. IsFiniteSet(Ticks(w)) /\ IsFiniteSet(used)
  BY TicksFinite, FS_Subset DEF IInv, ControlInv
<1>3. IsFiniteSet(Active(w))
  <2>1. IsFiniteSet({usage[i] : i \in Ticks(w)})
    <3> DEFINE at == [i \in Ticks(w) |-> usage[i]]
    <3>1. at \in Surjection(Ticks(w), {usage[i] : i \in Ticks(w)})
      BY DEF Surjection
    <3> QED BY <1>2, <3>1, FS_Surjection
  <2> QED BY <2>1, FS_Subset DEF Active
<1>4. PICK shown \in SUBSET Active(w) : \E garbled \in SUBSET shown :
        /\ shown = Active(w) \/ Cardinality(shown) = BreakdownLimit
        /\ t.rows = [tool \in shown |-> ParseFloatOrZero(Used(tool, w), tool \notin garbled)]
        /\ t.illegible = UsedOf(garbled, w)
  BY <1>1 DEF Shown
<1>5. PICK garbled \in SUBSET shown :
        /\ t.rows = [tool \in shown |-> ParseFloatOrZero(Used(tool, w), tool \notin garbled)]
        /\ t.illegible = UsedOf(garbled, w)
  BY <1>4
<1>6. IsFiniteSet(shown) /\ Cardinality(shown) <= Cardinality(Active(w))
      /\ (Cardinality(Active(w)) = Cardinality(shown) => Active(w) = shown)
  BY <1>3, FS_Subset
<1> DEFINE part   == {i \in Ticks(w) : usage[i] \in shown}
           lost   == {i \in Ticks(w) : usage[i] \in garbled}
           legible == Ticks(w) \ lost
           summed == {i \in legible : usage[i] \in shown}
<1>7. SumFunction(t.rows) = Cardinality(summed)
  <2>1. ASSUME NEW tool \in shown
        PROVE  ParseFloatOrZero(Used(tool, w), tool \notin garbled)
                 = Cardinality({i \in legible : usage[i] = tool})
    <3>1. CASE tool \in garbled
      <4>1. {i \in legible : usage[i] = tool} = {}
        BY <3>1
      <4> QED BY <3>1, <4>1, FS_EmptySet DEF ParseFloatOrZero
    <3>2. CASE tool \notin garbled
      <4>1. {i \in legible : usage[i] = tool} = {i \in Ticks(w) : usage[i] = tool}
        BY <3>2
      <4> QED BY <3>2, <4>1 DEF ParseFloatOrZero, Used
    <3> QED BY <3>1, <3>2
  <2>2. t.rows = [tool \in shown |-> Cardinality({i \in legible : usage[i] = tool})]
    BY <1>5, <2>1
  <2>3. IsFiniteSet(legible)
    BY <1>2, FS_Subset
  <2> HIDE DEF legible
  <2> QED BY <1>6, <2>2, <2>3, SumOfUses
<1>8. summed \cup lost = part /\ summed \cap lost = {} /\ part \in SUBSET used
  BY DEF Active
<1>9. IsFiniteSet(part) /\ IsFiniteSet(summed) /\ IsFiniteSet(lost)
  BY <1>2, FS_Subset
<1>10. t.illegible = Cardinality(lost)
  BY <1>5 DEF UsedOf
<1> HIDE DEF w, used, part, lost, legible, summed
<1>11. /\ Cardinality(summed) \in Nat /\ Cardinality(lost) \in Nat
       /\ Cardinality(summed) + Cardinality(lost) = Cardinality(part)
  <2>1. Cardinality(summed \cup lost) = Cardinality(summed) + Cardinality(lost)
                                           - Cardinality(summed \cap lost)
    BY <1>9, FS_Union
  <2>2. Cardinality(summed) \in Nat /\ Cardinality(lost) \in Nat
    BY <1>9, FS_CardinalityType
  <2>3. Cardinality(summed \cap lost) = 0
    BY <1>8, FS_EmptySet
  <2>4. Cardinality(part) = Cardinality(summed \cup lost)
    BY <1>8
  <2> QED BY <2>1, <2>2, <2>3, <2>4
<1>12. Cardinality(part) <= Cardinality(used)
  BY <1>2, <1>8, FS_Subset
<1>13. ASSUME Cardinality(Active(w)) <= BreakdownLimit
      PROVE  part = used
  <2>1. shown = Active(w)
    <3>1. Cardinality(shown) \in Nat /\ Cardinality(Active(w)) \in Nat
      BY <1>3, <1>6, FS_CardinalityType
    <3> QED BY <1>4, <1>6, <1>13, <3>1, WindowsAssumption
  <2> QED BY <2>1 DEF Active, part, used
<1>14. CASE Cardinality(Active(w)) <= BreakdownLimit
  BY <1>1, <1>7, <1>10, <1>11, <1>12, <1>13, FS_CardinalityType, <1>9 DEF w
<1>15. s.illegible = 0 => SumFunction(t.rows) <= s.amount
  BY <1>1, <1>7, <1>11, <1>12, <1>9, <1>2, FS_CardinalityType
<1> QED BY <1>1, <1>14, <1>15 DEF w

(* Composio's rows stay within a legible total, and differ from it, if none *)
(* was cut, by exactly what was illegible.                                  *)
THEOREM RowsSumUp == Spec => []RowsAddUp
<1> QED BY RowsInv, Safety, PTL
=============================================================================
