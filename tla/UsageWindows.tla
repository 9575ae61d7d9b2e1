---------------------------- MODULE UsageWindows ----------------------------
(***************************************************************************)
(* The billing windows of the OpenAI, X.AI and Composio collectors.  They   *)
(* report what was used since the month or the day began, by asking for a   *)
(* window computed from time.Now() some time before the answer is made,     *)
(* while usage goes on and days and months end.  An amount they cannot read *)
(* is dropped or becomes 0, without an error.  ApiCollectors has the rest   *)
(* of these collectors; here a request is answered or fails.                *)
(***************************************************************************)
EXTENDS Integers, Sequences, FiniteSets, Functions

CONSTANTS
  Tools,           \* what can be used, one unit at a time
  None,            \* nothing used
  Day,             \* the ticks of a day
  Month,           \* the days of a month, all months alike (a simplification)
  BreakdownLimit,  \* composioBreakdownLimit
  MaxTime          \* bound: the ticks of the clock

ASSUME WindowsAssumption ==
  /\ None \notin Tools
  /\ Day \in Nat \ {0} /\ Month \in Nat \ {0}
  /\ BreakdownLimit \in Nat \ {0} /\ MaxTime \in Nat

VARIABLES
  usage,   \* usage[t]: the tool used in tick t
  kind,    \* which collector scrapes
  pc,      \* "idle" | "loop" | "call"
  q,       \* the position of the current request
  window,  \* the ticks the current request asks for: those after from, up to to
  samples, \* the samples sent
  asked    \* history: the time window was computed at

vars == <<usage, kind, pc, q, window, samples, asked>>

Requests == [openai |-> <<"costs">>, xai |-> <<"monthly", "daily">>,
             composio |-> <<"summary", "breakdown">>]

Request == Requests[kind][q]

Clock == Len(usage)

-----------------------------------------------------------------------------
(* The API side: the units used in some ticks, and in a window those of a   *)
(* tool, of some tools, and of all.                                         *)
Ticks(w) == {t \in DOMAIN usage : w.from < t /\ t <= w.to}

Units(ticks)  == Cardinality({t \in ticks : usage[t] # None})
Used(tool, w) == Cardinality({t \in Ticks(w) : usage[t] = tool})
UsedOf(S, w)  == Cardinality({t \in Ticks(w) : usage[t] \in S})
Total(w)      == Units(Ticks(w))
Active(w)     == {usage[t] : t \in Ticks(w)} \ {None}

(* A tick passes, with something used in it or nothing. *)
Tick ==
  /\ Clock < MaxTime
  /\ \E u \in Tools \cup {None} : usage' = Append(usage, u)
  /\ UNCHANGED <<kind, pc, q, window, samples, asked>>

-----------------------------------------------------------------------------
(* time.Date(now.Year(), now.Month(), now.Day() or 1, 0, 0, 0, 0, time.UTC) *)
DayStart(now)   == now - (now % Day)
MonthStart(now) == now - (now % (Day * Month))

(* composioMTDWindow, and the ranges of xaiCollectUsageMonthly and Daily.   *)
MonthToDate(now) == [from |-> MonthStart(now), to |-> now]
DayToDate(now)   == [from |-> DayStart(now), to |-> now]

(* Seeded bug: the day that has begun is not counted. *)
WholeDays(elapsed) == elapsed \div Day

(* int(endTime.Sub(startTime)/(24*time.Hour)) + 1 *)
Days(elapsed) == elapsed \div Day + 1

(* OpenAI answers with daily buckets from the start, as many as the limit.  *)
Buckets(now) ==
  [from |-> MonthStart(now), to |-> MonthStart(now) + Days(now - MonthStart(now)) * Day]

(* A scrape begins.  Composio computes its window here, once for both       *)
(* requests.                                                                *)
Collect ==
  /\ pc = "idle"
  /\ kind' \in DOMAIN Requests
  /\ pc' = "loop" /\ q' = 1 /\ samples' = {}
  /\ window' = MonthToDate(Clock) /\ asked' = Clock
  /\ UNCHANGED usage

(* Seeded bug: each request of Composio computes a window of its own. *)
WindowPerRequest ==
  CASE Request = "costs" -> Buckets(Clock)
    [] Request = "daily" -> DayToDate(Clock)
    [] OTHER -> MonthToDate(Clock)

(* The window of the next request. *)
NextWindow ==
  CASE Request = "costs"   -> Buckets(Clock)
    [] Request = "monthly" -> MonthToDate(Clock)
    [] Request = "daily"   -> DayToDate(Clock)
    [] OTHER               -> window

Ask ==
  /\ pc = "loop" /\ q <= Len(Requests[kind])
  /\ pc' = "call" /\ window' = NextWindow
  /\ asked' = IF kind = "composio" THEN asked ELSE Clock
  /\ UNCHANGED <<usage, kind, q, samples>>

Advance == pc' = "loop" /\ q' = q + 1

(* A sample, sent with the status of a success.  Of the answer it was made  *)
(* from it keeps, as history, the units of the amounts that were illegible. *)
Send(amount, rows, illegible) ==
  samples' = samples \cup {[request |-> Request, amount |-> amount, rows |-> rows,
                            illegible |-> illegible, asked |-> asked, sent |-> Clock]}

(* OpenAI adds up the amounts of all buckets and leaves out those that are  *)
(* no number (127-131).  A bucket has any number of amounts, so that any    *)
(* part of what was used can be in one that is illegible.                   *)
AnswerCosts ==
  /\ pc = "call" /\ Request = "costs"
  /\ \E garbled \in SUBSET Ticks(window) :
       Send(Units(Ticks(window) \ garbled), <<>>, Units(garbled))
  /\ Advance
  /\ UNCHANGED <<usage, kind, window, asked>>

(* X.AI's amounts are numbers of the JSON itself: one that is none fails    *)
(* the request.                                                             *)
AnswerUsage ==
  /\ pc = "call" /\ Request \in {"monthly", "daily"}
  /\ Send(Total(window), <<>>, 0)
  /\ Advance
  /\ UNCHANGED <<usage, kind, window, asked>>

(* Composio's amounts are text: an empty one and one that is no number are  *)
(* read as 0.                                                               *)
ParseFloatOrZero(amount, legible) == IF legible THEN amount ELSE 0

(* The total of the entity type that is broken down afterwards. *)
AnswerSummary ==
  /\ pc = "call" /\ Request = "summary"
  /\ \E legible \in BOOLEAN :
       Send(ParseFloatOrZero(Total(window), legible), <<>>,
            IF legible THEN 0 ELSE Total(window))
  /\ Advance
  /\ UNCHANGED <<usage, kind, window, asked>>

(* A row for each tool used in the window, up to the limit of rows.         *)
AnswerRows ==
  /\ pc = "call" /\ Request = "breakdown"
  /\ \E shown \in SUBSET Active(window) :
       /\ shown = Active(window) \/ Cardinality(shown) = BreakdownLimit
       /\ Cardinality(shown) <= BreakdownLimit
       /\ \E garbled \in SUBSET shown :
            Send(0, [tool \in shown |->
                       ParseFloatOrZero(Used(tool, window), tool \notin garbled)],
                 UsedOf(garbled, window))
  /\ Advance
  /\ UNCHANGED <<usage, kind, window, asked>>

(* A request that fails carries no amount (see ApiCollectors), and neither  *)
(* does a summary without the entity.                                       *)
Fail ==
  /\ pc = "call" /\ Advance
  /\ UNCHANGED <<usage, kind, window, samples, asked>>

Return ==
  /\ pc = "loop" /\ q > Len(Requests[kind])
  /\ pc' = "idle"
  /\ UNCHANGED <<usage, kind, q, window, samples, asked>>

Init ==
  /\ usage = <<>> /\ kind = "openai" /\ pc = "idle" /\ q = 1
  /\ window = MonthToDate(0) /\ samples = {} /\ asked = 0

Next == Tick \/ Collect \/ Ask \/ AnswerCosts \/ AnswerUsage \/ AnswerSummary
        \/ AnswerRows \/ Fail \/ Return

Spec == Init /\ [][Next]_vars
-----------------------------------------------------------------------------
PeriodStart(s) ==
  IF s.request = "daily" THEN DayStart(s.asked) ELSE MonthStart(s.asked)

(* An amount leaves out nothing used since its month or its day began, up   *)
(* to the moment the window was computed, but what the answer had in        *)
(* illegible amounts, and it has nothing in it, legible or not, from before *)
(* that or after the answer: also when the day or the month ends between    *)
(* the two, or between two requests of one scrape.                          *)
PeriodCovered ==
  \A s \in samples : s.request # "breakdown" =>
    /\ Total([from |-> PeriodStart(s), to |-> s.asked]) <= s.amount + s.illegible
    /\ s.amount + s.illegible <= Total([from |-> PeriodStart(s), to |-> s.sent])

(* Composio's rows by tool never exceed a legible total of the same scrape, *)
(* and they add up to it unless there are more tools than rows, whatever is *)
(* used between the requests; what either has lost to illegible quantities, *)
(* all sent as successes, is then the whole of the difference.              *)
RowsAddUp ==
  \A s, t \in samples : s.request = "summary" /\ t.request = "breakdown" =>
    /\ s.illegible = 0 => SumFunction(t.rows) <= s.amount
    /\ Cardinality(Active(MonthToDate(s.asked))) <= BreakdownLimit =>
         SumFunction(t.rows) + t.illegible = s.amount + s.illegible
=============================================================================
