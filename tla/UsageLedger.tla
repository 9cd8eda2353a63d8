----------------------------- MODULE UsageLedger -----------------------------
(***************************************************************************)
(* What a user's calls of language models cost: CostTrackingCallback       *)
(* records each call and adds it to the ledger of the day, and the         *)
(* periodic task aggregate_usage_rollups sums days into weeks and months.  *)
(* Tokens are counted as costs are, and the breakdowns by feature and      *)
(* model too.                                                              *)
(*                                                                         *)
(* The entries are those under the string str(current_user.id), by which   *)
(* the graphs' configuration names the user and under which calls are      *)
(* counted and summed.  Under the ObjectId, by which enforce_tier_limit    *)
(* and the usage page ask, there is none.                                  *)
(*                                                                         *)
(* The ledger is modelled as its repository asks for it: the collection is *)
(* got by a method that the locked Beanie lacks, which the callback takes  *)
(* for a failure of the database.                                          *)
(***************************************************************************)
EXTENDS Integers, FiniteSets, FiniteSetsExt

CONSTANTS
    Clients,        \* slots for requests under way
    Workers,        \* workers of the queue
    LastDay,        \* bound: days
    WeekDays,       \* days of a week
    MonthDays,      \* days of a month
    Costs,          \* what a call may cost
    MaxCalls,       \* bound: calls of one request
    MaxRecorded     \* bound: costs of all calls

VARIABLES
    today,
    daily,          \* day -> total of its entry, 0 where there is none
    weekly,         \* week -> total of its entry
    monthly,        \* month -> total of its entry
    recorded,       \* total of the LLMUsage documents
    request,        \* slot -> the request
    rollup,         \* worker -> the task it runs
    missed,         \* what was recorded and not added to a day (history)
    told,           \* week -> the most that its entry ever said (history)
    overlapped      \* weeks that two rollups summed at a time (history)

vars == <<today, daily, weekly, monthly, recorded, request, rollup, missed, told,
                   overlapped>>

Days == 1..LastDay
WeekOf(d) == (d - 1) \div WeekDays
MonthOf(d) == (d - 1) \div MonthDays
Weeks == {WeekOf(d) : d \in Days}
Months == {MonthOf(d) : d \in Days}

Spent(days) == MapThenSumSet(LAMBDA d : daily[d], days)

\* What the requests under way have recorded and not yet added to a day.
OnTheWay == [c \in Clients |-> request[c].cost]

Request == [pc : {"idle", "call", "count"}, calls : 0..MaxCalls, cost : Costs \cup {0}]

NoRequest == [pc |-> "idle", calls |-> 0, cost |-> 0]

\* now: the day on which the task began.
Rollup == [pc : {"idle", "week", "saveWeek", "month", "saveMonth"}, now : Days, sum : Nat]

NoRollup == [pc |-> "idle", now |-> 1, sum |-> 0]

Init ==
    /\ today = 1
    /\ daily = [d \in Days |-> 0]
    /\ weekly = [w \in Weeks |-> 0]
    /\ monthly = [m \in Months |-> 0]
    /\ recorded = 0
    /\ request = [c \in Clients |-> NoRequest]
    /\ rollup = [w \in Workers |-> NoRollup]
    /\ missed = 0
    /\ told = [w \in Weeks |-> 0]
    /\ overlapped = {}

-----------------------------------------------------------------------------
\* No route depends on enforce_usage_tier; a request that did would pass: it asks
\* for the entries of this week and day under the ObjectId, finds none and takes
\* their costs for 0, or cannot read the database and passes too.
Ask(c) ==
    /\ request[c].pc = "idle"
    /\ request' = [request EXCEPT ![c].pc = "call"]
    /\ UNCHANGED <<today, daily, weekly, monthly, recorded, rollup, missed, told, overlapped>>

-----------------------------------------------------------------------------
\* on_llm_end: the record of the call, then the entry of the day.

Insert(c, cost) ==
    /\ request[c].pc = "call"
    /\ request[c].calls < MaxCalls
    /\ recorded + cost <= MaxRecorded
    /\ recorded' = recorded + cost
    /\ request' = [request EXCEPT ![c].pc = "count", ![c].calls = @ + 1, ![c].cost = cost]
    /\ UNCHANGED <<today, daily, weekly, monthly, rollup, missed, told, overlapped>>

\* increment_usage: $inc with an upsert.
Count(c) ==
    /\ request[c].pc = "count"
    /\ daily' = [daily EXCEPT ![today] = @ + request[c].cost]
    /\ request' = [request EXCEPT ![c].pc = "call", ![c].cost = 0]
    /\ UNCHANGED <<today, weekly, monthly, recorded, rollup, missed, told, overlapped>>

\* Either write may fail, which the callback swallows; if it is the insert,
\* nothing was recorded.
CountFails(c) ==
    /\ request[c].pc = "count"
    /\ missed' = missed + request[c].cost
    /\ request' = [request EXCEPT ![c].pc = "call", ![c].cost = 0]
    /\ UNCHANGED <<today, daily, weekly, monthly, recorded, rollup, told, overlapped>>

\* The request has its answer, or the process restarts.
End(c) ==
    /\ request[c].pc # "idle"
    /\ missed' = missed + request[c].cost
    /\ request' = [request EXCEPT ![c] = NoRequest]
    /\ UNCHANGED <<today, daily, weekly, monthly, recorded, rollup, told, overlapped>>

-----------------------------------------------------------------------------
\* aggregate_usage_rollups

OnlyRollup == UNCHANGED <<today, daily, recorded, request, missed>>

BeginRollup(w) ==
    /\ rollup[w].pc = "idle"
    /\ rollup' = [rollup EXCEPT ![w] = [pc |-> "week", now |-> today, sum |-> 0]]
    /\ overlapped' =
         IF \E v \in Workers : /\ rollup[v].pc \in {"week", "saveWeek"}
                               /\ WeekOf(rollup[v].now) = WeekOf(today)
         THEN overlapped \cup {WeekOf(today)} ELSE overlapped
    /\ OnlyRollup
    /\ UNCHANGED <<weekly, monthly, told>>

DaysOfWeek(now) == {d \in 1..now : WeekOf(d) = WeekOf(now)}
DaysOfMonth(now) == {d \in 1..now : MonthOf(d) = MonthOf(now)}

\* A user without an entry in this week is passed over.
SumWeek(w) ==
    /\ rollup[w].pc = "week"
    /\ LET sum == Spent(DaysOfWeek(rollup[w].now))
       IN  rollup' = [rollup EXCEPT
             ![w] = IF sum = 0 THEN NoRollup ELSE [@ EXCEPT !.pc = "saveWeek", !.sum = sum]]
    /\ OnlyRollup
    /\ UNCHANGED <<weekly, monthly, told, overlapped>>

\* A mutant: the sum is added to what the week has.
SaveWeekAdding(w) ==
    /\ rollup[w].pc = "saveWeek"
    /\ LET week == WeekOf(rollup[w].now)
       IN  /\ weekly' = [weekly EXCEPT ![week] = @ + rollup[w].sum]
           /\ told' = [told EXCEPT ![week] = Max({@, rollup[w].sum})]
    /\ rollup' = [rollup EXCEPT ![w].pc = "month", ![w].sum = 0]
    /\ OnlyRollup
    /\ UNCHANGED <<monthly, overlapped>>

\* upsert_rollup
SaveWeek(w) ==
    /\ rollup[w].pc = "saveWeek"
    /\ LET week == WeekOf(rollup[w].now)
       IN  /\ weekly' = [weekly EXCEPT ![week] = rollup[w].sum]
           /\ told' = [told EXCEPT ![week] = Max({@, rollup[w].sum})]
    /\ rollup' = [rollup EXCEPT ![w].pc = "month", ![w].sum = 0]
    /\ OnlyRollup
    /\ UNCHANGED <<monthly, overlapped>>

SumMonth(w) ==
    /\ rollup[w].pc = "month"
    /\ rollup' = [rollup EXCEPT ![w].pc = "saveMonth",
                                ![w].sum = Spent(DaysOfMonth(rollup[w].now))]
    /\ OnlyRollup
    /\ UNCHANGED <<weekly, monthly, told, overlapped>>

SaveMonth(w) ==
    /\ rollup[w].pc = "saveMonth"
    /\ monthly' = [monthly EXCEPT ![MonthOf(rollup[w].now)] = rollup[w].sum]
    /\ rollup' = [rollup EXCEPT ![w] = NoRollup]
    /\ OnlyRollup
    /\ UNCHANGED <<weekly, told, overlapped>>

\* The worker is lost, or the database cannot be reached.
RollupFails(w) ==
    /\ rollup[w].pc # "idle"
    /\ rollup' = [rollup EXCEPT ![w] = NoRollup]
    /\ OnlyRollup
    /\ UNCHANGED <<weekly, monthly, told, overlapped>>

NextDay ==
    /\ today < LastDay
    /\ today' = today + 1
    /\ UNCHANGED <<daily, weekly, monthly, recorded, request, rollup, missed, told,
                   overlapped>>

Next ==
    \/ \E c \in Clients :
         \/ Ask(c) \/ Count(c) \/ CountFails(c) \/ End(c)
         \/ \E cost \in Costs : Insert(c, cost)
    \/ \E w \in Workers :
         \/ BeginRollup(w) \/ SumWeek(w) \/ SaveWeek(w) \/ SumMonth(w) \/ SaveMonth(w)
         \/ RollupFails(w)
    \/ NextDay

Spec == Init /\ [][Next]_vars

-----------------------------------------------------------------------------
\* The entries, requests and tasks have their types.
TypeOK ==
    /\ today \in Days
    /\ daily \in [Days -> Nat]
    /\ weekly \in [Weeks -> Nat]
    /\ monthly \in [Months -> Nat]
    /\ request \in [Clients -> Request]
    /\ rollup \in [Workers -> Rollup]
    /\ overlapped \subseteq Weeks

\* Every recorded cost is in the entry of one day, or on its way there, or was
\* missed by a write that failed; an entry of a week or a month never says more
\* than its days, and that of a week never less than it once did, unless two
\* rollups overlapped (on_llm_end and aggregate_usage_rollups).
LedgerTellsCalls ==
    /\ Spent(Days) + missed + MapThenSumSet(LAMBDA c : OnTheWay[c], Clients) = recorded
    /\ \A w \in Weeks :
         /\ weekly[w] <= Spent({d \in Days : WeekOf(d) = w})
         /\ weekly[w] = told[w] \/ w \in overlapped
    /\ \A m \in Months : monthly[m] <= Spent({d \in Days : MonthOf(d) = m})
=============================================================================
