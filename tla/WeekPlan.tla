------------------------------ MODULE WeekPlan ------------------------------
(***************************************************************************)
(* BatchAndBreatheScheduler behind POST /wellness/schedule: how the        *)
(* minutes of a day are split into blocks of applying, networking,         *)
(* preparing and resting.  All active days of a week are alike, and all    *)
(* rest days.                                                              *)
(***************************************************************************)
EXTENDS Integers, FiniteSetsExt, Functions

CONSTANTS
    Minutes,    \* minutes available a day
    Limits      \* applications a day

VARIABLES question, answer, answered

vars == <<question, answer, answered>>

Questions == [minutes : Minutes, limit : Limits, season : BOOLEAN, burnout : BOOLEAN,
              restDay : BOOLEAN]

-----------------------------------------------------------------------------
MinutesPerApplication == 20
MinimumRest == 30

\* Percent of the day; burnout takes priority over the hiring season.
Ratios(q) ==
    IF q.burnout THEN [apply |-> 25, network |-> 15, prep |-> 20, rest |-> 40]
    ELSE IF q.season THEN [apply |-> 50, network |-> 10, prep |-> 30, rest |-> 10]
    ELSE [apply |-> 40, network |-> 20, prep |-> 25, rest |-> 15]

Limit(q) == IF q.burnout THEN Max({2, q.limit \div 2}) ELSE q.limit

Raw(q, activity) == (q.minutes * Ratios(q)[activity]) \div 100

\* What the limit on applications leaves over of the time to apply.
Excess(q) == Max({0, Raw(q, "apply") - Limit(q) * MinutesPerApplication})

\* A mutant: the time over is given away and kept.
AllocationsKept(q) ==
    [apply   |-> Raw(q, "apply"),
     network |-> Raw(q, "network") + (Excess(q) * 3) \div 5,
     prep    |-> Raw(q, "prep") + (Excess(q) * 2) \div 5,
     rest    |-> Max({MinimumRest, Raw(q, "rest")})]

Allocations(q) ==
    [apply   |-> Raw(q, "apply") - Excess(q),
     network |-> Raw(q, "network") + (Excess(q) * 3) \div 5,
     prep    |-> Raw(q, "prep") + (Excess(q) * 2) \div 5,
     rest    |-> Max({MinimumRest, Raw(q, "rest")})]

\* The six places of an active day in their order, and how long each takes.  In
\* a burnout week a third of the rest follows each of the first two activities
\* that take any time.
Places == 1..6
Activity == <<"apply", "rest", "network", "rest", "prep", "rest">>

Lengths(q) ==
    LET time == Allocations(q)
        pause == IF q.burnout THEN Max({15, time.rest \div 3}) ELSE 0
        Pause(activity) == IF time[activity] > 0 THEN pause ELSE 0
    IN  <<time.apply, Pause("apply"), time.network, Pause("network"), time.prep,
          time.rest - 2 * pause>>

Morning == 9 * 60
Evening == 17 * 60

Sum(lengths) == FoldFunction(+, 0, lengths)

\* The blocks of a day by their places; what takes no time is left out.
ActiveDay(q) ==
    [i \in {k \in Places : Lengths(q)[k] > 0} |->
       [activity |-> Activity[i], length |-> Lengths(q)[i],
        start |-> Morning + Sum([k \in 1..(i - 1) |-> Lengths(q)[k]])]]

RestDay(q) == <<[activity |-> "rest", length |-> q.minutes - 30, start |-> Morning],
                [activity |-> "network", length |-> 30, start |-> Evening]>>

-----------------------------------------------------------------------------
Init == question = <<>> /\ answer = <<>> /\ answered = FALSE

Schedule ==
    /\ ~answered
    /\ answered' = TRUE
    /\ \E q \in Questions :
         question' = q /\ answer' = IF q.restDay THEN RestDay(q) ELSE ActiveDay(q)

Next == Schedule

Spec == Init /\ [][Next]_vars

-----------------------------------------------------------------------------
\* How long a block takes that is of one of the activities.
Share(i, activities) ==
    IF i \in DOMAIN answer /\ answer[i].activity \in activities THEN answer[i].length ELSE 0

Spent(activities) == Sum([i \in Places |-> Share(i, activities)])

\* What a plan may take beyond the time there is: the rest that is always
\* granted.
Granted(q) == Max({0, MinimumRest - Raw(q, "rest")})

\* No two blocks of a day overlap; an active day uses the time there is, but
\* for minutes lost in rounding and the rest that is granted on top of it,
\* applies no more than the limit allows and rests for half an hour.  The
\* endpoint bounds neither number: a rest day shorter than half an hour or
\* longer than to the evening, and a burnout day of some minutes, are excepted
\* (_build_time_blocks and _build_rest_day).
DayFits ==
    answered /\ (question.restDay => question.minutes \in 31..(Evening - Morning + 30)) =>
      /\ \A i \in DOMAIN answer : answer[i].length > 0
      /\ \A i, k \in DOMAIN answer :
           i < k => answer[i].start + answer[i].length <= answer[k].start
      /\ ~question.restDay =>
           LET spent == Spent({"apply", "network", "prep", "rest"})
           IN  /\ spent <= question.minutes + Granted(question)
               /\ spent >= question.minutes - 5
               /\ Spent({"apply"}) <= Limit(question) * MinutesPerApplication
               /\ question.minutes >= 10 => Spent({"rest"}) >= MinimumRest
=============================================================================
