-------------------------- MODULE SuccessAnalytics --------------------------
(***************************************************************************)
(* success_analytics.py: what a user's outcome trackers say together, by   *)
(* milestone, by strategy and by the time of submission.  A rate is a pair *)
(* of numbers; its rounding to four digits is left out, and so are the     *)
(* words for small samples.                                                *)
(***************************************************************************)
EXTENDS Integers, FiniteSetsExt, Sequences

CONSTANTS
    MaxTrackers,    \* bound: trackers of the user
    Statuses,       \* bound: outcome statuses they have
    Strategies,     \* names of resume strategies; "" where none was recorded
    Hours           \* hours of submission, on one day of the week

VARIABLES question, answer, answered

vars == <<question, answer, answered>>

NoHour == -1        \* a tracker without submitted_at

Tracker == [status : Statuses, strategy : Strategies \cup {""}, hour : Hours \cup {NoHour}]

\* The trackers in the order they are listed.
Questions == UNION {[1..n -> Tracker] : n \in 0..MaxTrackers}

-----------------------------------------------------------------------------
Viewed == {"viewed", "responded", "interview_scheduled", "offer_received"}
Responded == {"responded", "interview_scheduled", "offer_received"}
Interviewed == {"interview_scheduled", "offer_received"}

\* How many of the trackers "ids" have a status of "statuses".
Rate(trackers, ids, statuses) ==
    [count |-> Cardinality({i \in ids : trackers[i].status \in statuses}),
     total |-> Cardinality(ids)]

Higher(x, y) == x.count * y.total > y.count * x.total

\* _compute_rates
Rates(trackers) ==
    LET all == DOMAIN trackers
    IN  [view      |-> Rate(trackers, all, Viewed),
         response  |-> Rate(trackers, all, Responded),
         interview |-> Rate(trackers, all, Interviewed)]

Named(trackers) == {i \in DOMAIN trackers : trackers[i].strategy # ""}

\* Groups by strategy of the trackers "ids".
Groups(trackers, ids) ==
    {[name |-> s, members |-> {i \in ids : trackers[i].strategy = s}]
       : s \in {trackers[i].strategy : i \in ids}}

\* A mutant: the lowest response rate comes first.
AheadUpwards(trackers, g, h) ==
    LET x == Rate(trackers, g.members, Responded)
        y == Rate(trackers, h.members, Responded)
    IN  Higher(y, x) \/ (~Higher(x, y) /\ Min(g.members) < Min(h.members))

\* Whether group g comes before h: by their response rate; sorting is stable,
\* so groups with the same rate stay in the order in which they were first met.
Ahead(trackers, g, h) ==
    LET x == Rate(trackers, g.members, Responded)
        y == Rate(trackers, h.members, Responded)
    IN  Higher(x, y) \/ (~Higher(y, x) /\ Min(g.members) < Min(h.members))

Ranked(trackers, groups) ==
    [i \in 1..Cardinality(groups) |->
       CHOOSE g \in groups : Cardinality({h \in groups : Ahead(trackers, h, g)}) = i - 1]

\* get_ab_comparison: "unspecified" is a version like any other, and one
\* version alone is no comparison.
Comparison(trackers) ==
    LET groups == Groups(trackers, DOMAIN trackers)
    IN  IF Cardinality(groups) < 2 THEN <<>> ELSE Ranked(trackers, groups)

\* get_best_performing_strategies and _group_by_strategy pass over trackers
\* without a strategy.
Strategic(trackers) == Ranked(trackers, Groups(trackers, Named(trackers)))

\* get_timing_analysis
TimeBucket(hour) ==
    IF hour \in 6..11 THEN "morning"
    ELSE IF hour \in 12..16 THEN "afternoon"
    ELSE IF hour \in 17..20 THEN "evening"
    ELSE "night"

Timed(trackers) == {i \in DOMAIN trackers : trackers[i].hour # NoHour}

Windows(trackers) ==
    Ranked(trackers,
      {[name |-> b, members |-> {i \in Timed(trackers) : TimeBucket(trackers[i].hour) = b}]
         : b \in {TimeBucket(trackers[i].hour) : i \in Timed(trackers)}})

-----------------------------------------------------------------------------
Init == question = <<>> /\ answer = <<>> /\ answered = FALSE

Analyze ==
    /\ ~answered
    /\ answered' = TRUE
    /\ \E q \in Questions :
         /\ question' = q
         /\ answer' = [rates      |-> Rates(q),
                       comparison |-> Comparison(q),
                       strategies |-> Strategic(q),
                       windows    |-> Windows(q)]

Next == Analyze

Spec == Init /\ [][Next]_vars

-----------------------------------------------------------------------------
Response(g) == Rate(question, g.members, Responded)

\* The groups of a ranking are disjoint and hold the trackers "ids".
Partition(ranking, ids) ==
    /\ UNION {ranking[i].members : i \in DOMAIN ranking} = ids
    /\ \A i, k \in DOMAIN ranking : i # k => ranking[i].members \cap ranking[k].members = {}

\* The views of the same trackers agree: who reached a milestone reached those
\* before; the windows hold every tracker with a time once; the first version
\* of a comparison responds no less than all of them together, the last no
\* more; and the ranking of strategies is the comparison without the trackers
\* that have none (get_ab_comparison, get_strategy_comparison and
\* get_timing_analysis).
ViewsAgree ==
    answered =>
      LET versions == answer.comparison
          specified == {i \in DOMAIN versions : versions[i].name # ""}
      IN  /\ answer.rates.interview.count <= answer.rates.response.count
          /\ answer.rates.response.count <= answer.rates.view.count
          /\ Partition(answer.windows, Timed(question))
          /\ versions # <<>> =>
               /\ Partition(versions, DOMAIN question)
               /\ ~Higher(answer.rates.response, Response(versions[1]))
               /\ ~Higher(Response(versions[Len(versions)]), answer.rates.response)
               /\ \A i \in DOMAIN answer.strategies :
                    \E k \in specified : answer.strategies[i] = versions[k]
               /\ \A k \in specified :
                    \E i \in DOMAIN answer.strategies : answer.strategies[i] = versions[k]
               /\ \A i, k \in DOMAIN answer.strategies :
                    i < k => \E a, b \in specified :
                               a < b /\ answer.strategies[i] = versions[a] /\ answer.strategies[k] = versions[b]
=============================================================================
