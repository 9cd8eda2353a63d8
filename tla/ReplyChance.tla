----------------------------- MODULE ReplyChance -----------------------------
(***************************************************************************)
(* effort_per_chance_engine.py behind POST /wellness/roi-predict: how      *)
(* likely an application is to be answered, from four factors and from how *)
(* the user's own applications fared.  Factors are hundredths and chances  *)
(* hundredths of a percent; their rounding to tenths is left out.          *)
(***************************************************************************)
EXTENDS Integers, FiniteSetsExt

CONSTANTS
    CompanyHistories,   \* <<responses, applications>> with the company
    Levels,             \* score_role_competition of the seniority
    Overlaps,           \* skills in common, in hundredths
    Ages,               \* days since the job was posted
    Applications,       \* the user's tracked applications
    Responses           \* and what counts as their responses

VARIABLES question, answer, answered

vars == <<question, answer, answered>>

\* Nothing keeps the responses from exceeding the applications.
Questions == [company : CompanyHistories, level : Levels, overlap : Overlaps, age : Ages,
              applications : Applications, responses : Responses]

DefaultRate == 15           \* DEFAULT_RESPONSE_RATE
Partial == 10               \* PARTIAL_PERSONALIZATION_THRESHOLD
Full == 50                  \* FULL_PERSONALIZATION_THRESHOLD

-----------------------------------------------------------------------------
\* score_company_response_rate, score_user_fit and score_submission_timing

CompanyRate(history) ==
    IF history[2] = 0 THEN DefaultRate ELSE Min({(100 * history[1]) \div history[2], 100})

Fit(overlap) == Max({0, Min({overlap, 100})})

Timing(age) ==
    IF age <= 3 THEN 100
    ELSE IF age <= 7 THEN 70
    ELSE IF age <= 14 THEN 40
    ELSE 20

\* calculate_probability
Probability(q) ==
    Min({30 * CompanyRate(q.company) + 20 * q.level + 35 * Fit(q.overlap) + 15 * Timing(q.age),
         10000})

\* get_historical_calibration: the multiplier, before it is kept within a
\* tenth and three, as a fraction.

\* A mutant: the weights of the own and the general rate are swapped.
MultiplierSwapped(n, responses) ==
    IF n < Partial THEN [num |-> 1, den |-> 1]
    ELSE IF n >= Full THEN [num |-> 100 * responses, den |-> DefaultRate * n]
    ELSE [num |-> 100 * responses * (Full - n) + DefaultRate * n * n,
          den |-> DefaultRate * Full * n]

Multiplier(n, responses) ==
    IF n < Partial THEN [num |-> 1, den |-> 1]
    ELSE IF n >= Full THEN [num |-> 100 * responses, den |-> DefaultRate * n]
    ELSE [num |-> 100 * responses + DefaultRate * (Full - n), den |-> DefaultRate * Full]

\* predict
Adjusted(q) ==
    LET base == Probability(q)
        m    == Multiplier(q.applications, q.responses)
    IN  Min({Max({base \div 10, Min({(base * m.num) \div m.den, 3 * base})}), 10000})

Classification(chance) ==
    IF chance > 4000 THEN "HIGH_ROI"
    ELSE IF chance >= 1500 THEN "WORTH_A_SHOT"
    ELSE "SKIP_IT"

-----------------------------------------------------------------------------
Init == question = <<>> /\ answer = <<>> /\ answered = FALSE

Predict ==
    /\ ~answered
    /\ answered' = TRUE
    /\ \E q \in Questions :
         question' = q /\ answer' = [chance |-> Adjusted(q), class |-> Classification(Adjusted(q))]

Next == Predict

Spec == Init /\ [][Next]_vars

-----------------------------------------------------------------------------
\* A job that is better by one factor has no lower a chance.  Once the own
\* history counts, another response never lowers the chance and another
\* application without one never raises it, where the partial calibration
\* hands over to the full one as well; and the own history raises it only for
\* who is answered at least as often as users in general
\* (get_historical_calibration and predict).
ChanceFollowsHistory ==
    answered =>
      LET q == question
          here == answer.chance
      IN  /\ here <= Adjusted([q EXCEPT !.level = @ + 1])
          /\ here <= Adjusted([q EXCEPT !.overlap = @ + 1])
          /\ q.age > 0 => here <= Adjusted([q EXCEPT !.age = @ - 1])
          /\ here <= Adjusted([q EXCEPT !.responses = @ + 1])
          /\ q.applications >= Partial =>
               Adjusted([q EXCEPT !.applications = @ + 1]) <= here
          /\ 100 * q.responses < DefaultRate * q.applications => here <= Probability(q)
=============================================================================
