--------------------------- MODULE MarketPosition ---------------------------
(***************************************************************************)
(* _compute_percentile of market_positioning.py: where an offer stands     *)
(* among four percentiles of a salary benchmark, in hundredths of a        *)
(* percentile.                                                             *)
(***************************************************************************)
EXTENDS Integers, FiniteSetsExt

CONSTANTS MaxPay    \* bound: pay of offers and benchmarks, in some unit

VARIABLES question, answer, answered

vars == <<question, answer, answered>>

\* compute_market_position answers offers without pay by itself; percentiles
\* may coincide.
Benchmarks == {b \in [1..4 -> 0..MaxPay] : \A i \in 1..3 : b[i] <= b[i + 1]}
Questions == [pay : 1..(2 * MaxPay), benchmark : Benchmarks]

Marks == <<2500, 5000, 7500, 9000>>

-----------------------------------------------------------------------------
\* The intervals between two percentiles that hold the pay, both ends
\* included.
Holding(pay, b) == {i \in 1..3 : b[i] <= pay /\ pay <= b[i + 1]}

Between(pay, b, i) ==
    IF b[i] = b[i + 1] THEN Marks[i]
    ELSE Marks[i] + ((pay - b[i]) * (Marks[i + 1] - Marks[i])) \div (b[i + 1] - b[i])

Below(pay, b) == IF b[1] > 0 THEN (2500 * pay) \div b[1] ELSE 0

\* A mutant: the scale has no end.
BeyondUncapped(pay, b) == 9000 + ((pay - b[4]) * 1000) \div (b[4] - b[3])

Beyond(pay, b) ==
    Min({9900, 9000 + ((pay - b[4]) * 1000) \div (b[4] - b[3])})

Percentile(pay, b) ==
    IF pay <= b[1] THEN Below(pay, b)
    ELSE IF Holding(pay, b) # {} THEN Between(pay, b, Min(Holding(pay, b)))
    ELSE IF b[3] < b[4] THEN Beyond(pay, b)
    ELSE 9000

-----------------------------------------------------------------------------
Init == question = <<>> /\ answer = <<>> /\ answered = FALSE

Position ==
    /\ ~answered
    /\ answered' = TRUE
    /\ \E q \in Questions :
         question' = q /\ answer' = <<Percentile(q.pay, q.benchmark)>>

Next == Position

Spec == Init /\ [][Next]_vars

-----------------------------------------------------------------------------
\* A higher pay never stands lower in the same market, where one formula hands
\* over to the next as well; no pay leaves the scale; and with four different
\* percentiles the pay of each stands at it (_compute_percentile).
PercentileInOrder ==
    answered =>
      LET b == question.benchmark
          here == answer[1]
      IN  /\ here \in 0..9900
          /\ here <= Percentile(question.pay + 1, b)
          /\ (\A i \in 1..3 : b[i] < b[i + 1]) =>
               \A i \in 1..4 : b[i] = question.pay => here = Marks[i]
=============================================================================
