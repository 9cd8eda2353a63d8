----------------------------- MODULE PayFigures -----------------------------
(***************************************************************************)
(* decode_ctc of LocaleService: what is left in hand of an Indian cost to  *)
(* company.  Amounts are rupees; the percentages of the code divide the    *)
(* amounts enumerated here without remainder, but for the tax, whose       *)
(* paise are dropped.                                                      *)
(***************************************************************************)
EXTENDS Integers, Functions, FiniteSetsExt

CONSTANTS
    Packages,   \* yearly costs to company, in lakhs (hundred thousands)
    OneTimes,   \* bonuses, shares and insurance within them, in lakhs
    Shares      \* variable parts of the recurring pay, in quarters

VARIABLES question, answer, answered

vars == <<question, answer, answered>>

Lakh == 100000

Questions == [ctc : Packages, oneTime : OneTimes, variable : Shares,
              city : {"METRO", "NON_METRO"}, regime : {"OLD", "NEW"}]

-----------------------------------------------------------------------------
\* float("inf"): the last slab has no upper bound.
Infinity == -1

Slabs(regime) ==
    IF regime = "NEW"
    THEN <<[low |-> 0,       high |-> 300000,    rate |-> 0],
           [low |-> 300000,  high |-> 700000,    rate |-> 5],
           [low |-> 700000,  high |-> 1000000,   rate |-> 10],
           [low |-> 1000000, high |-> 1200000,   rate |-> 15],
           [low |-> 1200000, high |-> 1500000,   rate |-> 20],
           [low |-> 1500000, high |-> Infinity,  rate |-> 30]>>
    ELSE <<[low |-> 0,       high |-> 250000,    rate |-> 0],
           [low |-> 250000,  high |-> 500000,    rate |-> 5],
           [low |-> 500000,  high |-> 1000000,   rate |-> 20],
           [low |-> 1000000, high |-> Infinity,  rate |-> 30]>>

StandardDeduction(regime) == IF regime = "NEW" THEN 75000 ELSE 50000

\* A mutant: the rate of a slab is applied to the whole income.
TaxedWhole(income, slab) == IF income <= slab.low THEN 0 ELSE income

TaxedIn(income, slab) ==
    IF income <= slab.low THEN 0
    ELSE (IF slab.high = Infinity THEN income ELSE Min({income, slab.high})) - slab.low

Income(gross, regime) == Max({0, gross - StandardDeduction(regime)})

\* Hundredths of rupees, before the cess: by slab, and of all slabs.
Levied(income, slabs) == [i \in DOMAIN slabs |-> TaxedIn(income, slabs[i]) * slabs[i].rate]

SlabTax(gross, regime) == FoldFunction(+, 0, Levied(Income(gross, regime), Slabs(regime)))

\* With the cess of 4 percent, in rupees.
Tax(gross, regime) == (SlabTax(gross, regime) * 26) \div 2500

-----------------------------------------------------------------------------
Recurring(q) == (q.ctc - q.oneTime) * Lakh

Decoded(q) ==
    LET variable == (Recurring(q) * q.variable) \div 4
        fixed    == Recurring(q) - variable
        basic    == (fixed * 2) \div 5
        hra      == IF q.city = "METRO" THEN basic \div 2 ELSE (basic * 2) \div 5
        pf       == (basic * 3) \div 25
        gratuity == (basic \div 10000) * 481
        special  == Max({0, fixed - basic - hra - pf - gratuity})
        gross    == basic + hra + special + variable
        tax      == Tax(gross, q.regime)
    IN  [variable |-> variable, basic |-> basic, hra |-> hra, pf |-> pf,
         gratuity |-> gratuity, special |-> special, gross |-> gross, tax |-> tax,
         inHand |-> gross - pf - tax]

Init == question = <<>> /\ answer = <<>> /\ answered = FALSE

Decode ==
    /\ ~answered
    /\ answered' = TRUE
    /\ \E q \in Questions : question' = q /\ answer' = Decoded(q)

Next == Decode

Spec == Init /\ [][Next]_vars

-----------------------------------------------------------------------------
Raised == [question EXCEPT !.ctc = @ + 1]

\* The lines of a breakdown are the recurring pay, none of them negative; a
\* higher package is more in hand in every city and regime; and what a raise
\* costs in tax is never more than the top rate of it, so no slab starts with
\* a jump.  One-time parts beyond the package are not refused by the endpoint
\* and decode into negative pay, which is excepted (decode_ctc).
PayAddsUp ==
    answered /\ Recurring(question) > 0 =>
      /\ answer.basic + answer.hra + answer.special + answer.pf + answer.gratuity
           + answer.variable = Recurring(question)
      /\ \A line \in {"basic", "hra", "special", "pf", "gratuity", "variable", "tax", "inHand"} :
           answer[line] >= 0
      /\ answer.inHand < Decoded(Raised).inHand
      /\ LET more == Decoded(Raised).gross - answer.gross
             cost == SlabTax(Decoded(Raised).gross, question.regime)
                       - SlabTax(answer.gross, question.regime)
         IN  more > 0 /\ 0 <= cost /\ cost <= 30 * more
=============================================================================
