----------------------------- MODULE EquityGrant -----------------------------
(***************************************************************************)
(* ESOPValuationService: when the shares of a grant vest, and what is left *)
(* of them after both taxes at three exits.  Months are the code's spans   *)
(* of 30 days; amounts are eightieths of a rupee, which makes every        *)
(* multiple and rate of the code a whole number of them.                   *)
(***************************************************************************)
EXTENDS Integers, Sequences, FiniteSetsExt, Functions

CONSTANTS
    Grants,     \* numbers of shares
    Cliffs,     \* months to the cliff
    Terms,      \* months to the end of vesting
    Prices      \* strike prices and values of a share, in rupees

VARIABLES question, answer, answered

vars == <<question, answer, answered>>

Questions == [shares : Grants, cliff : Cliffs, term : Terms, every : {1, 3},
              strike : Prices, value : Prices]

-----------------------------------------------------------------------------
\* _build_vesting_timeline

Later(q) == q.term - q.cliff
Tranches(q) == Max({1, Later(q) \div q.every})

\* A cliff of no months has no tranche of its own.
AtCliff(q) == (q.shares * q.cliff) \div q.term

\* A mutant: what does not divide evenly is left out.
AfterCliffEven(q, i) == (q.shares - AtCliff(q)) \div Tranches(q)

\* The last tranche gets what does not divide evenly.
AfterCliff(q, i) ==
    LET rest == q.shares - AtCliff(q)
        each == rest \div Tranches(q)
    IN  IF i = Tranches(q) THEN rest - each * (i - 1) ELSE each

Timeline(q) ==
    IF q.term = 0 \/ q.shares = 0 THEN <<>>
    ELSE IF Later(q) <= 0 THEN <<[month |-> q.cliff, shares |-> q.shares]>>
    ELSE (IF AtCliff(q) > 0 THEN <<[month |-> q.cliff, shares |-> AtCliff(q)]>> ELSE <<>>)
         \o [i \in 1..Tranches(q) |->
               [month |-> q.cliff + i * q.every, shares |-> AfterCliff(q, i)]]

-----------------------------------------------------------------------------
\* _calculate_exit_scenario, at one and a half, three and five times the
\* value of today.

Halves == <<3, 6, 10>>
Exemption == 80 * 125000
LongTermMonths == 24

\* Gains before either tax, and the two amounts that are taxed.
PreTax(q, exit) == 40 * (q.value * Halves[exit] - 2 * q.strike) * q.shares
Perquisite(q) == Max({0, 80 * (q.value - q.strike) * q.shares})
CapitalGain(q, exit) == 40 * q.value * (Halves[exit] - 2) * q.shares

\* At a slab of 30 percent, the default of the endpoint.
AtSlab(amount) == (amount \div 10) * 3

CapitalTax(q, exit) ==
    IF q.term > LongTermMonths
    THEN Max({0, CapitalGain(q, exit) - Exemption}) \div 8
    ELSE AtSlab(CapitalGain(q, exit))

Net(q, exit) == Max({0, PreTax(q, exit) - AtSlab(Perquisite(q)) - CapitalTax(q, exit)})

-----------------------------------------------------------------------------
Init == question = <<>> /\ answer = <<>> /\ answered = FALSE

Value ==
    /\ ~answered
    /\ answered' = TRUE
    /\ \E q \in Questions :
         /\ question' = q
         /\ answer' = [timeline |-> Timeline(q),
                       nets |-> [exit \in DOMAIN Halves |-> Net(q, exit)]]

Next == Value

Spec == Init /\ [][Next]_vars

-----------------------------------------------------------------------------
Vested(tranches) ==
    FoldFunction(+, 0, [i \in DOMAIN tranches |-> tranches[i].shares])

\* The tranches of a grant are the whole grant; they come in order, none
\* before the cliff, and the last within a tranche's length of the end of
\* vesting; at the cliff no more vests than the share of the time passed.
\* Of a share worth its strike price each rupee of gain is taxed once, by one
\* of the two taxes, and a better exit is never less after tax
\* (_build_vesting_timeline and _calculate_exit_scenario).
GrantAddsUp ==
    answered =>
      LET tranches == answer.timeline
          last == tranches[Len(tranches)].month
      IN  /\ tranches # <<>> =>
               /\ Vested(tranches) = question.shares
               /\ \A i \in DOMAIN tranches :
                    /\ tranches[i].shares >= 0
                    /\ tranches[i].month >= question.cliff
                    /\ i > 1 => tranches[i - 1].month < tranches[i].month
                    /\ tranches[i].month = question.cliff =>
                         tranches[i].shares * question.term <= question.shares * question.cliff
                         \/ question.term <= question.cliff
               /\ last < question.term + question.every \/ last = question.cliff
               /\ question.term < last + question.every
          /\ \A exit \in DOMAIN Halves :
               /\ question.strike <= question.value =>
                    Perquisite(question) + CapitalGain(question, exit) = PreTax(question, exit)
               /\ exit > 1 => answer.nets[exit - 1] <= answer.nets[exit]
=============================================================================
