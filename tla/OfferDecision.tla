---------------------------- MODULE OfferDecision ----------------------------
(***************************************************************************)
(* decision_framework.py behind POST /negotiation/decide: offers scored by *)
(* weighted criteria, ranked, and asked which criterion, given more        *)
(* weight, would change the choice.  Weights are twentieths; the rounding  *)
(* of sums to four digits is left out.                                     *)
(***************************************************************************)
EXTENDS Integers, Sequences, FiniteSetsExt, Functions

CONSTANTS
    Pays,       \* yearly pay of an offer
    Weights     \* weights of a criterion, in twentieths

VARIABLES question, answer, answered

vars == <<question, answer, answered>>

\* other: any criterion the code has no data for
Criteria == {"compensation", "growth", "location", "other"}

Offer == [pay : Pays, equity : BOOLEAN, market : BOOLEAN]

Total(weights) == FoldFunction(+, 0, weights)

\* Two offers of any kind or three in one market, in the order they were
\* asked about, with weights that add up to one, give or take a twentieth.
\* Bound: the endpoint takes more offers, and negative weights as well.
Questions ==
    [offers : [1..2 -> Offer] \cup [1..3 -> [pay : Pays, equity : BOOLEAN, market : {TRUE}]],
     weights : {w \in [Criteria -> Weights] : Total(w) \in 19..21}]

-----------------------------------------------------------------------------
\* _score_offers_deterministic

Scores(offers) ==
    LET pays == {offers[k].pay : k \in DOMAIN offers}
        low  == Min(pays)
        span == IF Max(pays) > low THEN Max(pays) - low ELSE 1
    IN  [i \in DOMAIN offers |->
           [compensation |-> ((offers[i].pay - low) * 10) \div span,
            growth       |-> IF offers[i].equity THEN 7 ELSE 5,
            location     |-> IF offers[i].market THEN 6 ELSE 5,
            other        |-> 5]]

Weighted(score, weights) == Total([c \in Criteria |-> score[c] * weights[c]])

\* The offers by their totals.
Totals(scores, weights) == [i \in DOMAIN scores |-> Weighted(scores[i], weights)]
Best(totals) == {i \in DOMAIN totals : \A k \in DOMAIN totals : totals[k] <= totals[i]}

\* Sorting is stable, and the maximum is the first of its kind: of equal
\* offers the one asked about first stays in front.
Leader(scores, weights) == Min(Best(Totals(scores, weights)))

\* _run_sensitivity: a tenth more for one criterion, taken from the others in
\* proportion; everything times the total of the others.
Delta == 2
Others(weights, criterion) == Total(weights) - weights[criterion]

\* A mutant: each of the others gives up the tenth.
PerturbedEach(weights, criterion) ==
    [c \in Criteria |-> IF c = criterion THEN weights[c] + Delta ELSE weights[c] - Delta]

Perturbed(weights, criterion) ==
    LET others == Others(weights, criterion)
    IN  [c \in Criteria |->
           IF others = 0 THEN IF c = criterion THEN weights[c] + Delta ELSE weights[c]
           ELSE IF c = criterion THEN (weights[c] + Delta) * others
           ELSE weights[c] * (others - Delta)]

\* Who leads with the perturbed weights: the rows are asked in their ranking,
\* so the leader stays in front of its equals.
Overtakers(scores, weights, criterion) ==
    LET best == Best(Totals(scores, Perturbed(weights, criterion)))
    IN  IF Leader(scores, weights) \in best THEN {} ELSE best

-----------------------------------------------------------------------------
Init == question = <<>> /\ answer = <<>> /\ answered = FALSE

Decide ==
    /\ ~answered
    /\ answered' = TRUE
    /\ \E q \in Questions :
         LET scores == Scores(q.offers)
         IN  /\ question' = q
             /\ answer' = [leader |-> Leader(scores, q.weights),
                           overtakers |-> [c \in Criteria |-> Overtakers(scores, q.weights, c)]]

Next == Decide

Spec == Init /\ [][Next]_vars

-----------------------------------------------------------------------------
Better(i, k, criterion) ==
    Scores(question.offers)[i][criterion] > Scores(question.offers)[k][criterion]

\* The recommended offer is beaten by none on all that counts, and more
\* weight on a criterion lets another overtake it only if that one is better
\* by this criterion.  The second part needs weights of which at least a
\* tenth is left for the other criteria; below that their perturbed weights
\* turn negative, which the endpoint does not rule out
\* (compute_decision_matrix and _run_sensitivity).
StrongerOfferLeads ==
    answered =>
      LET counts == {c \in Criteria : question.weights[c] > 0}
      IN  /\ \A i \in DOMAIN question.offers :
               (\E c \in counts : Better(i, answer.leader, c)) =>
                 \E c \in counts : Better(answer.leader, i, c)
          /\ \A c \in Criteria : Others(question.weights, c) >= Delta =>
               \A i \in answer.overtakers[c] : Better(i, answer.leader, c)
=============================================================================
