------------------------ MODULE NegotiationOutcomes ------------------------
(***************************************************************************)
(* How negotiations over offers ended, and the benchmarks that are made of *)
(* the outcomes of all users: POST /offers/{id}/outcome and                *)
(* GET /offers/benchmarks of api/routes/offers.py.  The figures themselves *)
(* are left out; what counts is whose outcomes they rest on.               *)
(***************************************************************************)
EXTENDS Integers, FiniteSets

CONSTANTS
    Requests,   \* slots for requests that record an outcome
    Offers,
    Owner(_),   \* the user an offer belongs to
    Families,   \* role families in one region
    Stages,     \* stages of companies
    MinCohort   \* users whose outcomes make a benchmark

VARIABLES
    offer,      \* offer -> Offer document
    handler,    \* slot -> the handler of a request
    overlapped, \* offers that two requests recorded at a time (history)
    named       \* offers that were saved with a family (history)

vars == <<offer, handler, overlapped, named>>

NotGiven == ""

\* role_family with region, company_stage; negotiation_outcome is None as long
\* as nothing is recorded.
Offer == [recorded : BOOLEAN, family : Families \cup {NotGiven},
          stage : Stages \cup {NotGiven}]

NoOffer == [recorded |-> FALSE, family |-> NotGiven, stage |-> NotGiven]

\* document: the whole offer as the request read it, with its own changes.
Handler == [pc : {"idle", "save"}, offer : Offers \cup {NotGiven}, document : Offer]

NoHandler == [pc |-> "idle", offer |-> NotGiven, document |-> NoOffer]

Init ==
    /\ offer = [o \in Offers |-> NoOffer]
    /\ handler = [r \in Requests |-> NoHandler]
    /\ overlapped = {}
    /\ named = {}

-----------------------------------------------------------------------------
\* record_outcome

\* A mutant: an empty field clears what the offer has.
FilledAlways(given, kept) == given

\* An empty field leaves what the offer has.
Filled(given, kept) == IF given = NotGiven THEN kept ELSE given

Read(r, o, family, stage) ==
    /\ handler[r].pc = "idle"
    /\ handler' = [handler EXCEPT
         ![r] = [pc |-> "save", offer |-> o,
                 document |-> [recorded |-> TRUE,
                               family |-> Filled(family, offer[o].family),
                               stage |-> Filled(stage, offer[o].stage)]]]
    /\ overlapped' = IF \E q \in Requests : handler[q].offer = o
                     THEN overlapped \cup {o} ELSE overlapped
    /\ UNCHANGED <<offer, named>>

\* save() writes the whole document.
Save(r) ==
    /\ handler[r].pc = "save"
    /\ LET o == handler[r].offer
       IN  /\ offer' = [offer EXCEPT ![o] = handler[r].document]
           /\ named' = IF handler[r].document.family = NotGiven THEN named
                       ELSE named \cup {o}
    /\ handler' = [handler EXCEPT ![r] = NoHandler]
    /\ UNCHANGED overlapped

\* The process restarts.
Restart ==
    /\ \E r \in Requests : handler[r].pc # "idle"
    /\ handler' = [r \in Requests |-> NoHandler]
    /\ UNCHANGED <<offer, overlapped, named>>

-----------------------------------------------------------------------------
\* get_anonymized_benchmarks and get_benchmarks

\* $match
Matching(family, stage) ==
    {o \in Offers : /\ offer[o].recorded
                    /\ offer[o].family = family
                    /\ stage = NotGiven \/ offer[o].stage = stage}

\* $group by stage as well, in no order.
Groups(family, stage) ==
    {{o \in Matching(family, stage) : offer[o].stage = offer[p].stage}
       : p \in Matching(family, stage)}

\* A mutant: outcomes are counted in the place of users.
CohortOfOutcomes(group) == group

Cohort(group) == {Owner(o) : o \in group}

\* What a query may answer, while nothing is written: results[0], or a cohort
\* of size 0.
Benchmarks(family, stage) ==
    {[group |-> group, available |-> Cardinality(Cohort(group)) >= MinCohort] :
       group \in IF Groups(family, stage) = {} THEN {{}} ELSE Groups(family, stage)}

-----------------------------------------------------------------------------
Next ==
    \/ \E r \in Requests, o \in Offers,
          family \in Families \cup {NotGiven}, stage \in Stages \cup {NotGiven} :
            Read(r, o, family, stage)
    \/ \E r \in Requests : Save(r)
    \/ Restart

Spec == Init /\ [][Next]_vars

-----------------------------------------------------------------------------
\* The documents and handlers have their types.
TypeOK ==
    /\ offer \in [Offers -> Offer]
    /\ handler \in [Requests -> Handler]
    /\ overlapped \subseteq Offers
    /\ named \subseteq Offers

Users(offers) == {Owner(o) : o \in offers}

Fits(o, family, stage) ==
    /\ offer[o].recorded
    /\ offer[o].family = family
    /\ stage \in {NotGiven, offer[o].stage}

\* A benchmark is only served where at least MinCohort users recorded an
\* outcome that fits the query, and it then rests on outcomes of one stage;
\* where a stage is asked for it is served whenever so many did
\* (get_anonymized_benchmarks, "only returns results when distinct user count
\* >= 10").
BenchmarkIsShared ==
    \A family \in Families, stage \in Stages \cup {NotGiven} :
      LET fitting == {o \in Offers : Fits(o, family, stage)}
      IN  \A b \in Benchmarks(family, stage) :
            /\ b.available =>
                 /\ b.group \subseteq fitting
                 /\ Cardinality(Users(b.group)) >= MinCohort
                 /\ \A o, p \in b.group : offer[o].stage = offer[p].stage
            /\ stage # NotGiven /\ Cardinality(Users(fitting)) >= MinCohort =>
                 b.available

\* Recording another outcome without naming the family leaves the offer in the
\* benchmark it is in, unless two requests overlapped: then the one that saves
\* last writes back what it had read (OfferRepository.record_outcome).
FamilyKept ==
    \A o \in named : offer[o].recorded /\ (offer[o].family = NotGiven => o \in overlapped)
=============================================================================
