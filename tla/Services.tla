------------------------------ MODULE Services ------------------------------
(***************************************************************************)
(* The services behind the endpoints, side by side: a behaviour takes one  *)
(* of them, "part", from its initial states, and the variables of the      *)
(* others keep the value they start with.  The calculators share theirs:   *)
(* each is asked one question and answers it.                              *)
(***************************************************************************)
EXTENDS Integers, FiniteSets, Sequences

CONSTANTS
    Clients,                        \* slots for requests or background tasks
    \* SearchIndex
    Chunks, MaxRuns, MaxResults,
    \* DescriptionCache
    CacheDays, RedisDays, MongoDays, NoEntry,
    \* OutcomeTracker
    Applications,
    \* NegotiationOutcomes
    Offers, Owner(_), Families, Stages, MinCohort,
    \* UsageLedger
    Workers, LedgerDays, WeekDays, MonthDays, Costs, MaxCalls, MaxRecorded,
    \* JobSources
    Registry, Checkers, Makers, SourceDays, MaxEdits, MaxFailures,
    \* Chunker
    MaxLines, MaxTokens, Overlap,
    \* PayFigures
    Packages, OneTimes, Shares,
    \* EquityGrant
    Grants, Cliffs, Terms, Prices,
    \* MarketPosition
    MaxPay,
    \* OfferDecision
    Pays, Weights,
    \* WeekPlan
    Minutes, Limits,
    \* SuccessAnalytics
    MaxTrackers, Statuses, Strategies, Hours,
    \* ReplyChance
    CompanyHistories, Levels, Overlaps, Ages, Submissions, Responses

\* Counts, lifetimes and bounds are natural numbers, the value that stands for no
\* entry of a store is none, and what is under way at once is finite.
ASSUME ClientsAssumption       == IsFiniteSet(Clients)
ASSUME ChunksAssumption        == IsFiniteSet(Chunks)
ASSUME RunsAssumption          == MaxRuns \in Nat
ASSUME ResultsAssumption       == MaxResults \in Nat
ASSUME LifetimesAssumption     == CacheDays \in Nat /\ RedisDays \in Nat \ {0} /\ MongoDays \in Nat
ASSUME NoEntryAssumption       == NoEntry \notin Nat /\ NoEntry \notin [made : Nat, until : Nat]
ASSUME LedgerDaysAssumption    == LedgerDays \in Nat \ {0}
ASSUME CostsAssumption         == Costs \subseteq Nat
ASSUME CallsAssumption         == MaxCalls \in Nat
ASSUME RegistryAssumption      == Len(Registry) \in Nat \ {0} /\ DOMAIN Registry = 1..Len(Registry)
ASSUME MakersAssumption        == IsFiniteSet(Makers)
ASSUME SourceDaysAssumption    == SourceDays \in Nat \ {0}
ASSUME EditsAssumption         == MaxEdits \in Nat
ASSUME FailuresAssumption      == MaxFailures \in Nat
ASSUME PayAssumption           == Packages \subseteq Nat /\ OneTimes \subseteq Nat /\ Shares \subseteq 0..4
ASSUME GrantAssumption         == \A S \in {Grants, Cliffs, Terms, Prices} : S \subseteq Nat
ASSUME MaxPayAssumption        == MaxPay \in Nat
ASSUME DecisionAssumption      == Pays \subseteq Nat /\ Weights \subseteq Nat
ASSUME WeekAssumption          == Minutes \subseteq Nat /\ Limits \subseteq Nat
ASSUME ChunkingAssumption      == /\ MaxLines \in Nat /\ MaxTokens \in Nat /\ Overlap \in Nat
                                  /\ Overlap < MaxTokens
ASSUME TrackersAssumption      == MaxTrackers \in Nat
ASSUME ChanceAssumption        ==
    /\ CompanyHistories \subseteq Nat \X Nat
    /\ \A S \in {Levels, Overlaps, Ages, Submissions, Responses} : S \subseteq Nat

Calculators == {"chunks", "pay", "grant", "position", "decision", "plan", "analytics",
                "chance"}
Parts == Calculators \cup {"index", "cache", "outcome", "benchmarks", "usage", "sources"}

VARIABLES
    part,
    \* SearchIndex
    document, objects, runs, runHandler, holds,
    \* DescriptionCache
    day, redis, mongo, lookup, served,
    \* OutcomeTracker
    present, tracker, outcomeRequest,
    \* NegotiationOutcomes
    offer, offerHandler, overlapped, named,
    \* UsageLedger
    today, daily, weekly, monthly, recorded, usageRequest, rollup, missed, told,
    overlappedWeeks,
    \* JobSources
    shortlistDay, health, preferences, shortlists, check, making, failed, tangled,
    overlappedDays,
    \* the calculators
    question, answer, answered

indexVars == <<document, objects, runs, runHandler, holds>>
cacheVars == <<day, redis, mongo, lookup, served>>
outcomeVars == <<present, tracker, outcomeRequest>>
offerVars == <<offer, offerHandler, overlapped, named>>
usageVars == <<today, daily, weekly, monthly, recorded, usageRequest, rollup, missed,
               told, overlappedWeeks>>
sourceVars == <<shortlistDay, health, preferences, shortlists, check, making, failed,
                tangled, overlappedDays>>
askedVars == <<question, answer, answered>>

vars == <<part, indexVars, cacheVars, outcomeVars, offerVars, usageVars, sourceVars,
          askedVars>>

Index    == INSTANCE SearchIndex
              WITH Slots <- Clients, handler <- runHandler
Cache    == INSTANCE DescriptionCache
              WITH Requests <- Clients, LastDay <- CacheDays
Outcome  == INSTANCE OutcomeTracker
              WITH Requests <- Clients, request <- outcomeRequest
Deals    == INSTANCE NegotiationOutcomes
              WITH Requests <- Clients, handler <- offerHandler
Usage    == INSTANCE UsageLedger
              WITH LastDay <- LedgerDays, request <- usageRequest,
                   overlapped <- overlappedWeeks
Sources  == INSTANCE JobSources
              WITH LastDay <- SourceDays, today <- shortlistDay,
                   overlapped <- overlappedDays
Cutting  == INSTANCE Chunker
Pay      == INSTANCE PayFigures
Grant    == INSTANCE EquityGrant
Market   == INSTANCE MarketPosition
Decision == INSTANCE OfferDecision
Week     == INSTANCE WeekPlan
Success  == INSTANCE SuccessAnalytics
Chance   == INSTANCE ReplyChance
              WITH Applications <- Submissions

Init ==
    /\ part \in Parts
    /\ Index!Init
    /\ part = "index" \/ document.kind = "job"
    /\ Cache!Init
    /\ Outcome!Init
    /\ Deals!Init
    /\ Usage!Init
    /\ Sources!Init
    /\ Cutting!Init

Next ==
    \/ /\ part = "index" /\ Index!Next
       /\ UNCHANGED <<part, cacheVars, outcomeVars, offerVars, usageVars, sourceVars, askedVars>>
    \/ /\ part = "cache" /\ Cache!Next
       /\ UNCHANGED <<part, indexVars, outcomeVars, offerVars, usageVars, sourceVars, askedVars>>
    \/ /\ part = "outcome" /\ Outcome!Next
       /\ UNCHANGED <<part, indexVars, cacheVars, offerVars, usageVars, sourceVars, askedVars>>
    \/ /\ part = "benchmarks" /\ Deals!Next
       /\ UNCHANGED <<part, indexVars, cacheVars, outcomeVars, usageVars, sourceVars, askedVars>>
    \/ /\ part = "usage" /\ Usage!Next
       /\ UNCHANGED <<part, indexVars, cacheVars, outcomeVars, offerVars, sourceVars, askedVars>>
    \/ /\ part = "sources" /\ Sources!Next
       /\ UNCHANGED <<part, indexVars, cacheVars, outcomeVars, offerVars, usageVars, askedVars>>
    \/ /\ UNCHANGED <<part, indexVars, cacheVars, outcomeVars, offerVars, usageVars,
                      sourceVars>>
       /\ \/ part = "chunks" /\ Cutting!Next
          \/ part = "pay" /\ Pay!Next
          \/ part = "grant" /\ Grant!Next
          \/ part = "position" /\ Market!Next
          \/ part = "decision" /\ Decision!Next
          \/ part = "plan" /\ Week!Next
          \/ part = "analytics" /\ Success!Next
          \/ part = "chance" /\ Chance!Next

Spec == Init /\ [][Next]_vars

-----------------------------------------------------------------------------
\* The stores and handlers of the part under way have their types.
TypeOK ==
    /\ part \in Parts
    /\ part = "index" => Index!TypeOK
    /\ part = "cache" => Cache!TypeOK
    /\ part = "outcome" => Outcome!TypeOK
    /\ part = "benchmarks" => Deals!TypeOK
    /\ part = "usage" => Usage!TypeOK
    /\ part = "sources" => Sources!TypeOK
    /\ answered \in BOOLEAN
    /\ part \notin Calculators => ~answered

\* A document has one object for each of its chunks after a run that indexed
\* it, and none after its removal, save after runs that overlapped or broke
\* (IndexingService).
IndexTellsText == part = "index" => Index!IndexTellsText

\* No analysis is served beyond the lifetimes of both stores together; a source's
\* status is "down" from the third failed check in a row on, neither earlier nor
\* longer, and a user has one shortlist a day (get_or_analyze of
\* jd_cache_service.py, record_check of data_source_health_repository.py and
\* _generate_all_shortlists of discovery_tasks.py).
ServedIsFresh ==
    /\ part = "cache" => Cache!ServedIsFresh
    /\ part = "sources" => Sources!StatusTellsChecks /\ Sources!OneShortlistADay

\* What became of an application is told by a legal chain of transitions, which
\* its milestones agree with; a benchmark rests on outcomes of enough users of
\* one role, region and stage, and recording another outcome keeps an offer in
\* it (create_or_update_tracker of outcome_service.py, record_outcome and
\* get_anonymized_benchmarks of offer_repository.py).
OutcomesAreTold ==
    /\ part = "outcome" => Outcome!TransitionsLeadToStatus /\ Outcome!RatesTellHistory
    /\ part = "benchmarks" => Deals!BenchmarkIsShared /\ Deals!FamilyKept

\* Nothing of a text is lost or embedded under another heading, and the views of
\* a user's outcomes agree (chunk_resume, chunk_job_description and
\* chunk_fixed_size of chunker.py; success_analytics.py).
NothingIsLost ==
    /\ part = "chunks" => Cutting!ChunksCoverText
    /\ part = "analytics" => Success!ViewsAgree

\* The lines of a breakdown are the pay, and a higher package is more in hand;
\* the tranches of a grant are the whole grant, and each rupee of gain is taxed
\* once; and what calls of models cost is counted once, and no sum of a week or
\* month says more than its days (decode_ctc of locale_service.py, valuate of
\* esop_valuation_service.py, cost_tracker.py and cost_tasks.py).
FiguresAddUp ==
    /\ part = "pay" => Pay!PayAddsUp
    /\ part = "grant" => Grant!GrantAddsUp
    /\ part = "usage" => Usage!LedgerTellsCalls

\* A higher pay never stands lower in the same market, the recommended offer is
\* beaten by none on all that counts, and a better job or history has no lower
\* a chance of a reply (_compute_percentile of market_positioning.py,
\* compute_decision_matrix of decision_framework.py, predict of
\* effort_per_chance_engine.py).
BetterIsNotLower ==
    /\ part = "position" => Market!PercentileInOrder
    /\ part = "decision" => Decision!StrongerOfferLeads
    /\ part = "chance" => Chance!ChanceFollowsHistory

\* The blocks of a day do not overlap and fit into it (_build_time_blocks of
\* batch_and_breathe_scheduler.py).
DayFits == part = "plan" => Week!DayFits
=============================================================================
