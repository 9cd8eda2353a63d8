----------------------------- MODULE MCServices -----------------------------
(***************************************************************************)
(* An instance of Services: two requests, tasks or workers in each part.   *)
(***************************************************************************)
EXTENDS Services, TLC

Symmetry == Permutations(Clients) \cup Permutations(Chunks)

\* Two offers of one user and one of another.
MCOwner(o) == IF o = "o3" THEN "u2" ELSE "u1"

MCRegistry == <<"indeed_api", "naukri_scraper">>

MCPackages == 1..24
MCTerms == (0..9) \cup {24, 25, 48}
MCMinutes == {11 * k : k \in 0..60}
MCHistories == {<<0, 0>>, <<0, 1>>, <<2, 3>>, <<3, 2>>}

\* Bound of the ledger: two at a time, and overlapping tasks over two calls.
BusyClients == {c \in Clients : usageRequest[c].pc # "idle"}
BusyWorkers == {w \in Workers : rollup[w].pc # "idle"}

UsageBound ==
    /\ Cardinality(BusyClients) + Cardinality(BusyWorkers) <= 2
    /\ overlappedWeeks # {} => recorded <= 2

\* Bound of the sources: checks that overlap, or a check beside a task that makes
\* shortlists, or such tasks that overlap within two days.
BusyCheckers == {w \in Checkers : check[w].pc # "idle"}
BusyMakers == {w \in Makers : making[w].pc # "idle"}

SourcesBound ==
    \/ preferences = 0 /\ shortlistDay = 1 /\ ~health[Registry[2]].stored
    \/ /\ tangled = {} /\ Cardinality(BusyCheckers) < 2
       /\ \/ /\ shortlistDay = 1 /\ overlappedDays = {} /\ Cardinality(BusyMakers) < 2
             /\ failed[Registry[1]] <= 3 /\ failed[Registry[2]] <= 1
          \/ ~health[Registry[2]].stored /\ failed[Registry[1]] = 0

Bound ==
    /\ part = "usage" => UsageBound
    /\ part = "sources" => SourcesBound
=============================================================================
