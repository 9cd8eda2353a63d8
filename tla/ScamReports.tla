----------------------------- MODULE ScamReports -----------------------------
(***************************************************************************)
(* Community reports of scams: POST /trust/report and                      *)
(* /trust/deepfake-report of api/routes/trust.py, the review of            *)
(* api/routes/admin_trust.py, ScamReportService and its repository.        *)
(*                                                                         *)
(* A report is stored first and the badge of its entity looked at after:   *)
(* the duplicate check, the insert, the look at the badge, the count of    *)
(* the reporters and the badge itself are five awaits.  An entity has its  *)
(* badge if any of its reports carries the flag.                           *)
(***************************************************************************)
EXTENDS Naturals, FiniteSets

CONSTANTS
    Requests,           \* slots for requests under way
    Reporters,          \* users
    Entities,           \* entity identifiers; a deepfake report without a name
                        \* and an interview is about "unknown", one of them
    BadgeThreshold      \* _BADGE_THRESHOLD: 3

VARIABLES
    report,         \* entity -> reporter -> the ScamReport document
    request,        \* slot -> the handler that runs in it
    owed            \* entities with a report or a verification that was cut
                    \* off before the badge was looked at (history)

vars == <<report, request, owed>>

Report == [stored : BOOLEAN, verified : BOOLEAN, flagged : BOOLEAN]

NoReport == [stored |-> FALSE, verified |-> FALSE, flagged |-> FALSE]

Handler == [pc : {"idle", "insert", "badge", "count", "apply"},
            entity : Entities \cup {"none"}, reporter : Reporters \cup {"none"}]

NoHandler == [pc |-> "idle", entity |-> "none", reporter |-> "none"]

Init ==
    /\ report = [e \in Entities |-> [u \in Reporters |-> NoReport]]
    /\ request = [r \in Requests |-> NoHandler]
    /\ owed = {}

-----------------------------------------------------------------------------
ReportersOf(e) == {u \in Reporters : report[e][u].stored}
HasBadge(e)    == \E u \in Reporters : report[e][u].flagged
Verified(e)    == \E u \in Reporters : report[e][u].verified

Goto(r, pc) == request' = [request EXCEPT ![r].pc = pc]
\* A report that is counted makes up for one that was not, but not for a
\* verification.
MadeUpFor(e) == IF Verified(e) THEN owed ELSE owed \ {e}

Finish(r)   == request' = [request EXCEPT ![r] = NoHandler]

\* submit_report and submit_deepfake_report: a duplicate is a 409.
Submit(r, u, e) ==
    /\ request[r].pc = "idle"
    /\ ~report[e][u].stored
    /\ request' = [request EXCEPT ![r] = [pc |-> "insert", entity |-> e, reporter |-> u]]
    /\ UNCHANGED <<report, owed>>

\* create: the index on reporter and entity refuses what the check missed.
Insert(r) ==
    /\ request[r].pc = "insert"
    /\ LET e == request[r].entity
           u == request[r].reporter
       IN  IF report[e][u].stored
           THEN Finish(r) /\ UNCHANGED report
           ELSE /\ report' = [report EXCEPT ![e][u].stored = TRUE]
                /\ Goto(r, "badge")
    /\ UNCHANGED owed

\* has_warning_badge
LookAtBadge(r) ==
    /\ request[r].pc = "badge"
    /\ IF HasBadge(request[r].entity)
       THEN Finish(r) /\ owed' = owed \ {request[r].entity}
       ELSE Goto(r, "count") /\ UNCHANGED owed
    /\ UNCHANGED report

\* A mutant: the report just stored is not counted.
CountOthers(r) ==
    /\ request[r].pc = "count"
    /\ IF Cardinality(ReportersOf(request[r].entity)) > BadgeThreshold
       THEN Goto(r, "apply") /\ UNCHANGED owed
       ELSE Finish(r) /\ owed' = MadeUpFor(request[r].entity)
    /\ UNCHANGED report

\* get_distinct_reporter_count
Count(r) ==
    /\ request[r].pc = "count"
    /\ IF Cardinality(ReportersOf(request[r].entity)) >= BadgeThreshold
       THEN Goto(r, "apply") /\ UNCHANGED owed
       ELSE Finish(r) /\ owed' = MadeUpFor(request[r].entity)
    /\ UNCHANGED report

\* apply_warning_badge: an update of every report of the entity.
Apply(r) ==
    /\ request[r].pc = "apply"
    /\ LET e == request[r].entity
       IN  /\ report' = [report EXCEPT ![e] =
                 [u \in Reporters |-> [report[e][u] EXCEPT !.flagged = report[e][u].stored]]]
           /\ owed' = owed \ {e}
    /\ Finish(r)

\* verify_report marks a report, whatever the admin's "verified" says, and
\* the same badge follows: the VERIFIED_SCAM badge of the comments, "distinct
\* from WARNING_BADGE", is not in the code.
Verify(r, u, e) ==
    /\ request[r].pc = "idle"
    /\ report[e][u].stored
    /\ report' = [report EXCEPT ![e][u].verified = TRUE]
    /\ request' = [request EXCEPT ![r] = [pc |-> "apply", entity |-> e, reporter |-> u]]
    /\ UNCHANGED owed

\* An error of the database ends a request, a restart all of them.
CutOff(R) ==
    /\ \E r \in R : request[r].pc # "idle"
    /\ request' = [r \in Requests |-> IF r \in R THEN NoHandler ELSE request[r]]
    /\ owed' = owed \cup {request[r].entity : r \in {q \in R : request[q].pc \notin {"idle", "insert"}}}
    /\ UNCHANGED report

Next ==
    \/ \E r \in Requests :
         \/ \E u \in Reporters, e \in Entities : Submit(r, u, e) \/ Verify(r, u, e)
         \/ Insert(r) \/ LookAtBadge(r) \/ Count(r) \/ Apply(r)
         \/ CutOff({r})
    \/ CutOff(Requests)

Spec == Init /\ [][Next]_vars

-----------------------------------------------------------------------------
\* Types of the reports and the handlers.
TypeOK ==
    /\ report \in [Entities -> [Reporters -> Report]]
    /\ request \in [Requests -> Handler]
    /\ owed \subseteq Entities

(***************************************************************************)
(* "When 3+ distinct users report the same entity, an automatic            *)
(* WARNING_BADGE is applied" (scam_report.py:4): an entity with so many    *)
(* reporters, or with a verified report, has its badge or a request that   *)
(* is on its way to it, however the requests overlap; a report that was    *)
(* cut off leaves the badge to the next one, and a verification to the     *)
(* next of its kind.  No other entity has a badge.                         *)
(***************************************************************************)
BadgeWhenDue ==
    \A e \in Entities :
      LET due == Cardinality(ReportersOf(e)) >= BadgeThreshold \/ Verified(e)
          onTheWay == \E r \in Requests :
                        request[r].entity = e /\ request[r].pc \in {"badge", "count", "apply"}
      IN  /\ HasBadge(e) => due
          /\ due => HasBadge(e) \/ onTheWay \/ e \in owed
=============================================================================
