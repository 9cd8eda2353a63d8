--------------------------- MODULE OutcomeTracker ---------------------------
(***************************************************************************)
(* What became of an application after it was submitted: OutcomeService    *)
(* behind POST /applications/{id}/outcome, one tracker for each            *)
(* application, and the milestones that success_analytics.py counts from   *)
(* the status a tracker has.                                               *)
(***************************************************************************)
EXTENDS Integers, Sequences, FiniteSets

CONSTANTS
    Requests,       \* slots for requests under way
    Applications

VARIABLES
    present,        \* applications that were not deleted
    tracker,        \* application -> ApplicationSuccessTracker document
    request         \* slot -> the handler of a request

vars == <<present, tracker, request>>

OutcomeStatus == {"applied", "viewed", "responded", "interview_scheduled",
                  "offer_received", "rejected", "ghosted"}

Given == {"rejected", "ghosted"}

Later ==
    [applied             |-> {"viewed", "responded", "interview_scheduled"},
     viewed              |-> {"responded", "interview_scheduled"},
     responded           |-> {"interview_scheduled"},
     interview_scheduled |-> {"offer_received"}]

\* An offer, a rejection and a silence are terminal.
ValidTransitions ==
    [s \in OutcomeStatus |-> IF s \in DOMAIN Later THEN Later[s] \cup Given ELSE {}]

NoStatus == "none"

Transition == [previous : OutcomeStatus \cup {NoStatus}, new : OutcomeStatus]

\* outcome_status and outcome_transitions; no tracker has status "none".
NoTracker == [status |-> NoStatus, transitions |-> <<>>]

Handler == [pc : {"idle", "find", "update", "create"},
            application : Applications \cup {NoStatus},
            new : OutcomeStatus \cup {NoStatus},
            expected : OutcomeStatus \cup {NoStatus}]

NoHandler == [pc |-> "idle", application |-> NoStatus, new |-> NoStatus,
              expected |-> NoStatus]

Init ==
    /\ present = Applications
    /\ tracker = [a \in Applications |-> NoTracker]
    /\ request = [r \in Requests |-> NoHandler]

Finish(r) == request' = [request EXCEPT ![r] = NoHandler]

\* The tracker after the push of a transition to "new".
Pushed(t, previous, new) ==
    [status |-> new,
     transitions |-> Append(t.transitions, [previous |-> previous, new |-> new])]

-----------------------------------------------------------------------------
\* create_or_update_tracker

\* The application is there.
Record(r, a, new) ==
    /\ request[r].pc = "idle"
    /\ a \in present
    /\ request' = [request EXCEPT ![r] = [pc |-> "find", application |-> a, new |-> new,
                                          expected |-> NoStatus]]
    /\ UNCHANGED <<present, tracker>>

\* validate_transition
Valid(current, new) ==
    IF current = NoStatus THEN new = "applied" ELSE new \in ValidTransitions[current]

Find(r) ==
    /\ request[r].pc = "find"
    /\ LET current == tracker[request[r].application].status
       IN  IF Valid(current, request[r].new)
           THEN request' = [request EXCEPT
                  ![r].pc = IF current = NoStatus THEN "create" ELSE "update",
                  ![r].expected = current]
           ELSE Finish(r)
    /\ UNCHANGED <<present, tracker>>

\* A mutant: the update does not ask for the status that was validated.
UpdateWhatever(r) ==
    /\ request[r].pc = "update"
    /\ LET a == request[r].application
       IN  tracker' = [tracker EXCEPT ![a] = Pushed(@, request[r].expected, request[r].new)]
    /\ Finish(r)
    /\ UNCHANGED present

\* atomic_status_update: if the status is still the one that was read; else
\* CONCURRENT_UPDATE_CONFLICT.
Update(r) ==
    /\ request[r].pc = "update"
    /\ LET a == request[r].application
       IN  IF tracker[a].status = request[r].expected
           THEN tracker' = [tracker EXCEPT
                  ![a] = Pushed(@, request[r].expected, request[r].new)]
           ELSE UNCHANGED tracker
    /\ Finish(r)
    /\ UNCHANGED present

\* The unique index on application_id refuses a second tracker.
Create(r) ==
    /\ request[r].pc = "create"
    /\ LET a == request[r].application
       IN  IF tracker[a] = NoTracker
           THEN tracker' = [tracker EXCEPT ![a] = Pushed(NoTracker, NoStatus, request[r].new)]
           ELSE UNCHANGED tracker
    /\ Finish(r)
    /\ UNCHANGED present

\* An application is deleted elsewhere, and its tracker stays.
Delete(a) ==
    /\ a \in present
    /\ present' = present \ {a}
    /\ UNCHANGED <<tracker, request>>

\* The process restarts.
Restart ==
    /\ \E r \in Requests : request[r].pc # "idle"
    /\ request' = [r \in Requests |-> NoHandler]
    /\ UNCHANGED <<present, tracker>>

Next ==
    \/ \E r \in Requests, a \in Applications, new \in OutcomeStatus : Record(r, a, new)
    \/ \E r \in Requests : Find(r) \/ Update(r) \/ Create(r)
    \/ \E a \in Applications : Delete(a)
    \/ Restart

Spec == Init /\ [][Next]_vars

-----------------------------------------------------------------------------
\* The milestones of success_analytics.py, each by the statuses that count.

\* A mutant: an offer no longer counts as an interview.
MilestonesWithoutOffer ==
    [viewed |-> {"viewed", "responded", "interview_scheduled", "offer_received"},
     responded |-> {"responded", "interview_scheduled", "offer_received"},
     interview_scheduled |-> {"interview_scheduled"}]

Milestones ==
    [viewed |-> {"viewed", "responded", "interview_scheduled", "offer_received"},
     responded |-> {"responded", "interview_scheduled", "offer_received"},
     interview_scheduled |-> {"interview_scheduled", "offer_received"}]

Counts(a, milestone) == tracker[a].status \in Milestones[milestone]

Ladder == <<"applied", "viewed", "responded", "interview_scheduled", "offer_received">>

\* A milestone is reached by a status at or beyond it, now or before.
Reached(a, milestone) ==
    \E n \in DOMAIN tracker[a].transitions, i \in DOMAIN Ladder :
      tracker[a].transitions[n].new = Ladder[i] /\ \E k \in 1..i : Ladder[k] = milestone

-----------------------------------------------------------------------------
\* The trackers and handlers have their types.
TypeOK ==
    /\ present \subseteq Applications
    /\ tracker \in [Applications -> [status : OutcomeStatus \cup {NoStatus},
                                    transitions : Seq(Transition)]]
    /\ request \in [Requests -> Handler]

\* The recorded transitions lead from the application to its status, each from
\* where the one before ended and each allowed, whatever requests overlap
\* (validate_transition is asked an await before atomic_status_update).
TransitionsLeadToStatus ==
    \A a \in Applications :
      LET t == tracker[a]
          n == Len(t.transitions)
      IN  /\ n = 0 <=> t = NoTracker
          /\ \A i \in 1..n :
               /\ t.transitions[i].previous =
                    IF i = 1 THEN NoStatus ELSE t.transitions[i - 1].new
               /\ Valid(t.transitions[i].previous, t.transitions[i].new)
          /\ n > 0 => t.status = t.transitions[n].new

\* An application counts for a milestone just when it once reached it and was
\* neither rejected nor ghosted since: the counts know the status only, the
\* transitions tell what was reached (_compute_rates of success_analytics.py).
RatesTellHistory ==
    \A a \in Applications, milestone \in DOMAIN Milestones :
      Counts(a, milestone) <=> Reached(a, milestone) /\ tracker[a].status \notin Given

\* What the comment says of the milestones, "statuses that count as having
\* reached each milestone (cumulative)".  A rejection takes an application out
\* of milestones it had reached.
ReachedIsCounted ==
    \A a \in Applications, milestone \in DOMAIN Milestones :
      Reached(a, milestone) => Counts(a, milestone)
=============================================================================
