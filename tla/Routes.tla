-------------------------------- MODULE Routes --------------------------------
(***************************************************************************)
(* Nine parts of the API that share no state with one another, side by     *)
(* side: a behaviour takes one of them, "part", from its initial states,   *)
(* and the variables of the others keep the value they start with.         *)
(***************************************************************************)
EXTENDS Naturals, FiniteSets, Sequences

CONSTANTS
    Clients,                        \* browser tabs, or slots for requests
    \* JobCascade
    Jobs, NoJob,
    \* UserActivity
    FirstDay, MaxDay, MaxActions, MaxBonuses,
    FreezeEarnInterval, MaxBankedFreezes, StreakMilestones,
    \* ScamReports
    Reporters, Entities, BadgeThreshold,
    \* MockInterview
    Sessions, MockQuestions, MaxGenerations, MaxAnswers,
    \* ResumeLibrary
    Resumes,
    \* InterviewCoach and Negotiation
    Threads, NoThread, Rounds, CoachQuestions, Marks, MaxActive,
    \* Integrations
    MaxGrants,
    \* BackgroundTasks
    TaskIds, NoTask

\* Counts and bounds are natural numbers, one user has finitely many resumes and
\* one entity finitely many reporters, and the values that stand for "no thread"
\* and "no session" are none.
ASSUME DaysAssumption          == MaxDay \in Nat /\ FirstDay \in 1..MaxDay
ASSUME BankedAssumption        == MaxBankedFreezes \in Nat
ASSUME ReportersAssumption     == IsFiniteSet(Reporters)
ASSUME ThresholdAssumption     == BadgeThreshold \in Nat \ {0}
ASSUME SessionsAssumption      == "none" \notin Sessions
ASSUME MockQuestionsAssumption == MockQuestions \in Nat
ASSUME GenerationsAssumption   == MaxGenerations \in Nat
ASSUME AnswersAssumption       == MaxAnswers \in Nat
ASSUME ResumesAssumption       == IsFiniteSet(Resumes)
ASSUME ThreadsAssumption       == NoThread \notin Threads
ASSUME RoundsAssumption        == Rounds \in Nat \ {0}
ASSUME CoachQuestionsAssumption == CoachQuestions \in Nat
ASSUME MarksAssumption         == Marks \subseteq Nat
ASSUME GrantsAssumption        == MaxGrants \in Nat

Parts == {"cascade", "activity", "scam", "mock", "resumes", "coach", "negotiation",
          "integrations", "tasks"}

VARIABLES
    part,
    \* JobCascade
    job, application, children, embedding, indexing, cascadeHandler, stray, detached, cutJobs,
    \* UserActivity
    today, activity, activityHandler, recorded, overwritten, checked, rechecked, crossedMidnight,
    \* ScamReports
    report, request, owed,
    \* MockInterview
    interview, session, mockHandler, submitted, answered, entangled,
    \* ResumeLibrary
    resume, resumeRequest, crossedMasters, vacated, cutResumes,
    \* InterviewCoach
    checkpoint, known, record, coachHandler, overlapped,
    \* Negotiation
    simulation, negotiation, told, negotiationHandler, given, accepted, overlappedSimulations,
    \* Integrations
    connection, issued, revoked, connectionHandler, refresh, excused, revived,
    \* BackgroundTasks
    task, message, taskHandler, cutTasks, unreachable

cascadeVars == <<job, application, children, embedding, indexing, cascadeHandler, stray,
                 detached, cutJobs>>
activityVars == <<today, activity, activityHandler, recorded, overwritten, checked,
                  rechecked, crossedMidnight>>
scamVars == <<report, request, owed>>
mockVars == <<interview, session, mockHandler, submitted, answered, entangled>>
resumeVars == <<resume, resumeRequest, crossedMasters, vacated, cutResumes>>
coachVars == <<checkpoint, known, record, coachHandler, overlapped>>
negotiationVars == <<simulation, negotiation, told, negotiationHandler, given, accepted,
                     overlappedSimulations>>
connectionVars == <<connection, issued, revoked, connectionHandler, refresh, excused,
                    revived>>
taskVars == <<task, message, taskHandler, cutTasks, unreachable>>

vars == <<part, cascadeVars, activityVars, scamVars, mockVars, resumeVars, coachVars,
          negotiationVars, connectionVars, taskVars>>

Cascade  == INSTANCE JobCascade
              WITH handler <- cascadeHandler, cut <- cutJobs
Activity == INSTANCE UserActivity
              WITH handler <- activityHandler, crossed <- crossedMidnight
Scam     == INSTANCE ScamReports
              WITH Requests <- Clients
Mock     == INSTANCE MockInterview
              WITH MaxQuestions <- MockQuestions, handler <- mockHandler
Library  == INSTANCE ResumeLibrary
              WITH Requests <- Clients, request <- resumeRequest, crossed <- crossedMasters,
                   cut <- cutResumes
Coach    == INSTANCE InterviewCoach
              WITH MaxQuestions <- CoachQuestions, handler <- coachHandler
Talks    == INSTANCE Negotiation
              WITH checkpoint <- simulation, session <- negotiation, known <- told,
                   handler <- negotiationHandler, overlapped <- overlappedSimulations
Google   == INSTANCE Integrations
              WITH handler <- connectionHandler
Queue    == INSTANCE BackgroundTasks
              WITH Tasks <- TaskIds, record <- task, handler <- taskHandler, cut <- cutTasks

Init ==
    /\ part \in Parts
    /\ Cascade!Init
    /\ Activity!Init
    /\ part = "activity" \/ \A d \in Activity!Days : ~activity[d].stored
    /\ Scam!Init
    /\ Mock!Init
    /\ Library!Init
    /\ Coach!Init
    /\ Talks!Init
    /\ Google!Init
    /\ Queue!Init

Next ==
    \/ /\ part = "cascade" /\ Cascade!Next
       /\ UNCHANGED <<part, activityVars, scamVars, mockVars, resumeVars, coachVars,
                      negotiationVars, connectionVars, taskVars>>
    \/ /\ part = "activity" /\ Activity!Next
       /\ UNCHANGED <<part, cascadeVars, scamVars, mockVars, resumeVars, coachVars,
                      negotiationVars, connectionVars, taskVars>>
    \/ /\ part = "scam" /\ Scam!Next
       /\ UNCHANGED <<part, cascadeVars, activityVars, mockVars, resumeVars, coachVars,
                      negotiationVars, connectionVars, taskVars>>
    \/ /\ part = "mock" /\ Mock!Next
       /\ UNCHANGED <<part, cascadeVars, activityVars, scamVars, resumeVars, coachVars,
                      negotiationVars, connectionVars, taskVars>>
    \/ /\ part = "resumes" /\ Library!Next
       /\ UNCHANGED <<part, cascadeVars, activityVars, scamVars, mockVars, coachVars,
                      negotiationVars, connectionVars, taskVars>>
    \/ /\ part = "coach" /\ Coach!Next
       /\ UNCHANGED <<part, cascadeVars, activityVars, scamVars, mockVars, resumeVars,
                      negotiationVars, connectionVars, taskVars>>
    \/ /\ part = "negotiation" /\ Talks!Next
       /\ UNCHANGED <<part, cascadeVars, activityVars, scamVars, mockVars, resumeVars,
                      coachVars, connectionVars, taskVars>>
    \/ /\ part = "integrations" /\ Google!Next
       /\ UNCHANGED <<part, cascadeVars, activityVars, scamVars, mockVars, resumeVars,
                      coachVars, negotiationVars, taskVars>>
    \/ /\ part = "tasks" /\ Queue!Next
       /\ UNCHANGED <<part, cascadeVars, activityVars, scamVars, mockVars, resumeVars,
                      coachVars, negotiationVars, connectionVars>>

Spec == Init /\ [][Next]_vars

-----------------------------------------------------------------------------
\* The documents and handlers of the part under way have their types.
TypeOK ==
    /\ part \in Parts
    /\ part = "cascade" => Cascade!TypeOK
    /\ part = "activity" => Activity!TypeOK
    /\ part = "scam" => Scam!TypeOK
    /\ part = "mock" => Mock!TypeOK
    /\ part = "resumes" => Library!TypeOK
    /\ part = "coach" => Coach!TypeOK
    /\ part = "negotiation" => Talks!TypeOK
    /\ part = "integrations" => Google!TypeOK
    /\ part = "tasks" => Queue!TypeOK

\* Jobs and applications come and go together, save for requests between the
\* two or cut off there; and a deleted job leaves no document, message,
\* interview or embedding behind, but what was written after the cascade had
\* passed (add_job_manually and delete_job of jobs.py).
CascadeIsWhole ==
    part = "cascade" => Cascade!JobsArePaired /\ Cascade!NothingLeftBehind

\* Streak and freezes of a day follow the rules over all days before
\* (check_and_update_streak of streak_service.py).
StreakFollowsRules == part = "activity" => Activity!StreakFollowsRules

\* Every answered action is in the document of its day and a milestone's bonus
\* is counted once (record_action of streak_service.py).
EntriesAndBonusCounted == part = "activity" => Activity!EntriesAndBonusCounted

\* Who reached the threshold of reporters has a badge or a request on its way
\* to it, and nobody else (submit_report of scam_report_service.py).
BadgeWhenDue == part = "scam" => Scam!BadgeWhenDue

\* In a mock session the i-th answer is to the i-th question and the index
\* counts them; an acknowledged answer stays in its session, and the summary is
\* about the answers of its session (submit_answer and complete_mock_session of
\* interviews.py).
AnswersAccounted == part = "mock" => Mock!AnswersInStep /\ Mock!AnswersKept

\* A user who chose a master resume has exactly one, save for switches that
\* crossed or were cut off (update_resume of profile.py).
OneMaster == part = "resumes" => Library!OneMaster

\* No question of a coaching session is skipped or scored twice, the level is
\* what the scores make it, and the session has one record of its own, which
\* agrees with its debrief (the graph and save_performance of
\* interview_coach.py).
SessionsAreScored ==
    part = "coach" => Coach!ScoresInOrder /\ Coach!RecordTellsSession

\* The transcript of a simulation holds every accepted answer in order and one
\* turn to each (simulate_negotiation of graphs/negotiation.py).
TranscriptTells == part = "negotiation" => Talks!TranscriptTells

\* No grant of a provider is lost while it is valid, and none in use that was
\* revoked (complete_connection and disconnect of integration_service.py, and
\* _refresh_all_expiring_tokens of integration_tasks.py).
GrantsAccounted ==
    part = "integrations" => Google!GrantsAccounted /\ Google!ConnectedIsValid

\* A task's record agrees with the queue about whether it was sent
\* (submit_task and cancel_task of task_service.py).
RecordTellsMessage == part = "tasks" => Queue!RecordTellsMessage
=============================================================================
