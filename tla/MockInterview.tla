---------------------------- MODULE MockInterview ----------------------------
(***************************************************************************)
(* The mock sessions of one interview: the endpoints of                    *)
(* api/routes/interviews.py that generate its questions and that start,    *)
(* answer, complete and delete a session.                                  *)
(*                                                                         *)
(* Answering and completing read the session, wait for a model, and write  *)
(* with $set what they computed from the session they read.  A submission  *)
(* does not say which question it answers: the server takes the one at     *)
(* the session's index.  The session and then the interview are read in    *)
(* one step here: what happens to either between the two reads could as    *)
(* well have happened before or after both.                                *)
(***************************************************************************)
EXTENDS Naturals, Sequences, SequencesExt

CONSTANTS
    Clients,        \* browser tabs of one user
    Sessions,       \* slots for MockInterviewSession documents
    MaxQuestions,   \* bound: questions of one generation
    MaxGenerations, \* bound: generations of questions
    MaxAnswers      \* bound: submissions

VARIABLES
    interview,      \* the Interview document
    session,        \* slot -> MockInterviewSession document
    handler,        \* client -> the handler of its request
    submitted,      \* number of submissions so far: names the next answer
    answered,       \* answers that were acknowledged, with their session (history)
    entangled       \* sessions with submissions that overlapped, or started
                    \* by requests that did (history)

vars == <<interview, session, handler, submitted, answered, entangled>>

Questions == (1..MaxGenerations) \X (0..MaxQuestions - 1)
Answers   == 1..MaxAnswers
Feedback  == [question : Questions, answer : Answers]

Session == [status    : {"absent", "in_progress", "completed", "deleted"},
            feedbacks : Seq(Feedback),
            index     : Nat,
            summary   : Seq(Feedback)]      \* what the overall feedback is about

NoSession == [status |-> "absent", feedbacks |-> <<>>, index |-> 0, summary |-> <<>>]

\* read: the session as the handler read it.
Handler == [pc       : {"idle", "generate", "create", "answer", "complete"},
            session  : Sessions \cup {"none"},
            read     : Session,
            question : Questions \cup {<<>>},
            answer   : Answers \cup {0}]

NoHandler == [pc |-> "idle", session |-> "none", read |-> NoSession,
              question |-> <<>>, answer |-> 0]

Init ==
    /\ interview = [stored |-> TRUE, generation |-> 0, count |-> 0]
    /\ session = [s \in Sessions |-> NoSession]
    /\ handler = [c \in Clients |-> NoHandler]
    /\ submitted = 0
    /\ answered = {}
    /\ entangled = {}

-----------------------------------------------------------------------------
Idle(c)   == handler[c].pc = "idle"
Finish(c) == handler' = [handler EXCEPT ![c] = NoHandler]

Begin(c, h) == Idle(c) /\ handler' = [handler EXCEPT ![c] = h]

InProgress == {s \in Sessions : session[s].status = "in_progress"}

\* Has another submission been stored since the handler read the session?
Overtaken(h) == session[h.session].feedbacks # h.read.feedbacks

\* generate_questions: the model is asked, then the list replaced.
Generate(c) ==
    /\ interview.stored
    /\ Begin(c, [NoHandler EXCEPT !.pc = "generate"])
    /\ UNCHANGED <<interview, session, submitted, answered, entangled>>

StoreQuestions(c) ==
    /\ handler[c].pc = "generate"
    /\ interview.generation < MaxGenerations
    /\ \E n \in 0..MaxQuestions :
         interview' = IF interview.stored
                      THEN [interview EXCEPT !.generation = @ + 1, !.count = n]
                      ELSE interview
    /\ Finish(c)
    /\ UNCHANGED <<session, submitted, answered, entangled>>

\* start_mock_session: an interview with questions; a session in progress
\* is returned, or else one is created.
Start(c) ==
    /\ interview.stored /\ interview.count > 0
    /\ InProgress = {}
    /\ \E s \in Sessions :
         /\ session[s].status = "absent"
         /\ Begin(c, [NoHandler EXCEPT !.pc = "create"])
    /\ UNCHANGED <<interview, session, submitted, answered, entangled>>

\* A handler that looked for a session before this one was created
\* remembers it (history).
Create(c) ==
    /\ handler[c].pc = "create"
    /\ \E s \in Sessions :
         /\ session[s].status = "absent"
         /\ session' = [session EXCEPT ![s].status = "in_progress"]
         /\ handler' = [d \in Clients |->
                         IF d = c THEN NoHandler
                         ELSE IF handler[d].pc = "create" THEN [handler[d] EXCEPT !.session = s]
                         ELSE handler[d]]
         /\ entangled' = IF handler[c].session = "none" THEN entangled
                         ELSE entangled \cup {handler[c].session, s}
    /\ UNCHANGED <<interview, submitted, answered>>

-----------------------------------------------------------------------------
\* submit_answer: the question is the one at the session's index.
Submit(c, s) ==
    /\ session[s].status = "in_progress"
    /\ interview.stored
    /\ session[s].index < interview.count
    /\ submitted < MaxAnswers
    /\ submitted' = submitted + 1
    /\ Begin(c, [pc |-> "answer", session |-> s, read |-> session[s],
                 question |-> <<interview.generation, session[s].index>>,
                 answer |-> submitted + 1])
    /\ UNCHANGED <<interview, session, answered, entangled>>

\* A mutant: the index of the session as it is now.
StoreAnswerIncremented(c) ==
    /\ handler[c].pc = "answer"
    /\ LET h == handler[c]
           given == [question |-> h.question, answer |-> h.answer]
       IN  /\ session' = IF session[h.session].status = "deleted" THEN session
                         ELSE [session EXCEPT
                                 ![h.session].feedbacks = Append(h.read.feedbacks, given),
                                 ![h.session].index = @ + 1]
           /\ answered' = answered \cup {<<h.session, given>>}
           /\ entangled' = IF Overtaken(h) THEN entangled \cup {h.session} ELSE entangled
    /\ Finish(c)
    /\ UNCHANGED <<interview, submitted>>

\* The whole list and the index are set from the session that was read; its
\* status is not looked at again.  A session deleted by now stays deleted,
\* and the answer is acknowledged all the same.
StoreAnswer(c) ==
    /\ handler[c].pc = "answer"
    /\ LET h == handler[c]
           given == [question |-> h.question, answer |-> h.answer]
       IN  /\ session' = IF session[h.session].status = "deleted" THEN session
                         ELSE [session EXCEPT
                                 ![h.session].feedbacks = Append(h.read.feedbacks, given),
                                 ![h.session].index = h.read.index + 1]
           /\ answered' = answered \cup {<<h.session, given>>}
           /\ entangled' = IF Overtaken(h) THEN entangled \cup {h.session} ELSE entangled
    /\ Finish(c)
    /\ UNCHANGED <<interview, submitted>>

-----------------------------------------------------------------------------
\* complete_mock_session: needs an answer; summarises the answers it read.
Complete(c, s) ==
    /\ session[s].status = "in_progress"
    /\ session[s].feedbacks # <<>>
    /\ Begin(c, [NoHandler EXCEPT !.pc = "complete", !.session = s, !.read = session[s]])
    /\ UNCHANGED <<interview, session, submitted, answered, entangled>>

\* A mutant: the list of answers is written back with the summary.
StoreWholeSession(c) ==
    /\ handler[c].pc = "complete"
    /\ LET h == handler[c]
       IN  session' = IF session[h.session].status = "deleted" THEN session
                      ELSE [session EXCEPT
                              ![h.session] = [h.read EXCEPT !.status = "completed",
                                                            !.summary = h.read.feedbacks]]
    /\ Finish(c)
    /\ UNCHANGED <<interview, submitted, answered, entangled>>

\* Status and overall feedback only: answers that came in are kept.
StoreSummary(c) ==
    /\ handler[c].pc = "complete"
    /\ LET h == handler[c]
       IN  session' = IF session[h.session].status = "deleted" THEN session
                      ELSE [session EXCEPT ![h.session].status = "completed",
                                           ![h.session].summary = h.read.feedbacks]
    /\ Finish(c)
    /\ UNCHANGED <<interview, submitted, answered, entangled>>

\* delete_mock_session, in any status.
DeleteSession(c, s) ==
    /\ Idle(c)
    /\ session[s].status \in {"in_progress", "completed"}
    /\ session' = [session EXCEPT ![s] = [NoSession EXCEPT !.status = "deleted"]]
    /\ UNCHANGED <<interview, handler, submitted, answered, entangled>>

\* delete_interview leaves the sessions where they are.
DeleteInterview(c) ==
    /\ Idle(c)
    /\ interview.stored
    /\ interview' = [interview EXCEPT !.stored = FALSE]
    /\ UNCHANGED <<session, handler, submitted, answered, entangled>>

\* A request fails (a model that raises, say), or the server restarts.
Abandon(C) ==
    /\ \E c \in C : ~Idle(c)
    /\ handler' = [c \in Clients |-> IF c \in C THEN NoHandler ELSE handler[c]]
    /\ UNCHANGED <<interview, session, submitted, answered, entangled>>

Next ==
    \/ \E c \in Clients :
         \/ Generate(c) \/ StoreQuestions(c)
         \/ Start(c) \/ Create(c)
         \/ \E s \in Sessions : Submit(c, s) \/ Complete(c, s) \/ DeleteSession(c, s)
         \/ StoreAnswer(c) \/ StoreSummary(c)
         \/ DeleteInterview(c)
         \/ Abandon({c})
    \/ Abandon(Clients)

Spec == Init /\ [][Next]_vars

-----------------------------------------------------------------------------
\* Types of the documents and the handlers.
TypeOK ==
    /\ interview \in [stored : BOOLEAN, generation : 0..MaxGenerations, count : 0..MaxQuestions]
    /\ session \in [Sessions -> Session]
    /\ handler \in [Clients -> Handler]
    /\ submitted \in Answers \cup {0}
    /\ answered \subseteq Sessions \X Feedback
    /\ entangled \subseteq Sessions

(***************************************************************************)
(* "Tracks progress through the question list" (mock_session.py:16): in    *)
(* every session, whatever requests overlap and however often the          *)
(* questions are generated again, the index is the number of answers and   *)
(* the i-th answer is to the i-th question of some generation.             *)
(***************************************************************************)
AnswersInStep ==
    \A s \in Sessions :
      /\ session[s].index = Len(session[s].feedbacks)
      /\ \A i \in 1..session[s].index : session[s].feedbacks[i].question[2] = i - 1

(***************************************************************************)
(* An answer that was acknowledged is in its session as long as that       *)
(* exists, and in its place, unless another submission overlapped; and     *)
(* the summary of a completed session is about the first of its answers.   *)
(* Two sessions of the interview are in progress only if two requests      *)
(* started them at the same time.                                          *)
(***************************************************************************)
AnswersKept ==
    /\ \A a \in answered :
         LET s == a[1]
         IN  session[s].status = "deleted" \/ s \in entangled
             \/ a[2] \in {session[s].feedbacks[i] : i \in 1..Len(session[s].feedbacks)}
    /\ \A s \in Sessions \ entangled :
         /\ IsPrefix(session[s].summary, session[s].feedbacks)
         /\ s \in InProgress => InProgress = {s}
=============================================================================
