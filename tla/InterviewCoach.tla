--------------------------- MODULE InterviewCoach ---------------------------
(***************************************************************************)
(* The adaptive interview coach: the endpoints start, answer and save of   *)
(* api/routes/interview_coach.py, the LangGraph graph of                   *)
(* workflows/graphs/interview_coach.py that the first two execute, and the *)
(* InterviewPerformance records that the graph and the save endpoint       *)
(* write.  As in CoverLetter, a run of the graph loads the thread's latest *)
(* checkpoint, executes a node at a time on its own copy of the state, and *)
(* saves a checkpoint after each.                                          *)
(*                                                                         *)
(* A question is its round and its place in the round, an answer is the    *)
(* mark it gets: the average of the four dimensions, of which the          *)
(* difficulty is computed.                                                 *)
(***************************************************************************)
EXTENDS Naturals, Sequences, FiniteSets

CONSTANTS
    Clients,        \* browser tabs of one user
    Threads,        \* uuid4 thread ids: one per session
    NoThread,       \* no thread
    Rounds,         \* CAMPUS_PLACEMENT_ROUNDS: 4
    MaxQuestions,   \* bound: questions the model predicts for a session
    Marks,          \* averages of the four dimensions of a score
    MaxActive       \* _MAX_CONCURRENT_SESSIONS: 3

VARIABLES
    checkpoint,     \* thread -> the latest checkpoint of the graph
    known,          \* threads whose id a client was told
    record,         \* InterviewPerformance documents
    handler,        \* client -> the handler of its request
    overlapped      \* threads two runs executed at the same time (history)

vars == <<checkpoint, known, record, handler, overlapped>>

Levels    == {"easy", "medium", "hard"}
Questions == (1..Rounds) \X (0..MaxQuestions)
Score     == [question : Questions, mark : Marks]

Nodes == {"predict_questions", "present_question", "evaluate_answer", "advance_index",
          "advance_round", "debrief", "save_performance", "END"}

\* total: how many questions predicted_questions holds.
\* asked: the question of current_question until it is evaluated.
\* summary: "none" before the debrief, "" if its agent failed.
State == [next    : Nodes \cup {"none"},
          campus  : BOOLEAN,
          round   : 1..Rounds,
          index   : 0..MaxQuestions,
          total   : 0..MaxQuestions,
          asked   : Questions \cup {<<>>},
          scores  : Seq(Score),
          level   : Levels,
          summary : {"none", "", "text"}]

NoState == [next |-> "none", campus |-> FALSE, round |-> 1, index |-> 0, total |-> 0,
            asked |-> <<>>, scores |-> <<>>, level |-> "medium", summary |-> "none"]

\* id: a document has its session's id or one that save_session made up.
Record == [thread : Threads, id : {"session", "fresh"}, scores : Seq(Score),
           summary : {"", "text"}]

\* state: the run's own copy of the graph's state, or what save_session read.
\* answered: is there a Command(resume=...) for present_question?
Handler == [pc : {"idle", "begin", "run", "inserted", "save"},
            thread : Threads \cup {NoThread}, state : State, answered : BOOLEAN]

NoHandler == [pc |-> "idle", thread |-> NoThread, state |-> NoState, answered |-> FALSE]

Init ==
    /\ checkpoint = [t \in Threads |-> NoState]
    /\ known = {}
    /\ record = {}
    /\ handler = [c \in Clients |-> NoHandler]
    /\ overlapped = {}

-----------------------------------------------------------------------------
Idle(c)   == handler[c].pc = "idle"
Finish(c) == handler' = [handler EXCEPT ![c] = NoHandler]

Running(c, t) == handler[c].pc \in {"run", "inserted"} /\ handler[c].thread = t

\* The checkpoint after a node, and the run goes on from there.
Save(c, state) ==
    /\ checkpoint' = [checkpoint EXCEPT ![handler[c].thread] = state]
    /\ handler' = [handler EXCEPT ![c].pc = "run", ![c].state = state, ![c].answered = FALSE]

AtNode(c, node) == handler[c].pc = "run" /\ handler[c].state.next = node

-----------------------------------------------------------------------------
\* start_session: the records without a summary are counted, of which a
\* session has none until it is over.

Active == {r \in record : r.summary = ""}

Start(c) ==
    /\ Idle(c)
    /\ Cardinality(Active) < MaxActive
    /\ \E t \in Threads :
         /\ checkpoint[t] = NoState
         /\ \A d \in Clients : handler[d].thread # t
         /\ handler' = [handler EXCEPT ![c] = [NoHandler EXCEPT !.pc = "begin", !.thread = t]]
    /\ UNCHANGED <<checkpoint, known, record, overlapped>>

Begin(c) ==
    /\ handler[c].pc = "begin"
    /\ \E campus \in BOOLEAN :
         Save(c, [NoState EXCEPT !.next = "predict_questions", !.campus = campus])
    /\ UNCHANGED <<known, record, overlapped>>

\* answer_question: the thread's state is not looked at.  The answer reaches
\* present_question if that is next, and is dropped otherwise: the run just
\* goes on.  One more run on a thread is an overlap.
Answer(c, t) ==
    /\ Idle(c)
    /\ t \in known
    /\ handler' = [handler EXCEPT ![c] =
                     [pc |-> "run", thread |-> t, state |-> checkpoint[t],
                      answered |-> (checkpoint[t].next = "present_question")]]
    /\ overlapped' = IF \E d \in Clients : Running(d, t)
                     THEN overlapped \cup {t} ELSE overlapped
    /\ UNCHANGED <<checkpoint, known, record>>

-----------------------------------------------------------------------------
\* The nodes

RoundsAfter(s) == IF s.campus THEN Rounds - s.round ELSE 0

PredictQuestions(c) ==
    /\ AtNode(c, "predict_questions")
    /\ LET s == handler[c].state
       IN  \E n \in 0..MaxQuestions - Len(s.scores) - RoundsAfter(s) :
             Save(c, [s EXCEPT !.next = "present_question", !.index = 0, !.total = n])
    /\ UNCHANGED <<known, record, overlapped>>

\* interrupt() ends the run when there is no answer, and the client hears of
\* the thread; else the answer is taken for the question at the index.
PresentQuestion(c) ==
    /\ AtNode(c, "present_question")
    /\ LET s == handler[c].state
       IN  IF handler[c].answered
           THEN /\ Save(c, [s EXCEPT !.next = "evaluate_answer", !.asked = <<s.round, s.index>>])
                /\ UNCHANGED known
           ELSE /\ Finish(c)
                /\ known' = known \cup {handler[c].thread}
                /\ UNCHANGED checkpoint
    /\ UNCHANGED <<record, overlapped>>

Harder == [easy |-> "medium", medium |-> "hard", hard |-> "hard"]
Easier == [easy |-> "easy", medium |-> "easy", hard |-> "medium"]

\* From the third score on, the average of the last three moves the level:
\* above 4.0 up, below 2.5 down.
Adjusted(level, scores) ==
    LET n == Len(scores)
        recent == scores[n].mark + scores[n - 1].mark + scores[n - 2].mark
    IN  IF n < 3 THEN level
        ELSE IF recent > 12 THEN Harder[level]
        ELSE IF 2 * recent < 15 THEN Easier[level]
        ELSE level

\* A mutant: one question too many.
RouteNextLate(s) ==
    IF s.index < s.total THEN "advance_index"
    ELSE IF s.campus /\ s.round < Rounds THEN "advance_round"
    ELSE "debrief"

\* A mutant: the last round is not known to be the last.
RouteNextPastLast(s) ==
    IF s.index + 1 < s.total THEN "advance_index"
    ELSE IF s.campus THEN "advance_round"
    ELSE "debrief"

RouteNext(s) ==
    IF s.index + 1 < s.total THEN "advance_index"
    ELSE IF s.campus /\ s.round < Rounds THEN "advance_round"
    ELSE "debrief"

EvaluateAnswer(c) ==
    /\ AtNode(c, "evaluate_answer")
    /\ \E mark \in Marks :
         LET s == handler[c].state
             scores == Append(s.scores, [question |-> s.asked, mark |-> mark])
         IN  Save(c, [s EXCEPT !.next = RouteNext(s), !.asked = <<>>, !.scores = scores,
                               !.level = Adjusted(s.level, scores)])
    /\ UNCHANGED <<known, record, overlapped>>

AdvanceIndex(c) ==
    /\ AtNode(c, "advance_index")
    /\ Save(c, [handler[c].state EXCEPT !.next = "present_question", !.index = @ + 1])
    /\ UNCHANGED <<known, record, overlapped>>

AdvanceRound(c) ==
    /\ AtNode(c, "advance_round")
    /\ Save(c, [handler[c].state EXCEPT !.next = "predict_questions", !.round = @ + 1,
                                        !.index = 0, !.total = 0])
    /\ UNCHANGED <<known, record, overlapped>>

\* A failure of the agent leaves the summary empty.
Debrief(c) ==
    /\ AtNode(c, "debrief")
    /\ \E summary \in {"", "text"} :
         Save(c, [handler[c].state EXCEPT !.next = "save_performance", !.summary = summary])
    /\ UNCHANGED <<known, record, overlapped>>

HasRecord(t) == \E r \in record : r.thread = t /\ r.id = "session"

\* A mutant: the index on user and session is not unique.
InsertRecordAgain(c) ==
    /\ AtNode(c, "save_performance")
    /\ LET t == handler[c].thread
           s == handler[c].state
       IN  record' = record \cup {[thread |-> t, id |-> "session", scores |-> s.scores,
                                   summary |-> s.summary]}
    /\ handler' = [handler EXCEPT ![c].pc = "inserted"]
    /\ UNCHANGED <<checkpoint, known, overlapped>>

\* save_performance: the index on user and session refuses a second record;
\* that error and every other is only logged.
InsertRecord(c) ==
    /\ AtNode(c, "save_performance")
    /\ LET t == handler[c].thread
           s == handler[c].state
       IN  \/ /\ ~HasRecord(t)
              /\ record' = record \cup {[thread |-> t, id |-> "session", scores |-> s.scores,
                                         summary |-> s.summary]}
           \/ UNCHANGED record
    /\ handler' = [handler EXCEPT ![c].pc = "inserted"]
    /\ UNCHANGED <<checkpoint, known, overlapped>>

SavePerformance(c) ==
    /\ handler[c].pc = "inserted"
    /\ Save(c, [handler[c].state EXCEPT !.next = "END"])
    /\ UNCHANGED <<known, record, overlapped>>

\* No node is left: the state is answered.
Return(c) ==
    /\ AtNode(c, "END")
    /\ Finish(c)
    /\ UNCHANGED <<checkpoint, known, record, overlapped>>

\* An agent raises (500); the checkpoint before the node stays.
NodeRaises(c) ==
    /\ \/ AtNode(c, "predict_questions") \/ AtNode(c, "evaluate_answer")
       \/ AtNode(c, "save_performance")
    /\ Finish(c)
    /\ UNCHANGED <<checkpoint, known, record, overlapped>>

-----------------------------------------------------------------------------
\* save_session: reads the state, whatever its status, and looks for a record
\* with the session's id; its own record gets another id.

SaveSession(c, t) ==
    /\ Idle(c)
    /\ t \in known
    /\ ~HasRecord(t)
    /\ handler' = [handler EXCEPT ![c] =
                     [NoHandler EXCEPT !.pc = "save", !.thread = t,
                                       !.state.summary = checkpoint[t].summary]]
    /\ UNCHANGED <<checkpoint, known, record, overlapped>>

\* The summary is overall_assessment, which after a debrief is never empty;
\* the scores of such a record are left out, and two alike are one here.
CreateRecord(c) ==
    /\ handler[c].pc = "save"
    /\ LET summary == IF handler[c].state.summary = "none" THEN "" ELSE "text"
       IN  record' = record \cup {[thread |-> handler[c].thread, id |-> "fresh",
                                   scores |-> <<>>, summary |-> summary]}
    /\ Finish(c)
    /\ UNCHANGED <<checkpoint, known, overlapped>>

\* The server restarts.
Crash ==
    /\ \E c \in Clients : ~Idle(c)
    /\ handler' = [c \in Clients |-> NoHandler]
    /\ UNCHANGED <<checkpoint, known, record, overlapped>>

Next ==
    \/ \E c \in Clients :
         \/ Start(c) \/ Begin(c)
         \/ \E t \in Threads : Answer(c, t) \/ SaveSession(c, t)
         \/ PredictQuestions(c) \/ PresentQuestion(c) \/ EvaluateAnswer(c)
         \/ AdvanceIndex(c) \/ AdvanceRound(c) \/ Debrief(c)
         \/ InsertRecord(c) \/ SavePerformance(c) \/ Return(c) \/ NodeRaises(c)
         \/ CreateRecord(c)
    \/ Crash

Spec == Init /\ [][Next]_vars

-----------------------------------------------------------------------------
\* Types of the checkpoints, the records and the handlers.
TypeOK ==
    /\ checkpoint \in [Threads -> State]
    /\ known \subseteq Threads
    /\ record \subseteq Record
    /\ handler \in [Clients -> Handler]
    /\ overlapped \subseteq Threads

\* The level a session ought to have: one up for every score that ends three
\* with an average above 4, one down for every three below 2.5, between easy
\* and hard.
LevelAfter(scores) ==
    LET three(n) == scores[n - 2].mark + scores[n - 1].mark + scores[n].mark
        height[n \in 0..Len(scores)] ==
          IF n < 3 THEN 2
          ELSE IF three(n) > 3 * 4 /\ height[n - 1] < 3 THEN height[n - 1] + 1
          ELSE IF 2 * three(n) < 3 * 5 /\ height[n - 1] > 1 THEN height[n - 1] - 1
          ELSE height[n - 1]
    IN  <<"easy", "medium", "hard">>[height[Len(scores)]]

\* The questions of a session, one after the other without a gap.
InOrder(q, r) == \/ r = <<q[1], q[2] + 1>>
                 \/ r = <<q[1] + 1, 0>>

(***************************************************************************)
(* No question is skipped or scored twice, and the level is what the       *)
(* scores so far make it, whatever runs overlap on the thread and wherever *)
(* one breaks off and another goes on; a session that was debriefed has    *)
(* been through its last round.                                            *)
(***************************************************************************)
ScoresInOrder ==
    \A t \in Threads :
      LET s == checkpoint[t]
          n == Len(s.scores)
      IN  /\ n > 0 => s.scores[1].question = <<1, 0>>
          /\ \A i \in 2..n : InOrder(s.scores[i - 1].question, s.scores[i].question)
          /\ s.level = LevelAfter(s.scores)
          /\ s.next \in {"debrief", "save_performance", "END"} =>
               /\ n > 0
               /\ s.scores[n].question[1] = IF s.campus THEN Rounds ELSE 1
               /\ s.scores[n].question[2] = IF s.total = 0 THEN 0 ELSE s.total - 1

(***************************************************************************)
(* A session has at most one record of its own, written when it was over,  *)
(* even if a run broke off after the insert and was repeated; unless two   *)
(* runs overlapped, the record agrees with what the debrief shows.         *)
(***************************************************************************)
RecordTellsSession ==
    \A r, q \in record :
      r.id = "session" =>
        /\ q.id = "session" /\ q.thread = r.thread => q = r
        /\ r.thread \notin overlapped =>
             /\ checkpoint[r.thread].next \in {"save_performance", "END"}
             /\ r.scores = checkpoint[r.thread].scores
             /\ r.summary = checkpoint[r.thread].summary

(***************************************************************************)
(* "Maximum 3 concurrent coaching sessions allowed"                        *)
(* (interview_coach.py:82).  A session has no record to be counted before  *)
(* its debrief, so the code does not keep this and no run checks it.       *)
(***************************************************************************)
SessionsLimited ==
    Cardinality({t \in known : checkpoint[t].next # "END"}) <= MaxActive
=============================================================================
