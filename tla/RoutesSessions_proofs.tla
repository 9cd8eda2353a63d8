------------------------ MODULE RoutesSessions_proofs ------------------------
(***************************************************************************)
(* The inductive invariants of the three parts of Routes that keep a       *)
(* session in rounds: mock interviews, coaching and negotiation.  For each *)
(* part X there are                                                        *)
(*   X Init   the initial states satisfy its invariant,                    *)
(*   X Step   each of its steps, and each that leaves it alone, keeps it.  *)
(* The theorems about Routes are in Routes_proofs.                         *)
(***************************************************************************)
EXTENDS Routes, TLAPS, FiniteSetTheorems, SequenceTheorems, WellFoundedInduction

\* The order by which the smallest counterexample of a claim is taken.
Less == OpToRel(<, Nat)

\* Every non-empty set of natural numbers has a smallest member.
LEMMA MinNat == ASSUME NEW S, S \subseteq Nat, S # {} PROVE \E m \in S : \A n \in S : m <= n
<1>1. \A x, y \in Nat : <<x, y>> \in Less <=> x < y
  BY DEF Less, OpToRel
<1>2. IsWellFoundedOn(Less, Nat)
  BY NatLessThanWellFounded, Zenon DEF Less
<1>3. PICK m \in S : \A n \in S : ~ (<<n, m>> \in Less)
  BY <1>2, WFMin
<1>4. \A n \in S : ~(n < m)
  BY <1>1, <1>3
<1>5. QED
  BY <1>4

-----------------------------------------------------------------------------
\* Mock sessions: submit_answer and complete_mock_session of interviews.py.

\* The index of a session counts its answers, and the i-th of them is to the
\* i-th question.
MockInStep(x) ==
    /\ x.index = Len(x.feedbacks)
    /\ \A i \in 1..Len(x.feedbacks) : x.feedbacks[i].question[2] = i - 1

MockGone(s) == session[s].status = "deleted" \/ s \in entangled

MockHolds(s, f) == \E i \in 1..Len(session[s].feedbacks) : session[s].feedbacks[i] = f

\* An answer is written over a session in step, to the question at its index; a
\* summary is about the first answers of its session; and a session is created
\* when there was none, or the one that came between is known.
MockHandlerOK(c) ==
    /\ mockHandler[c].pc \in {"answer", "complete"} =>
         mockHandler[c].session \in Sessions /\ MockInStep(mockHandler[c].read)
    /\ mockHandler[c].pc = "answer" =>
         /\ mockHandler[c].question \in Mock!Questions
         /\ mockHandler[c].question[2] = mockHandler[c].read.index
         /\ mockHandler[c].answer \in Mock!Answers
    /\ mockHandler[c].pc = "complete" =>
         \/ MockGone(mockHandler[c].session)
         \/ Mock!IsPrefix(mockHandler[c].read.feedbacks, session[mockHandler[c].session].feedbacks)
    /\ mockHandler[c].pc = "create" =>
         IF mockHandler[c].session = "none" THEN Mock!InProgress = {}
         ELSE Mock!InProgress \subseteq entangled \cup {mockHandler[c].session}

MockSessionOK(s) ==
    /\ MockInStep(session[s])
    /\ s \notin entangled => /\ Mock!IsPrefix(session[s].summary, session[s].feedbacks)
                             /\ s \in Mock!InProgress => Mock!InProgress = {s}

MockAnswerKept(a) == MockGone(a[1]) \/ MockHolds(a[1], a[2])

MockInv ==
    /\ Mock!TypeOK
    /\ interview.count > 0 => interview.generation > 0
    /\ \A c \in Clients : MockHandlerOK(c)
    /\ \A s \in Sessions : MockSessionOK(s)
    /\ \A a \in answered : MockAnswerKept(a)

\* Prefixes.
LEMMA MockPrefixSelf == ASSUME NEW s PROVE Len(s) \in Nat => Mock!IsPrefix(s, s)
BY DEF Mock!IsPrefix

\* A prefix of a sequence is one of the sequence with an element more.
LEMMA MockPrefixAppend ==
    ASSUME NEW S, NEW s \in Seq(S), NEW t \in Seq(S), NEW e \in S, Mock!IsPrefix(s, t)
    PROVE  Mock!IsPrefix(s, Append(t, e))
<1>1. Len(s) <= Len(t) /\ Len(s) \in Nat /\ Len(t) \in Nat
  BY DEF Mock!IsPrefix
<1>2. Len(Append(t, e)) = Len(t) + 1 /\ Append(t, e) \in Seq(S)
  OBVIOUS
<1>3. \A i \in 1..Len(s) : Append(t, e)[i] = t[i] /\ t[i] \in S
  BY <1>1
<1> DEFINE a == SubSeq(Append(t, e), 1, Len(s))
           b == SubSeq(t, 1, Len(s))
<1>4. /\ a \in Seq(S) /\ Len(a) = Len(s)
      /\ \A i \in 1..Len(s) : a[i] = Append(t, e)[i]
  BY <1>1, <1>3, SubSeqProperties
<1>5. /\ b \in Seq(S) /\ Len(b) = Len(s)
      /\ \A i \in 1..Len(s) : b[i] = t[i]
  BY <1>1, <1>3, SubSeqProperties
<1> HIDE DEF a, b
<1>6. a = b
  <2>1. \A i \in 1..Len(a) : a[i] = b[i]
    BY <1>3, <1>4, <1>5
  <2>2. QED
    BY <1>4, <1>5, <2>1, SeqEqual
<1>7. QED
  BY <1>1, <1>2, <1>6 DEF Mock!IsPrefix, a, b

\* The default records have their types.
LEMMA MockDefaults ==
    /\ Mock!NoSession \in Mock!Session /\ Mock!NoHandler \in Mock!Handler
    /\ Mock!NoSession.status = "absent" /\ Mock!NoSession.feedbacks = <<>> /\ Mock!NoSession.index = 0
    /\ Mock!NoSession.summary = <<>>
    /\ Mock!NoHandler.pc = "idle" /\ Mock!NoHandler.session = "none"
BY DEF Mock!NoSession, Mock!Session, Mock!NoHandler, Mock!Handler

\* An interview without questions and no session.
LEMMA MockInit == Mock!Init => MockInv
<1> SUFFICES ASSUME Mock!Init PROVE MockInv
  OBVIOUS
<1>1. Mock!TypeOK
  BY MockDefaults, MockQuestionsAssumption, GenerationsAssumption DEF Mock!Init, Mock!TypeOK
<1>2. ASSUME NEW c \in Clients PROVE MockHandlerOK(c)
  BY MockDefaults DEF Mock!Init, MockHandlerOK
<1>3. ASSUME NEW s \in Sessions PROVE MockSessionOK(s)
  <2>1. session[s] = Mock!NoSession
    BY DEF Mock!Init
  <2>2. Mock!IsPrefix(session[s].summary, session[s].feedbacks)
    BY <2>1, MockDefaults, MockPrefixSelf
  <2>3. QED
    BY <2>1, <2>2, MockDefaults DEF MockSessionOK, MockInStep, Mock!InProgress
<1>4. QED
  BY <1>1, <1>2, <1>3 DEF Mock!Init, MockInv

\* A step that leaves the sessions alone, and in which one handler takes a new
\* request or ends its own.
LEMMA MockHandlerStep ==
    ASSUME MockInv, NEW c \in Clients, NEW h \in Mock!Handler,
           mockHandler' = [mockHandler EXCEPT ![c] = h],
           UNCHANGED <<session, answered, entangled>>,
           interview' \in [stored : BOOLEAN, generation : 0..MaxGenerations, count : 0..MockQuestions],
           interview'.count > 0 => interview'.generation > 0,
           submitted' \in Mock!Answers \cup {0},
           h.pc \in {"answer", "complete"} =>
             /\ h.session \in Sessions
             /\ h.read = session[h.session],
           h.pc = "answer" =>
             /\ h.question \in Mock!Questions
             /\ h.question[2] = h.read.index
             /\ h.answer \in Mock!Answers,
           h.pc = "create" => h.session = "none" /\ Mock!InProgress = {}
    PROVE  MockInv'
<1> USE DEF MockInv
<1>1. /\ mockHandler'[c] = h
      /\ \A d \in Clients : d # c => mockHandler'[d] = mockHandler[d]
  BY DEF Mock!TypeOK
<1>2. Mock!TypeOK'
  BY DEF Mock!TypeOK
<1>3. Mock!InProgress' = Mock!InProgress
  BY DEF Mock!InProgress
<1>4. ASSUME NEW d \in Clients PROVE MockHandlerOK(d)'
  <2>1. CASE d # c
    BY <1>1, <1>3, <2>1 DEF MockHandlerOK, MockGone
  <2>2. CASE d = c
    <3>1. h.pc \in {"answer", "complete"} => MockInStep(h.read)
      BY DEF MockSessionOK
    <3>2. h.pc = "complete" => Mock!IsPrefix(h.read.feedbacks, session[h.session].feedbacks)
      BY MockPrefixSelf DEF Mock!TypeOK, Mock!Session
    <3>3. QED
      BY <1>1, <1>3, <2>2, <3>1, <3>2 DEF MockHandlerOK, MockGone, MockInStep
  <2>3. QED
    BY <2>1, <2>2
<1>5. ASSUME NEW s \in Sessions PROVE MockSessionOK(s)'
  BY <1>3 DEF MockSessionOK, MockInStep
<1>6. ASSUME NEW a \in answered' PROVE MockAnswerKept(a)'
  BY DEF MockAnswerKept, MockGone, MockHolds
<1>7. QED
  BY <1>2, <1>4, <1>5, <1>6

\* generate_questions asks the model.
LEMMA MockGeneratePreserves == ASSUME MockInv, NEW c \in Clients, Mock!Generate(c) PROVE MockInv'
<1>1. PICK h \in Mock!Handler : h = [Mock!NoHandler EXCEPT !.pc = "generate"]
  BY MockDefaults DEF Mock!Handler
<1>2. h.pc = "generate"
  BY <1>1 DEF Mock!NoHandler
<1>3. QED
  BY <1>1, <1>2, MockHandlerStep DEF Mock!Generate, Mock!Begin, MockInv, Mock!TypeOK

\* The new questions replace the old ones and start a generation of their own.
LEMMA MockStoreQuestionsPreserves ==
    ASSUME MockInv, NEW c \in Clients, Mock!StoreQuestions(c)
    PROVE  MockInv'
<1>1. /\ interview' \in [stored : BOOLEAN, generation : 0..MaxGenerations, count : 0..MockQuestions]
      /\ interview'.count > 0 => interview'.generation > 0
  <2>1. CASE interview.stored
    <3>1. PICK n \in 0..MockQuestions :
            interview' = [interview EXCEPT !.generation = @ + 1, !.count = n]
      BY <2>1 DEF Mock!StoreQuestions
    <3>2. /\ interview'.generation = interview.generation + 1 /\ interview'.count = n
          /\ interview' = [stored |-> interview.stored, generation |-> interview.generation + 1,
                           count |-> n]
      BY <3>1 DEF MockInv, Mock!TypeOK
    <3>3. interview.generation + 1 \in 0..MaxGenerations /\ interview.generation + 1 > 0
      BY GenerationsAssumption DEF Mock!StoreQuestions, MockInv, Mock!TypeOK
    <3>4. QED
      BY <3>2, <3>3 DEF MockInv, Mock!TypeOK
  <2>2. CASE ~interview.stored
    BY <2>2 DEF Mock!StoreQuestions, MockInv, Mock!TypeOK
  <2>3. QED
    BY <2>1, <2>2
<1>2. /\ mockHandler' = [mockHandler EXCEPT ![c] = Mock!NoHandler]
      /\ UNCHANGED <<session, submitted, answered, entangled>>
      /\ submitted \in Mock!Answers \cup {0}
  BY DEF Mock!StoreQuestions, Mock!Finish, MockInv, Mock!TypeOK
<1>3. QED
  BY <1>1, <1>2, MockDefaults, MockHandlerStep

\* start_mock_session goes on to its insert if no session is in progress.
LEMMA MockStartPreserves == ASSUME MockInv, NEW c \in Clients, Mock!Start(c) PROVE MockInv'
<1>1. PICK h \in Mock!Handler : h = [Mock!NoHandler EXCEPT !.pc = "create"]
  BY MockDefaults DEF Mock!Handler
<1>2. h.pc = "create" /\ h.session = "none"
  BY <1>1 DEF Mock!NoHandler
<1>3. QED
  BY <1>1, <1>2, MockHandlerStep DEF Mock!Start, Mock!Begin, MockInv, Mock!TypeOK

\* submit_answer reads the whole session and takes the question at its index.
LEMMA MockSubmitPreserves ==
    ASSUME MockInv, NEW c \in Clients, NEW s \in Sessions, Mock!Submit(c, s)
    PROVE  MockInv'
<1>1. <<interview.generation, session[s].index>> \in Mock!Questions
  BY MockQuestionsAssumption, GenerationsAssumption DEF Mock!Submit, MockInv, Mock!TypeOK,
       Mock!Session, Mock!Questions
<1>2. submitted + 1 \in Mock!Answers
  BY AnswersAssumption DEF Mock!Submit, MockInv, Mock!TypeOK, Mock!Answers
<1>3. PICK h \in Mock!Handler : h = [pc |-> "answer", session |-> s, read |-> session[s],
                                    question |-> <<interview.generation, session[s].index>>,
                                    answer |-> submitted + 1]
  BY <1>1, <1>2 DEF Mock!Handler, MockInv, Mock!TypeOK
<1>4. /\ h.pc = "answer" /\ h.session = s /\ h.read = session[s]
      /\ h.question = <<interview.generation, session[s].index>> /\ h.answer = submitted + 1
      /\ h.question[2] = session[s].index
  BY <1>3
<1>5. mockHandler' = [mockHandler EXCEPT ![c] = h]
  BY <1>3 DEF Mock!Submit, Mock!Begin
<1>6. QED
  BY <1>1, <1>2, <1>4, <1>5, MockHandlerStep DEF Mock!Submit, MockInv, Mock!TypeOK

\* complete_mock_session reads the answers it is going to summarise.
LEMMA MockCompletePreserves ==
    ASSUME MockInv, NEW c \in Clients, NEW s \in Sessions, Mock!Complete(c, s)
    PROVE  MockInv'
<1>1. PICK h \in Mock!Handler : h = [Mock!NoHandler EXCEPT !.pc = "complete", !.session = s, !.read = session[s]]
  BY MockDefaults DEF Mock!Handler, MockInv, Mock!TypeOK
<1>2. h.pc = "complete" /\ h.session = s /\ h.read = session[s]
  BY <1>1 DEF Mock!NoHandler
<1>3. QED
  BY <1>1, <1>2, MockHandlerStep DEF Mock!Complete, Mock!Begin, MockInv, Mock!TypeOK

\* delete_interview leaves the sessions where they are.
LEMMA MockDeleteInterviewPreserves ==
    ASSUME MockInv, NEW c \in Clients, Mock!DeleteInterview(c)
    PROVE  MockInv'
<1>1. PICK h \in Mock!Handler : h = mockHandler[c] /\ h.pc = "idle"
  BY DEF Mock!DeleteInterview, Mock!Idle, MockInv, Mock!TypeOK
<1>2. mockHandler' = [mockHandler EXCEPT ![c] = h]
  BY <1>1 DEF Mock!DeleteInterview, MockInv, Mock!TypeOK
<1>3. /\ interview' \in [stored : BOOLEAN, generation : 0..MaxGenerations, count : 0..MockQuestions]
      /\ interview'.count > 0 => interview'.generation > 0
  BY DEF Mock!DeleteInterview, MockInv, Mock!TypeOK
<1>4. QED
  BY <1>1, <1>2, <1>3, MockHandlerStep DEF Mock!DeleteInterview, MockInv, Mock!TypeOK

\* A session is created by a handler that found none, or by one that knows of
\* the session that was created since.
LEMMA MockCreatePreserves == ASSUME MockInv, NEW c \in Clients, Mock!Create(c) PROVE MockInv'
<1> USE DEF MockInv
<1>1. PICK s \in Sessions :
         /\ session[s].status = "absent"
         /\ session' = [session EXCEPT ![s].status = "in_progress"]
         /\ mockHandler' = [d \in Clients |->
                             IF d = c THEN Mock!NoHandler
                             ELSE IF mockHandler[d].pc = "create" THEN [mockHandler[d] EXCEPT !.session = s]
                             ELSE mockHandler[d]]
         /\ entangled' = IF mockHandler[c].session = "none" THEN entangled
                         ELSE entangled \cup {mockHandler[c].session, s}
  BY DEF Mock!Create
<1>2. mockHandler[c].pc = "create" /\ UNCHANGED <<interview, submitted, answered>>
  BY DEF Mock!Create
<1>3. PICK next \in Mock!Session : next = [session[s] EXCEPT !.status = "in_progress"]
  BY DEF Mock!TypeOK, Mock!Session
<1>4. /\ next.status = "in_progress" /\ next.feedbacks = session[s].feedbacks
      /\ next.index = session[s].index /\ next.summary = session[s].summary
  BY <1>3 DEF Mock!TypeOK, Mock!Session
<1>5. session' = [session EXCEPT ![s] = next]
  BY <1>1, <1>3 DEF Mock!TypeOK
<1>6. /\ session'[s] = next
      /\ \A x \in Sessions : x # s => session'[x] = session[x]
  BY <1>5 DEF Mock!TypeOK
<1>7. /\ mockHandler'[c] = Mock!NoHandler
      /\ \A d \in Clients : d # c /\ mockHandler[d].pc # "create" => mockHandler'[d] = mockHandler[d]
      /\ \A d \in Clients : d # c /\ mockHandler[d].pc = "create" =>
           mockHandler'[d] = [mockHandler[d] EXCEPT !.session = s]
  BY <1>1 DEF Mock!TypeOK
<1>8. ASSUME NEW d \in Clients, d # c, mockHandler[d].pc = "create"
      PROVE  mockHandler'[d] \in Mock!Handler /\ mockHandler'[d].pc = "create" /\ mockHandler'[d].session = s
  <2>1. ASSUME NEW x \in Mock!Handler, NEW y, y = [x EXCEPT !.session = s]
        PROVE  y \in Mock!Handler /\ y.pc = x.pc /\ y.session = s
    BY <2>1 DEF Mock!Handler
  <2>2. mockHandler[d] \in Mock!Handler /\ mockHandler'[d] = [mockHandler[d] EXCEPT !.session = s]
    BY <1>7, <1>8 DEF Mock!TypeOK
  <2>3. QED
    BY <1>8, <2>1, <2>2
<1>9. /\ mockHandler' \in [Clients -> Mock!Handler]
      /\ entangled' \subseteq Sessions
  <2>1. \A d \in Clients : mockHandler'[d] \in Mock!Handler
    BY <1>7, <1>8, MockDefaults DEF Mock!TypeOK
  <2>2. mockHandler[c].session = "none" \/ mockHandler[c].session \in Sessions
    BY DEF Mock!TypeOK, Mock!Handler
  <2>3. QED
    BY <1>1, <2>1, <2>2 DEF Mock!TypeOK
<1>10. Mock!TypeOK'
  BY <1>2, <1>5, <1>9 DEF Mock!TypeOK
<1>11. Mock!InProgress' = Mock!InProgress \cup {s}
  BY <1>4, <1>6 DEF Mock!InProgress
<1>12. mockHandler[c].session = "none" => Mock!InProgress = {}
  BY <1>2 DEF MockHandlerOK
<1>13. Mock!InProgress' \subseteq entangled' \cup {s}
  BY <1>1, <1>2, <1>11, <1>12 DEF MockHandlerOK
<1>14. ASSUME NEW x \in Sessions
       PROVE  (MockGone(x) => MockGone(x)') /\ \A f : MockHolds(x, f) => MockHolds(x, f)'
  BY <1>1, <1>4, <1>6 DEF MockGone, MockHolds
<1>15. ASSUME NEW d \in Clients PROVE MockHandlerOK(d)'
  <2>1. CASE d = c
    <3>1. mockHandler'[d].pc = "idle"
      BY <1>7, <2>1, MockDefaults
    <3>2. QED
      BY <3>1 DEF MockHandlerOK
  <2>2. CASE d # c /\ mockHandler[d].pc = "create"
    BY <1>8, <1>13, <2>2, SessionsAssumption DEF MockHandlerOK
  <2>3. CASE d # c /\ mockHandler[d].pc # "create"
    <3>1. mockHandler'[d] = mockHandler[d]
      BY <1>7, <2>3
    <3>2. \A x \in Sessions : session'[x].feedbacks = session[x].feedbacks
      BY <1>4, <1>6
    <3>3. QED
      BY <1>14, <2>3, <3>1, <3>2 DEF MockHandlerOK
  <2>4. QED
    BY <2>1, <2>2, <2>3
<1>16. ASSUME NEW x \in Sessions PROVE MockSessionOK(x)'
  <2>1. MockInStep(session'[x])
    BY <1>4, <1>6 DEF MockSessionOK, MockInStep
  <2>2. Mock!IsPrefix(session[x].summary, session[x].feedbacks) =>
          Mock!IsPrefix(session'[x].summary, session'[x].feedbacks)
    BY <1>4, <1>6
  <2>3. entangled \subseteq entangled'
    BY <1>1
  <2>4. x \in Mock!InProgress' /\ x \notin entangled' => Mock!InProgress' = {x}
    BY <1>1, <1>11, <1>12, <1>13
  <2>5. QED
    BY <2>1, <2>2, <2>3, <2>4 DEF MockSessionOK
<1>17. ASSUME NEW a \in answered' PROVE MockAnswerKept(a)'
  BY <1>2, <1>14 DEF MockAnswerKept, Mock!TypeOK
<1>18. QED
  BY <1>2, <1>10, <1>15, <1>16, <1>17

\* A step that writes one session from a handler that ends, or deletes one.
LEMMA MockSessionStep ==
    ASSUME MockInv, NEW c \in Clients, NEW h \in Mock!Handler, h.pc = "idle",
           mockHandler' = [mockHandler EXCEPT ![c] = h],
           NEW s \in Sessions, NEW next \in Mock!Session,
           session' = [session EXCEPT ![s] = next],
           UNCHANGED <<interview, submitted>>,
           entangled \subseteq entangled', entangled' \subseteq Sessions,
           next.status = "in_progress" => session[s].status = "in_progress",
           session[s].status = "deleted" => next.status = "deleted",
           MockInStep(next),
           s \in entangled' \/ Mock!IsPrefix(next.summary, next.feedbacks),
           \/ next.status = "deleted" \/ s \in entangled'
           \/ next.feedbacks = session[s].feedbacks
           \/ \E f \in Mock!Feedback : next.feedbacks = Append(session[s].feedbacks, f),
           answered' \subseteq Sessions \X Mock!Feedback,
           \A a \in answered' \ answered :
              /\ a[1] = s
              /\ \/ next.status = "deleted" \/ s \in entangled'
                 \/ \E i \in 1..Len(next.feedbacks) : next.feedbacks[i] = a[2]
    PROVE  MockInv'
<1> USE DEF MockInv
<1>1. /\ mockHandler'[c] = h
      /\ \A d \in Clients : d # c => mockHandler'[d] = mockHandler[d]
      /\ session'[s] = next
      /\ \A x \in Sessions : x # s => session'[x] = session[x]
  BY DEF Mock!TypeOK
<1>2. Mock!TypeOK'
  BY DEF Mock!TypeOK
<1>3. Mock!InProgress' \subseteq Mock!InProgress
  BY <1>1 DEF Mock!InProgress
<1>4. ASSUME NEW x \in Sessions PROVE MockGone(x) => MockGone(x)'
  BY <1>1 DEF MockGone
<1>5. ASSUME NEW x \in Sessions, NEW p \in Seq(Mock!Feedback), Mock!IsPrefix(p, session[x].feedbacks)
      PROVE  MockGone(x)' \/ Mock!IsPrefix(p, session'[x].feedbacks)
  <2>1. session[x].feedbacks \in Seq(Mock!Feedback)
    BY DEF Mock!TypeOK, Mock!Session
  <2>2. CASE x # s
    BY <1>1, <1>5, <2>2
  <2>3. ASSUME x = s, NEW f \in Mock!Feedback, next.feedbacks = Append(session[x].feedbacks, f)
        PROVE  Mock!IsPrefix(p, session'[x].feedbacks)
    <3>1. Mock!IsPrefix(p, Append(session[x].feedbacks, f))
      BY <1>5, <2>1, MockPrefixAppend
    <3>2. QED
      BY <1>1, <2>3, <3>1
  <2>4. CASE x = s /\ (next.status = "deleted" \/ s \in entangled')
    BY <1>1, <2>4 DEF MockGone
  <2>5. CASE x = s /\ next.feedbacks = session[s].feedbacks
    BY <1>1, <1>5, <2>5
  <2>6. QED
    BY <2>2, <2>3, <2>4, <2>5
<1>6. ASSUME NEW x \in Sessions, NEW f, MockHolds(x, f) PROVE MockGone(x)' \/ MockHolds(x, f)'
  <2>1. session[x].feedbacks \in Seq(Mock!Feedback)
    BY DEF Mock!TypeOK, Mock!Session
  <2>2. ASSUME NEW t \in Seq(Mock!Feedback), NEW g \in Mock!Feedback, NEW i \in 1..Len(t)
        PROVE  i \in 1..Len(Append(t, g)) /\ Append(t, g)[i] = t[i]
    OBVIOUS
  <2>3. QED
    BY <1>1, <1>6, <2>1, <2>2 DEF MockGone, MockHolds
<1>7. ASSUME NEW d \in Clients PROVE MockHandlerOK(d)'
  <2>1. CASE d = c
    BY <1>1, <2>1 DEF MockHandlerOK
  <2>2. CASE d # c
    <3>1. mockHandler'[d] = mockHandler[d] /\ mockHandler[d].read.feedbacks \in Seq(Mock!Feedback)
      BY <1>1, <2>2 DEF Mock!TypeOK, Mock!Handler, Mock!Session
    <3>2. mockHandler[d].pc = "complete" =>
            MockGone(mockHandler[d].session)' \/ Mock!IsPrefix(mockHandler[d].read.feedbacks, session'[mockHandler[d].session].feedbacks)
      BY <1>4, <1>5, <3>1 DEF MockHandlerOK
    <3>3. mockHandler[d].pc = "create" =>
            IF mockHandler[d].session = "none" THEN Mock!InProgress' = {}
            ELSE Mock!InProgress' \subseteq entangled' \cup {mockHandler[d].session}
      BY <1>3 DEF MockHandlerOK
    <3>4. QED
      BY <3>1, <3>2, <3>3 DEF MockHandlerOK
  <2>3. QED
    BY <2>1, <2>2
<1>8. ASSUME NEW x \in Sessions PROVE MockSessionOK(x)'
  <2>1. MockInStep(session'[x])
    BY <1>1 DEF MockSessionOK
  <2>2. x \notin entangled' => Mock!IsPrefix(session'[x].summary, session'[x].feedbacks)
    BY <1>1 DEF MockSessionOK
  <2>3. x \notin entangled' /\ x \in Mock!InProgress' => Mock!InProgress' = {x}
    BY <1>3 DEF MockSessionOK
  <2>4. QED
    BY <2>1, <2>2, <2>3 DEF MockSessionOK
<1>9. ASSUME NEW a \in answered' PROVE MockAnswerKept(a)'
  <2>1. CASE a \in answered
    BY <1>4, <1>6, <2>1 DEF MockAnswerKept, Mock!TypeOK
  <2>2. CASE a \notin answered
    BY <1>1, <2>2 DEF MockAnswerKept, MockGone, MockHolds
  <2>3. QED
    BY <2>1, <2>2
<1>10. QED
  BY <1>2, <1>7, <1>8, <1>9

\* The list is written with one answer more than was read: in step whatever came
\* between, and after the answers that are there unless one came between.
LEMMA MockStoreAnswerPreserves ==
    ASSUME MockInv, NEW c \in Clients, Mock!StoreAnswer(c)
    PROVE  MockInv'
<1> USE DEF MockInv
<1>1. PICK h \in Mock!Handler : h = mockHandler[c]
  BY DEF Mock!TypeOK
<1>2. /\ h.pc = "answer" /\ h.session \in Sessions /\ MockInStep(h.read)
      /\ h.question \in Mock!Questions /\ h.question[2] = h.read.index /\ h.answer \in Mock!Answers
  BY <1>1 DEF Mock!StoreAnswer, MockHandlerOK
<1>3. PICK entry \in Mock!Feedback : entry = [question |-> h.question, answer |-> h.answer]
  BY <1>2 DEF Mock!Feedback
<1>4. h.read.feedbacks \in Seq(Mock!Feedback) /\ h.read.index \in Nat
  BY DEF Mock!Handler, Mock!Session
<1>5. PICK s \in Sessions : s = h.session
  BY <1>2
<1>6. /\ mockHandler' = [mockHandler EXCEPT ![c] = Mock!NoHandler]
      /\ UNCHANGED <<interview, submitted>>
      /\ answered' = answered \cup {<<s, entry>>}
      /\ entangled' = IF session[s].feedbacks # h.read.feedbacks THEN entangled \cup {s} ELSE entangled
  BY <1>1, <1>3, <1>5 DEF Mock!StoreAnswer, Mock!Finish, Mock!Overtaken
<1>7. answered' \subseteq Sessions \X Mock!Feedback /\ entangled' \subseteq Sessions
  BY <1>6 DEF Mock!TypeOK
<1>8. CASE session[s].status = "deleted"
  <2>1. session' = [session EXCEPT ![s] = session[s]]
    BY <1>1, <1>5, <1>8 DEF Mock!StoreAnswer, Mock!TypeOK
  <2>2. session[s] \in Mock!Session
    BY DEF Mock!TypeOK
  <2>3. MockInStep(session[s]) /\ (s \in entangled' \/ Mock!IsPrefix(session[s].summary, session[s].feedbacks))
    BY <1>6 DEF MockSessionOK
  <2>4. QED
    BY <1>6, <1>7, <1>8, <2>1, <2>2, <2>3, MockDefaults, MockSessionStep
<1>9. CASE session[s].status # "deleted"
  <2>a. session[s] \in Mock!Session /\ Append(h.read.feedbacks, entry) \in Seq(Mock!Feedback)
        /\ h.read.index + 1 \in Nat
    BY <1>4 DEF Mock!TypeOK
  <2>b. PICK next \in Mock!Session : next = [session[s] EXCEPT !.feedbacks = Append(h.read.feedbacks, entry),
                                                              !.index = h.read.index + 1]
    BY <2>a DEF Mock!Session
  <2>1. /\ next.status = session[s].status /\ next.feedbacks = Append(h.read.feedbacks, entry)
        /\ next.index = h.read.index + 1 /\ next.summary = session[s].summary
    BY <2>a, <2>b DEF Mock!Session
  <2>2. session' = [session EXCEPT ![s] = next]
    <3>1. session' = [session EXCEPT ![s].feedbacks = Append(h.read.feedbacks, entry),
                                     ![s].index = h.read.index + 1]
      BY <1>1, <1>3, <1>5, <1>9 DEF Mock!StoreAnswer
    <3>2. QED
      BY <2>b, <3>1 DEF Mock!TypeOK
  <2>3. /\ Len(next.feedbacks) = Len(h.read.feedbacks) + 1
        /\ next.feedbacks[Len(h.read.feedbacks) + 1] = entry
        /\ \A i \in 1..Len(h.read.feedbacks) : next.feedbacks[i] = h.read.feedbacks[i]
        /\ Len(h.read.feedbacks) \in Nat
    BY <1>4, <2>1
  <2>4. MockInStep(next)
    <3>1. entry.question[2] = h.read.index
      BY <1>2, <1>3
    <3>2. h.read.index = Len(h.read.feedbacks)
      BY <1>2 DEF MockInStep
    <3>3. next.index = h.read.index + 1
      BY <2>1
    <3>4. ASSUME NEW i \in 1..Len(next.feedbacks) PROVE next.feedbacks[i].question[2] = i - 1
      <4>1. CASE i = Len(h.read.feedbacks) + 1
        BY <2>3, <3>1, <3>2, <4>1
      <4>2. CASE i # Len(h.read.feedbacks) + 1
        <5>1. i \in 1..Len(h.read.feedbacks)
          BY <2>3, <4>2
        <5>2. h.read.feedbacks[i].question[2] = i - 1
          BY <1>2, <5>1 DEF MockInStep
        <5>3. QED
          BY <2>3, <5>1, <5>2
      <4>3. QED
        BY <4>1, <4>2
    <3>5. QED
      BY <2>3, <3>2, <3>3, <3>4 DEF MockInStep
  <2>5. s \in entangled' \/ next.feedbacks = Append(session[s].feedbacks, entry)
    BY <1>6, <2>1
  <2>6. s \in entangled' \/ Mock!IsPrefix(next.summary, next.feedbacks)
    <3>1. session[s].summary \in Seq(Mock!Feedback) /\ session[s].feedbacks \in Seq(Mock!Feedback)
      BY DEF Mock!TypeOK, Mock!Session
    <3>2. next.summary = session[s].summary
      BY <2>1
    <3>3. s \in entangled' \/ Mock!IsPrefix(session[s].summary, session[s].feedbacks)
      BY <1>6 DEF MockSessionOK
    <3>4. QED
      BY <2>5, <3>1, <3>2, <3>3, MockPrefixAppend
  <2>7. /\ next.status = session[s].status
        /\ \E i \in 1..Len(next.feedbacks) : next.feedbacks[i] = entry
    BY <2>1, <2>3
  <2>8. \A a \in answered' \ answered : a[1] = s /\ a[2] = entry
    BY <1>6
  <2>9. /\ entangled \subseteq entangled'
        /\ \A a \in answered' \ answered :
             /\ a[1] = s
             /\ \E i \in 1..Len(next.feedbacks) : next.feedbacks[i] = a[2]
    BY <1>6, <2>7, <2>8
  <2>10. \/ s \in entangled'
         \/ \E f \in Mock!Feedback : next.feedbacks = Append(session[s].feedbacks, f)
    BY <2>5
  <2>11. QED
    BY ZenonT(40), <1>6, <1>7, <1>9, <2>2, <2>4, <2>6, <2>7, <2>9, <2>10, MockDefaults, MockSessionStep
<1>10. QED
  BY <1>8, <1>9

\* The summary is about the answers that were read, the first of those there are.
LEMMA MockStoreSummaryPreserves ==
    ASSUME MockInv, NEW c \in Clients, Mock!StoreSummary(c)
    PROVE  MockInv'
<1> USE DEF MockInv
<1>1. PICK h \in Mock!Handler : h = mockHandler[c]
  BY DEF Mock!TypeOK
<1>2. /\ h.pc = "complete"
      /\ MockGone(h.session) \/ Mock!IsPrefix(h.read.feedbacks, session[h.session].feedbacks)
  BY <1>1 DEF Mock!StoreSummary, MockHandlerOK
<1>3. PICK s \in Sessions : s = h.session
  BY <1>1, <1>2 DEF MockHandlerOK
<1>4. /\ mockHandler' = [mockHandler EXCEPT ![c] = Mock!NoHandler]
      /\ UNCHANGED <<interview, submitted, answered, entangled>>
      /\ answered \subseteq Sessions \X Mock!Feedback /\ entangled \subseteq Sessions
  BY DEF Mock!StoreSummary, Mock!Finish, Mock!TypeOK
<1>5. MockInStep(session[s]) /\ session[s] \in Mock!Session
  BY DEF MockSessionOK, Mock!TypeOK
<1>6. CASE session[s].status = "deleted"
  <2>1. session' = [session EXCEPT ![s] = session[s]]
    BY <1>1, <1>3, <1>6 DEF Mock!StoreSummary, Mock!TypeOK
  <2>2. s \in entangled' \/ Mock!IsPrefix(session[s].summary, session[s].feedbacks)
    BY <1>4 DEF MockSessionOK
  <2>3. QED
    BY <1>4, <1>5, <1>6, <2>1, <2>2, MockDefaults, MockSessionStep
<1>7. CASE session[s].status # "deleted"
  <2>1. h.read.feedbacks \in Seq(Mock!Feedback)
    BY DEF Mock!Handler, Mock!Session
  <2>b. PICK next \in Mock!Session : next = [session[s] EXCEPT !.status = "completed",
                                                              !.summary = h.read.feedbacks]
    BY <1>5, <2>1 DEF Mock!Session
  <2>2. session' = [session EXCEPT ![s] = next]
    <3>1. session' = [session EXCEPT ![s].status = "completed", ![s].summary = h.read.feedbacks]
      BY <1>1, <1>3, <1>7 DEF Mock!StoreSummary
    <3>2. QED
      BY <2>b, <3>1 DEF Mock!TypeOK
  <2>3. /\ next.status = "completed" /\ next.feedbacks = session[s].feedbacks
        /\ next.index = session[s].index /\ next.summary = h.read.feedbacks
    BY <1>5, <2>b DEF Mock!Session
  <2>4. MockInStep(next)
    BY <1>5, <2>3 DEF MockInStep
  <2>5. s \in entangled' \/ Mock!IsPrefix(next.summary, next.feedbacks)
    BY <1>2, <1>3, <1>4, <1>7, <2>3 DEF MockGone
  <2>6. QED
    BY <1>4, <1>7, <2>2, <2>3, <2>4, <2>5, MockDefaults, MockSessionStep
<1>8. QED
  BY <1>6, <1>7

\* delete_mock_session, in whatever status the session is.
LEMMA MockDeleteSessionPreserves ==
    ASSUME MockInv, NEW c \in Clients, NEW s \in Sessions, Mock!DeleteSession(c, s) PROVE MockInv'
<1> USE DEF MockInv
<1>1. PICK h \in Mock!Handler : h = mockHandler[c] /\ h.pc = "idle"
  BY DEF Mock!DeleteSession, Mock!Idle, Mock!TypeOK
<1>2. PICK next \in Mock!Session : next = [Mock!NoSession EXCEPT !.status = "deleted"]
  BY MockDefaults DEF Mock!Session
<1>3. /\ next.status = "deleted" /\ next.feedbacks = <<>> /\ next.index = 0
      /\ next.summary = <<>>
  BY <1>2 DEF Mock!NoSession
<1>4. /\ mockHandler' = [mockHandler EXCEPT ![c] = h]
      /\ session' = [session EXCEPT ![s] = next]
      /\ UNCHANGED <<interview, submitted, answered, entangled>>
      /\ answered \subseteq Sessions \X Mock!Feedback /\ entangled \subseteq Sessions
  BY <1>1, <1>2 DEF Mock!DeleteSession, Mock!TypeOK
<1>5. MockInStep(next) /\ Mock!IsPrefix(next.summary, next.feedbacks)
  BY <1>3, MockPrefixSelf DEF MockInStep
<1>6. QED
  BY <1>1, <1>3, <1>4, <1>5, MockSessionStep

\* Requests that fail, or a restart of the server.
LEMMA MockAbandonPreserves ==
    ASSUME MockInv, NEW C \in SUBSET Clients, Mock!Abandon(C)
    PROVE  MockInv'
<1> USE DEF MockInv
<1>1. /\ \A c \in Clients : mockHandler'[c] = IF c \in C THEN Mock!NoHandler ELSE mockHandler[c]
      /\ UNCHANGED <<interview, session, submitted, answered, entangled>>
  BY DEF Mock!Abandon
<1>2. Mock!TypeOK'
  BY MockDefaults DEF Mock!TypeOK, Mock!Abandon
<1>3. Mock!InProgress' = Mock!InProgress
  BY <1>1 DEF Mock!InProgress
<1>4. ASSUME NEW c \in Clients PROVE MockHandlerOK(c)'
  BY <1>1, <1>3, MockDefaults DEF MockHandlerOK, MockGone
<1>5. ASSUME NEW s \in Sessions PROVE MockSessionOK(s)'
  BY <1>1, <1>3 DEF MockSessionOK
<1>6. ASSUME NEW a \in answered' PROVE MockAnswerKept(a)'
  BY <1>1 DEF MockAnswerKept, MockGone, MockHolds
<1>7. QED
  BY <1>1, <1>2, <1>4, <1>5, <1>6

\* A step that changes nothing of the mock sessions.
LEMMA MockStutterPreserves == ASSUME MockInv, UNCHANGED mockVars PROVE MockInv'
BY DEF MockInv, mockVars, Mock!TypeOK, MockHandlerOK, MockSessionOK, MockAnswerKept, MockGone,
     MockHolds, Mock!InProgress, MockInStep

\* Every step of the mock-interview requests keeps the invariant.
LEMMA MockStep == MockInv /\ [Mock!Next]_mockVars => MockInv'
<1> SUFFICES ASSUME MockInv, [Mock!Next]_mockVars PROVE MockInv'
  OBVIOUS
<1>1. ASSUME NEW c \in Clients,
             Mock!Generate(c) \/ Mock!StoreQuestions(c) \/ Mock!Start(c) \/ Mock!Create(c)
      PROVE  MockInv'
  BY <1>1, MockGeneratePreserves, MockStoreQuestionsPreserves, MockStartPreserves,
       MockCreatePreserves
<1>2. ASSUME NEW c \in Clients, NEW s \in Sessions,
             Mock!Submit(c, s) \/ Mock!Complete(c, s) \/ Mock!DeleteSession(c, s)
      PROVE  MockInv'
  BY <1>2, MockSubmitPreserves, MockCompletePreserves, MockDeleteSessionPreserves
<1>3. ASSUME NEW c \in Clients, Mock!StoreAnswer(c) \/ Mock!StoreSummary(c) \/ Mock!DeleteInterview(c)
      PROVE  MockInv'
  BY <1>3, MockStoreAnswerPreserves, MockStoreSummaryPreserves, MockDeleteInterviewPreserves
<1>4. ASSUME NEW c \in Clients, Mock!Abandon({c}) PROVE MockInv'
  BY <1>4, MockAbandonPreserves
<1>5. CASE Mock!Abandon(Clients)
  BY <1>5, MockAbandonPreserves
<1>6. CASE UNCHANGED mockVars
  BY <1>6, MockStutterPreserves
<1>7. QED
  BY <1>1, <1>2, <1>3, <1>4, <1>5, <1>6 DEF Mock!Next

\* The invariant tells that answers are in step and kept.
LEMMA MockAnswersFollow == MockInv => Mock!AnswersInStep /\ Mock!AnswersKept
<1> SUFFICES ASSUME MockInv PROVE Mock!AnswersInStep /\ Mock!AnswersKept
  OBVIOUS
<1>1. Mock!AnswersInStep
  BY DEF Mock!AnswersInStep, MockInv, MockSessionOK, MockInStep
<1>2. Mock!AnswersKept
  BY DEF Mock!AnswersKept, MockInv, MockSessionOK, MockAnswerKept, MockGone, MockHolds
<1>3. QED
  BY <1>1, <1>2

-----------------------------------------------------------------------------
\* Negotiation simulations: graphs/negotiation.py and its routes.

\* What TranscriptTells says of a transcript.
TalksTold(tr) ==
    \A i \in 1..Len(tr) :
      /\ tr[i][1] = "user" => i < Len(tr) /\ tr[i + 1] = <<"recruiter", tr[i][2]>>
      /\ tr[i][1] = "recruiter" /\ tr[i][2] # 0 => i > 1 /\ tr[i - 1] = <<"user", tr[i][2]>>
      /\ \A j \in 1..i - 1 : tr[i][1] = "user" /\ tr[j][1] = "user" => tr[j][2] < tr[i][2]

\* An answer younger than those in a transcript.
TalksFresh(a, tr) == \A i \in 1..Len(tr) : tr[i][1] = "user" => tr[i][2] < a

\* The run of a thread that no other run executes has the checkpoint's state, and
\* its answer is either the youngest, to be handed over, or has been.
TalksRunOK(c) ==
    LET h == negotiationHandler[c]
    IN  /\ h.state = simulation[h.thread]
        /\ h.answer # 0 =>
             /\ h.answer <= given[h.thread]
             /\ IF h.resume THEN TalksFresh(h.answer, h.state.transcript) /\ h.state.pending < h.answer
                ELSE h.answer = h.state.pending

TalksHandlerOK(c) ==
    LET h == negotiationHandler[c]
    IN  /\ h.pc # "idle" => h.thread \in Threads
        /\ h.pc = "begin" => /\ h.thread \notin told /\ simulation[h.thread] = Talks!NoState
                             /\ h.answer = 0 /\ ~h.resume
        /\ h.pc \in {"run", "persist"} => simulation[h.thread].status # "none"
        /\ h.pc = "run" /\ h.thread \notin told =>
             h.state.transcript = <<>> /\ h.state.pending = 0 /\ ~h.resume
        /\ h.pc = "persist" => Len(h.state.transcript) \in {0, 1}
        /\ h.pc = "run" /\ h.thread \notin overlappedSimulations => TalksRunOK(c)

\* Two requests of one thread: the client knows the thread, and if both run it
\* is overlapped.
TalksPairOK(c, d) ==
    c # d /\ negotiationHandler[c].thread = negotiationHandler[d].thread /\ negotiationHandler[c].thread # NoThread =>
      /\ negotiationHandler[c].thread \in told
      /\ negotiationHandler[c].pc = "run" /\ negotiationHandler[d].pc = "run" => negotiationHandler[c].thread \in overlappedSimulations

TalksStateOK(t) ==
    LET s == simulation[t]
    IN  /\ TalksTold(s.transcript)
        /\ TalksFresh(given[t] + 1, s.transcript)
        /\ s.pending # 0 => TalksFresh(s.pending, s.transcript) /\ s.pending <= given[t]
        /\ s.status = "simulating" =>
             \A a \in accepted[t] :
               a = s.pending \/ \E i \in 1..Len(s.transcript) : s.transcript[i] = <<"user", a>>

TalksThreadOK(t) ==
    /\ t \in told => simulation[t].status # "none"
    /\ t \notin told => accepted[t] = {}
    /\ 0 \notin accepted[t]
    /\ t \notin overlappedSimulations => TalksStateOK(t)

TalksInv ==
    /\ Talks!TypeOK
    /\ \A c \in Clients : TalksHandlerOK(c)
    /\ \A c, d \in Clients : TalksPairOK(c, d)
    /\ \A t \in Threads : TalksThreadOK(t)

\* The default records have their types.
LEMMA TalksDefaults ==
    /\ Talks!NoState \in Talks!State /\ Talks!NoHandler \in Talks!Handler
    /\ Talks!NoState.status = "none" /\ Talks!NoState.transcript = <<>> /\ Talks!NoState.pending = 0
    /\ Talks!NoHandler.pc = "idle" /\ Talks!NoHandler.thread = NoThread /\ Talks!NoHandler.answer = 0
    /\ ~Talks!NoHandler.resume /\ Talks!NoHandler.state = Talks!NoState
BY AnswersAssumption DEF Talks!NoState, Talks!State, Talks!NoHandler, Talks!Handler, Talks!Answers

\* The node's turns: the transcript grows by the pending answer and the turn to
\* it, or by the recruiter's turn alone.
LEMMA TalksTurnsGrow ==
    ASSUME NEW s \in Talks!State
    PROVE  /\ Talks!Turns(s) \in Seq(Talks!Turn)
           /\ Len(s.transcript) <= Len(Talks!Turns(s)) /\ Len(Talks!Turns(s)) \in Nat
           /\ \A i \in 1..Len(s.transcript) : Talks!Turns(s)[i] = s.transcript[i]
           /\ s.pending = 0 =>
                /\ Len(Talks!Turns(s)) = Len(s.transcript) + 1
                /\ Talks!Turns(s)[Len(s.transcript) + 1] = <<"recruiter", 0>>
           /\ s.pending # 0 =>
                /\ Len(Talks!Turns(s)) = Len(s.transcript) + 2
                /\ Talks!Turns(s)[Len(s.transcript) + 1] = <<"user", s.pending>>
                /\ Talks!Turns(s)[Len(s.transcript) + 2] = <<"recruiter", s.pending>>
<1>1. s.transcript \in Seq(Talks!Turn) /\ s.pending \in Talks!Answers
  BY DEF Talks!State
<1>2. <<"user", s.pending>> \in Talks!Turn /\ <<"recruiter", s.pending>> \in Talks!Turn
  BY <1>1 DEF Talks!Turn
<1>3. CASE s.pending = 0
  <2>1. Talks!Turns(s) = s.transcript \o <<>> \o << <<"recruiter", 0>> >>
    BY <1>3 DEF Talks!Turns
  <2>2. Talks!Turns(s) = s.transcript \o << <<"recruiter", 0>> >>
    BY <1>1, <2>1
  <2>3. QED
    BY <1>1, <1>2, <1>3, <2>2
<1>4. CASE s.pending # 0
  <2>1. Talks!Turns(s) = s.transcript \o << <<"user", s.pending>> >> \o << <<"recruiter", s.pending>> >>
    BY <1>4 DEF Talks!Turns
  <2>2. QED
    BY <1>1, <1>2, <1>4, <2>1
<1>5. QED
  BY <1>3, <1>4

\* The two turns of a node keep a transcript in which every reply follows its answer.
LEMMA TalksTurnsTell ==
    ASSUME NEW s \in Talks!State, TalksTold(s.transcript),
           s.pending # 0 => TalksFresh(s.pending, s.transcript)
    PROVE  TalksTold(Talks!Turns(s))
<1>1. s.transcript \in Seq(Talks!Turn) /\ s.pending \in Talks!Answers
  BY DEF Talks!State
<1> DEFINE tr == s.transcript
           nt == Talks!Turns(s)
           n == Len(tr)
<1>2. n \in Nat /\ Len(nt) \in Nat /\ n < Len(nt)
  BY <1>1, TalksTurnsGrow
<1> SUFFICES ASSUME NEW i \in 1..Len(nt)
             PROVE  /\ nt[i][1] = "user" => i < Len(nt) /\ nt[i + 1] = <<"recruiter", nt[i][2]>>
                    /\ nt[i][1] = "recruiter" /\ nt[i][2] # 0 => i > 1 /\ nt[i - 1] = <<"user", nt[i][2]>>
                    /\ \A j \in 1..i - 1 : nt[i][1] = "user" /\ nt[j][1] = "user" => nt[j][2] < nt[i][2]
  BY DEF TalksTold
<1>3. CASE i <= n
  <2>1. nt[i] = tr[i] /\ i \in 1..n
    BY <1>2, <1>3, TalksTurnsGrow
  <2>a. ASSUME NEW k \in 1..n PROVE nt[k] = tr[k]
    BY TalksTurnsGrow
  <2>2. tr[i][1] = "user" => i < n /\ tr[i + 1] = <<"recruiter", tr[i][2]>> /\ nt[i + 1] = tr[i + 1]
    <3>1. tr[i][1] = "user" => i < n /\ tr[i + 1] = <<"recruiter", tr[i][2]>>
      BY <2>1 DEF TalksTold
    <3>2. i < n => i + 1 \in 1..n
      BY <1>2, <2>1
    <3>3. QED
      BY <2>a, <3>1, <3>2
  <2>3. tr[i][1] = "recruiter" /\ tr[i][2] # 0 =>
          i > 1 /\ tr[i - 1] = <<"user", tr[i][2]>> /\ nt[i - 1] = tr[i - 1]
    <3>1. tr[i][1] = "recruiter" /\ tr[i][2] # 0 => i > 1 /\ tr[i - 1] = <<"user", tr[i][2]>>
      BY <2>1 DEF TalksTold
    <3>2. i > 1 => i - 1 \in 1..n
      BY <1>2, <2>1
    <3>3. QED
      BY <2>a, <3>1, <3>2
  <2>4. ASSUME NEW j \in 1..i - 1, tr[i][1] = "user", nt[j][1] = "user" PROVE nt[j][2] < tr[i][2]
    <3>1. nt[j] = tr[j]
      BY <1>2, <2>1, TalksTurnsGrow
    <3>2. QED
      BY <2>1, <2>4, <3>1 DEF TalksTold
  <2>5. QED
    BY <1>2, <2>1, <2>2, <2>3, <2>4
<1>4. CASE i > n /\ s.pending = 0
  <2>1. i = n + 1 /\ nt[i] = <<"recruiter", 0>>
    BY <1>2, <1>4, TalksTurnsGrow
  <2>2. QED
    BY <2>1
<1>5. CASE i = n + 1 /\ s.pending # 0
  <2>1. nt[i] = <<"user", s.pending>> /\ nt[i + 1] = <<"recruiter", s.pending>> /\ i < Len(nt)
    BY <1>2, <1>5, TalksTurnsGrow
  <2>2. ASSUME NEW j \in 1..i - 1, nt[j][1] = "user" PROVE nt[j][2] < s.pending
    <3>1. nt[j] = tr[j] /\ j \in 1..n
      BY <1>2, <1>5, TalksTurnsGrow
    <3>2. QED
      BY <1>5, <2>2, <3>1 DEF TalksFresh
  <2>3. QED
    BY <2>1, <2>2
<1>6. CASE i = n + 2 /\ s.pending # 0
  <2>1. nt[i] = <<"recruiter", s.pending>> /\ nt[i - 1] = <<"user", s.pending>> /\ i > 1
    BY <1>2, <1>6, TalksTurnsGrow
  <2>2. QED
    BY <2>1
<1>7. QED
  <2>1. s.pending # 0 => Len(nt) = n + 2
    BY TalksTurnsGrow
  <2>2. QED
    BY <1>2, <1>3, <1>4, <1>5, <1>6, <2>1

\* An answer newer than the transcript and the pending one is new to the turns made of them.
LEMMA TalksTurnsFresh ==
    ASSUME NEW s \in Talks!State, NEW a \in Nat, TalksFresh(a, s.transcript), s.pending = 0 \/ s.pending < a
    PROVE  TalksFresh(a, Talks!Turns(s))
<1>1. s.transcript \in Seq(Talks!Turn) /\ s.pending \in Talks!Answers
  BY DEF Talks!State
<1> DEFINE n == Len(s.transcript)
<1>2. n \in Nat
  BY <1>1
<1> SUFFICES ASSUME NEW i \in 1..Len(Talks!Turns(s)), Talks!Turns(s)[i][1] = "user" PROVE Talks!Turns(s)[i][2] < a
  BY DEF TalksFresh
<1>3. CASE i <= n
  BY <1>2, <1>3, TalksTurnsGrow DEF TalksFresh
<1>4. CASE i > n /\ s.pending = 0
  <2>1. i = n + 1 /\ Talks!Turns(s)[i] = <<"recruiter", 0>>
    BY <1>2, <1>4, TalksTurnsGrow
  <2>2. QED
    BY <2>1
<1>5. CASE i > n /\ s.pending # 0
  <2>1. \/ Talks!Turns(s)[i] = <<"user", s.pending>>
        \/ Talks!Turns(s)[i] = <<"recruiter", s.pending>>
    <3>1. i = n + 1 \/ i = n + 2
      <4>1. Len(Talks!Turns(s)) = n + 2
        BY <1>5, TalksTurnsGrow
      <4>2. QED
        BY <1>2, <1>5, <4>1
    <3>2. /\ Talks!Turns(s)[n + 1] = <<"user", s.pending>>
          /\ Talks!Turns(s)[n + 2] = <<"recruiter", s.pending>>
      BY <1>5, TalksTurnsGrow
    <3>3. QED
      BY <3>1, <3>2
  <2>2. QED
    BY <1>5, <2>1
<1>6. QED
  BY <1>2, <1>3, <1>4, <1>5

\* What is new to a transcript, the next answer is too.
LEMMA TalksFreshLonger ==
    ASSUME NEW tr \in Seq(Talks!Turn), NEW a \in Nat, TalksFresh(a, tr)
    PROVE  TalksFresh(a + 1, tr)
<1>1. ASSUME NEW i \in 1..Len(tr), tr[i][1] = "user" PROVE tr[i][2] < a + 1
  <2>1. tr[i][2] \in Nat
    BY AnswersAssumption DEF Talks!Turn, Talks!Answers
  <2>2. tr[i][2] < a
    BY <1>1 DEF TalksFresh
  <2>3. QED
    BY <2>1, <2>2
<1>2. QED
  BY <1>1 DEF TalksFresh

\* No thread has a transcript.
LEMMA TalksInit == Talks!Init => TalksInv
<1> SUFFICES ASSUME Talks!Init PROVE TalksInv
  OBVIOUS
<1>1. Talks!TypeOK
  BY TalksDefaults, AnswersAssumption DEF Talks!Init, Talks!TypeOK, Talks!Answers
<1>2. ASSUME NEW c \in Clients PROVE TalksHandlerOK(c)
  BY TalksDefaults DEF Talks!Init, TalksHandlerOK
<1>3. ASSUME NEW c \in Clients, NEW d \in Clients PROVE TalksPairOK(c, d)
  BY TalksDefaults DEF Talks!Init, TalksPairOK
<1>4. ASSUME NEW t \in Threads PROVE TalksThreadOK(t)
  <2>1. simulation[t] = Talks!NoState /\ accepted[t] = {} /\ given[t] = 0 /\ told = {}
    BY DEF Talks!Init
  <2>2. TalksStateOK(t)
    BY <2>1, TalksDefaults DEF TalksStateOK, TalksTold, TalksFresh
  <2>3. QED
    BY <2>1, <2>2 DEF TalksThreadOK
<1>5. QED
  BY <1>1, <1>2, <1>3, <1>4 DEF TalksInv

\* A step of the handler of thread t, which alone may write its checkpoint: what
\* is left to show is the handler and the thread themselves.
LEMMA TalksThreadStep ==
    ASSUME TalksInv, NEW c \in Clients, NEW t \in Threads, negotiationHandler[c].thread = t,
           NEW h \in Talks!Handler, negotiationHandler' = [negotiationHandler EXCEPT ![c] = h],
           h.thread \in {t, NoThread},
           h.pc = "run" => negotiationHandler[c].pc \in {"begin", "run"},
           NEW s \in Talks!State, simulation' = [simulation EXCEPT ![t] = s],
           s = simulation[t] \/ (negotiationHandler[c].pc \in {"begin", "run"} /\ s.status # "none"),
           Talks!TypeOK',
           UNCHANGED <<told, given, overlappedSimulations>>,
           \A u \in Threads : u # t => accepted'[u] = accepted[u],
           TalksHandlerOK(c)', TalksThreadOK(t)'
    PROVE  TalksInv'
<1> USE DEF TalksInv
<1>1. /\ negotiationHandler'[c] = h
      /\ \A d \in Clients : d # c => negotiationHandler'[d] = negotiationHandler[d]
      /\ simulation'[t] = s
      /\ \A u \in Threads : u # t => simulation'[u] = simulation[u]
  BY DEF Talks!TypeOK
<1>2. ASSUME NEW d \in Clients PROVE TalksHandlerOK(d)'
  <2>1. CASE d # c /\ negotiationHandler[d].thread = t /\ s # simulation[t]
    <3>1. /\ t \in told
          /\ negotiationHandler[c].pc = "run" /\ negotiationHandler[d].pc = "run" => t \in overlappedSimulations
          /\ negotiationHandler[c].pc \in {"begin", "run"} /\ s.status # "none"
      BY <2>1, ThreadsAssumption DEF TalksPairOK
    <3>2. negotiationHandler[c].pc = "run"
      BY <3>1 DEF TalksHandlerOK
    <3>3. QED
      BY <1>1, <2>1, <3>1, <3>2 DEF TalksHandlerOK
  <2>2. CASE d # c /\ (negotiationHandler[d].thread # t \/ s = simulation[t])
    <3>1. negotiationHandler'[d] = negotiationHandler[d]
      BY <1>1, <2>2
    <3>2. negotiationHandler[d].thread \in Threads => simulation'[negotiationHandler[d].thread] = simulation[negotiationHandler[d].thread]
      BY <1>1, <2>2
    <3>3. negotiationHandler[d].pc \in {"idle", "answered"} \/ negotiationHandler[d].thread \in Threads
      BY DEF TalksHandlerOK
    <3>4. QED
      BY <3>1, <3>2, <3>3 DEF TalksHandlerOK, TalksRunOK
  <2>3. CASE d = c
    BY <2>3
  <2>4. QED
    BY <2>1, <2>2, <2>3
<1>3. ASSUME NEW d \in Clients, NEW e \in Clients PROVE TalksPairOK(d, e)'
  <2>1. CASE d # c /\ e # c
    <3>1. negotiationHandler'[d] = negotiationHandler[d] /\ negotiationHandler'[e] = negotiationHandler[e] /\ TalksPairOK(d, e)
      BY <1>1, <2>1
    <3>2. QED
      BY <3>1 DEF TalksPairOK
  <2>2. ASSUME NEW f \in Clients, f # c, negotiationHandler'[f].thread = h.thread, h.thread # NoThread
        PROVE  t \in told /\ (h.pc = "run" /\ negotiationHandler'[f].pc = "run" => t \in overlappedSimulations)
    <3>1. negotiationHandler'[f] = negotiationHandler[f] /\ negotiationHandler[f].thread = t
      BY <1>1, <2>2
    <3>2. t \in told /\ (negotiationHandler[c].pc = "run" /\ negotiationHandler[f].pc = "run" => t \in overlappedSimulations)
      BY <2>2, <3>1, ThreadsAssumption DEF TalksPairOK
    <3>3. negotiationHandler[c].pc # "begin"
      BY <3>2 DEF TalksHandlerOK
    <3>4. QED
      BY <3>1, <3>2, <3>3
  <2>3. CASE d = c /\ e # c
    BY <1>1, <2>2, <2>3 DEF TalksPairOK
  <2>4. CASE d # c /\ e = c
    BY <1>1, <2>2, <2>4 DEF TalksPairOK
  <2>5. CASE d = c /\ e = c
    BY <2>5 DEF TalksPairOK
  <2>6. QED
    BY <2>1, <2>3, <2>4, <2>5
<1>4. ASSUME NEW u \in Threads PROVE TalksThreadOK(u)'
  <2>1. CASE u # t
    <3>1. simulation'[u] = simulation[u] /\ accepted'[u] = accepted[u] /\ given'[u] = given[u]
      BY <1>1, <2>1
    <3>2. TalksStateOK(u)' <=> TalksStateOK(u)
      BY <3>1 DEF TalksStateOK
    <3>3. QED
      BY <3>1, <3>2 DEF TalksThreadOK
  <2>2. CASE u = t
    BY <2>2
  <2>3. QED
    BY <2>1, <2>2
<1>5. QED
  BY <1>2, <1>3, <1>4

\* A step that only changes the handler of a thread.
LEMMA TalksOwnStep ==
    ASSUME TalksInv, NEW c \in Clients, negotiationHandler[c].thread \in Threads,
           NEW h \in Talks!Handler, negotiationHandler' = [negotiationHandler EXCEPT ![c] = h],
           h.thread \in {negotiationHandler[c].thread, NoThread}, h.pc \in {"idle", "answered", "persist"},
           h.pc = "answered" => h.thread \in Threads,
           h.pc = "persist" => /\ h.thread \in Threads
                               /\ simulation[h.thread].status # "none"
                               /\ Len(h.state.transcript) \in {0, 1},
           UNCHANGED <<simulation, negotiation, told, given, accepted, overlappedSimulations>>
    PROVE  TalksInv'
<1> USE DEF TalksInv
<1>1. PICK t \in Threads : t = negotiationHandler[c].thread
  OBVIOUS
<1>2. negotiationHandler'[c] = h /\ simulation[t] \in Talks!State
  BY DEF Talks!TypeOK
<1>3. TalksHandlerOK(c)'
  BY <1>2 DEF TalksHandlerOK
<1>4. TalksThreadOK(t)'
  BY DEF TalksThreadOK, TalksStateOK
<1>5. Talks!TypeOK'
  BY DEF Talks!TypeOK
<1>6. simulation' = [simulation EXCEPT ![t] = simulation[t]]
  BY DEF Talks!TypeOK
<1>7. QED
  BY <1>1, <1>2, <1>3, <1>4, <1>5, <1>6, TalksThreadStep

\* The client has its response.
LEMMA TalksReadPreserves == ASSUME TalksInv, NEW c \in Clients, Talks!Read(c) PROVE TalksInv'
<1>1. negotiationHandler[c].thread \in Threads
  BY DEF Talks!Read, TalksInv, TalksHandlerOK
<1>2. QED
  BY <1>1, TalksDefaults, TalksOwnStep DEF Talks!Read

\* The coach raises or the process restarts, wherever the handler is.
LEMMA TalksFailPreserves == ASSUME TalksInv, NEW c \in Clients, Talks!Fail(c) PROVE TalksInv'
<1>1. negotiationHandler[c].thread \in Threads
  BY DEF Talks!Fail, TalksInv, TalksHandlerOK
<1>2. QED
  BY <1>1, TalksDefaults, TalksOwnStep DEF Talks!Fail

\* A new thread, which nobody else can know.
LEMMA TalksSimulatePreserves ==
    ASSUME TalksInv, NEW c \in Clients, Talks!Simulate(c)
    PROVE  TalksInv'
<1> USE DEF TalksInv
<1>1. PICK t \in Threads :
        /\ simulation[t] = Talks!NoState
        /\ \A d \in Clients : negotiationHandler[d].thread # t
        /\ negotiationHandler' = [negotiationHandler EXCEPT ![c] = [Talks!NoHandler EXCEPT !.pc = "begin", !.thread = t]]
  BY DEF Talks!Simulate
<1>2. PICK h \in Talks!Handler : h = [Talks!NoHandler EXCEPT !.pc = "begin", !.thread = t]
  BY TalksDefaults DEF Talks!Handler
<1>3. h.pc = "begin" /\ h.thread = t /\ h.answer = 0 /\ ~h.resume
  BY <1>2, TalksDefaults DEF Talks!Handler
<1>4. UNCHANGED <<simulation, negotiation, told, given, accepted, overlappedSimulations>>
  BY DEF Talks!Simulate
<1>5. /\ negotiationHandler'[c] = h
      /\ \A d \in Clients : d # c => negotiationHandler'[d] = negotiationHandler[d]
  BY <1>1, <1>2 DEF Talks!TypeOK
<1>6. Talks!TypeOK'
  BY <1>1, <1>2, <1>4 DEF Talks!TypeOK
<1>7. t \notin told
  BY <1>1, TalksDefaults DEF TalksThreadOK
<1>8. ASSUME NEW d \in Clients PROVE TalksHandlerOK(d)'
  <2>1. CASE d = c
    <3>1. /\ negotiationHandler'[d].pc = "begin" /\ negotiationHandler'[d].thread = t
          /\ negotiationHandler'[d].answer = 0 /\ ~negotiationHandler'[d].resume
      BY <1>3, <1>5, <2>1
    <3>2. t \notin told' /\ simulation'[t] = Talks!NoState
      BY <1>1, <1>4, <1>7
    <3>3. QED
      BY <3>1, <3>2 DEF TalksHandlerOK
  <2>2. CASE d # c
    BY <1>4, <1>5, <2>2 DEF TalksHandlerOK, TalksRunOK
  <2>3. QED
    BY <2>1, <2>2
<1>9. ASSUME NEW d \in Clients, NEW e \in Clients PROVE TalksPairOK(d, e)'
  BY <1>1, <1>3, <1>4, <1>5 DEF TalksPairOK
<1>10. ASSUME NEW u \in Threads PROVE TalksThreadOK(u)'
  BY <1>4 DEF TalksThreadOK, TalksStateOK
<1>11. QED
  BY <1>6, <1>8, <1>9, <1>10

\* The first run of a thread.
LEMMA TalksBeginPreserves == ASSUME TalksInv, NEW c \in Clients, Talks!Begin(c) PROVE TalksInv'
<1> USE DEF TalksInv
<1>1. PICK t \in Threads : t = negotiationHandler[c].thread
  BY DEF Talks!Begin, TalksHandlerOK
<1>2. negotiationHandler[c].pc = "begin" /\ t \notin told /\ negotiationHandler[c].answer = 0 /\ ~negotiationHandler[c].resume
  BY <1>1 DEF Talks!Begin, TalksHandlerOK
<1>3. PICK s \in Talks!State : s = [Talks!NoState EXCEPT !.status = "simulating"]
  BY TalksDefaults DEF Talks!State
<1>4. s.status = "simulating" /\ s.transcript = <<>> /\ s.pending = 0
  BY <1>3, TalksDefaults DEF Talks!State
<1>5. negotiationHandler[c] \in Talks!Handler
  BY DEF Talks!TypeOK
<1>6. PICK h \in Talks!Handler : h = [negotiationHandler[c] EXCEPT !.pc = "run", !.state = s]
  BY <1>5 DEF Talks!Handler
<1>7. /\ h.pc = "run" /\ h.thread = t /\ h.state = s /\ h.answer = 0 /\ ~h.resume
  BY <1>1, <1>2, <1>5, <1>6 DEF Talks!Handler
<1>8. /\ negotiationHandler' = [negotiationHandler EXCEPT ![c] = h]
      /\ simulation' = [simulation EXCEPT ![t] = s]
      /\ UNCHANGED <<negotiation, told, given, accepted, overlappedSimulations>>
  BY <1>1, <1>3, <1>6 DEF Talks!Begin, Talks!TypeOK
<1>9. negotiationHandler'[c] = h /\ simulation'[t] = s
  BY <1>8 DEF Talks!TypeOK
<1>10. Talks!TypeOK'
  BY <1>8 DEF Talks!TypeOK
<1>11. TalksHandlerOK(c)'
  BY <1>4, <1>7, <1>8, <1>9 DEF TalksHandlerOK, TalksRunOK
<1>12. TalksThreadOK(t)'
  <2>1. accepted[t] = {} /\ given[t] \in Nat
    BY <1>2, AnswersAssumption DEF TalksThreadOK, Talks!TypeOK, Talks!Answers
  <2>2. TalksTold(s.transcript) /\ TalksFresh(given[t] + 1, s.transcript)
    BY <1>4 DEF TalksTold, TalksFresh
  <2>3. QED
    BY <1>2, <1>4, <1>8, <1>9, <2>1, <2>2 DEF TalksThreadOK, TalksStateOK
<1>13. QED
  BY <1>1, <1>2, <1>4, <1>7, <1>8, <1>10, <1>11, <1>12, TalksThreadStep

\* A run that ends with state s in its checkpoint.
LEMMA TalksOverStep ==
    ASSUME TalksInv, NEW c \in Clients, negotiationHandler[c].pc = "run",
           NEW t \in Threads, t = negotiationHandler[c].thread,
           NEW s \in Talks!State, s.status # "none", Talks!Over(c, s),
           NEW next \in {simulation[t], s}, simulation' = [simulation EXCEPT ![t] = next],
           t \notin told => Len(s.transcript) \in {0, 1},
           UNCHANGED <<negotiation, told, given, overlappedSimulations>>,
           accepted' \in [Threads -> SUBSET Talks!Answers],
           \A u \in Threads : u # t => accepted'[u] = accepted[u],
           TalksThreadOK(t)'
    PROVE  TalksInv'
<1> USE DEF TalksInv
<1>1. negotiationHandler[c] \in Talks!Handler /\ simulation[t] \in Talks!State
  BY DEF Talks!TypeOK
<1>2. Talks!LastTurn(s) \in Talks!Turn \cup {<<>>} /\ Talks!FirstTurn(s) \in Talks!Turn \cup {<<>>}
  BY DEF Talks!LastTurn, Talks!FirstTurn, Talks!State
<1>3. PICK h \in Talks!Handler :
        h = [negotiationHandler[c] EXCEPT !.state = s,
                                          !.pc = IF negotiationHandler[c].thread \in told THEN "answered" ELSE "persist",
                                          !.reply = IF negotiationHandler[c].thread \in told THEN Talks!LastTurn(s) ELSE Talks!FirstTurn(s)]
  BY <1>1, <1>2 DEF Talks!Handler
<1>4. /\ h.thread = t /\ h.state = s
      /\ h.pc = IF t \in told THEN "answered" ELSE "persist"
  BY <1>1, <1>3 DEF Talks!Handler
<1>5. negotiationHandler' = [negotiationHandler EXCEPT ![c] = h]
  BY <1>3 DEF Talks!Over, Talks!TypeOK
<1>6. negotiationHandler'[c] = h
  BY <1>5 DEF Talks!TypeOK
<1>7. next \in Talks!State /\ simulation \in [Threads -> Talks!State]
  BY <1>1 DEF Talks!TypeOK
<1>8. simulation'[t] = next /\ next.status # "none"
  <2>1. simulation[t].status # "none"
    BY DEF TalksHandlerOK
  <2>2. simulation'[t] = next
    BY <1>7
  <2>3. QED
    BY <2>1, <2>2
<1>9. Talks!TypeOK'
  BY <1>5, <1>7 DEF Talks!TypeOK
<1>10. TalksHandlerOK(c)'
  BY <1>4, <1>6, <1>8 DEF TalksHandlerOK
<1>11. /\ h.thread \in {t, NoThread} /\ h.pc # "run"
       /\ next = simulation[t] \/ (negotiationHandler[c].pc \in {"begin", "run"} /\ next.status # "none")
       /\ UNCHANGED <<told, given, overlappedSimulations>>
  BY <1>4, <1>7, <1>8
<1>12. QED
  BY <1>5, <1>7, <1>9, <1>10, <1>11, TalksThreadStep

\* The coach ends the simulation: both turns are in the checkpoint, nothing is pending.
LEMMA TalksCompletePreserves ==
    ASSUME TalksInv, NEW c \in Clients, Talks!Complete(c)
    PROVE  TalksInv'
<1> USE DEF TalksInv
<1>1. PICK t \in Threads : t = negotiationHandler[c].thread
  BY DEF Talks!Complete, Talks!AtNode, TalksHandlerOK
<1>2. negotiationHandler[c].pc = "run" /\ negotiationHandler[c].state \in Talks!State
  BY DEF Talks!Complete, Talks!AtNode, Talks!TypeOK, Talks!Handler
<1>3. PICK s \in Talks!State : s = [status |-> "complete", transcript |-> Talks!Turns(negotiationHandler[c].state), pending |-> 0]
  <2>1. Talks!Turns(negotiationHandler[c].state) \in Seq(Talks!Turn) /\ 0 \in Talks!Answers
    BY <1>2, TalksTurnsGrow, AnswersAssumption DEF Talks!Answers
  <2>2. QED
    BY <2>1 DEF Talks!State
<1>4. /\ s.status = "complete" /\ s.transcript = Talks!Turns(negotiationHandler[c].state) /\ s.pending = 0
  BY <1>3
<1>5. /\ simulation' = [simulation EXCEPT ![t] = s] /\ Talks!Over(c, s)
      /\ UNCHANGED <<negotiation, told, given, accepted, overlappedSimulations>>
  BY <1>1, <1>3 DEF Talks!Complete
<1>6. t \notin told => Len(s.transcript) \in {0, 1}
  <2>1. t \notin told => negotiationHandler[c].state.transcript = <<>> /\ negotiationHandler[c].state.pending = 0
    BY <1>1, <1>2 DEF TalksHandlerOK
  <2>2. QED
    <3>1. PICK x \in Talks!State : x = negotiationHandler[c].state
      BY <1>2
    <3>2. ASSUME x.transcript = <<>>, x.pending = 0 PROVE Len(Talks!Turns(x)) = 1
      <4>1. Len(x.transcript) = 0
        <5>1. Len(<<>>) = 0
          OBVIOUS
        <5>2. QED
          BY <3>2, <5>1, Zenon
      <4>2. Len(Talks!Turns(x)) = Len(x.transcript) + 1
        BY <3>2, TalksTurnsGrow
      <4>3. QED
        BY <4>1, <4>2
    <3>3. QED
      BY <1>4, <2>1, <3>1, <3>2
<1>7. TalksThreadOK(t)'
  <2>1. simulation'[t] = s
    BY <1>5 DEF Talks!TypeOK
  <2>2. ASSUME t \notin overlappedSimulations
        PROVE  TalksTold(s.transcript) /\ TalksFresh(given[t] + 1, s.transcript)
    <3>1. negotiationHandler[c].state = simulation[t] /\ TalksStateOK(t) /\ given[t] \in Nat
      BY <1>1, <1>2, <2>2, AnswersAssumption DEF TalksHandlerOK, TalksRunOK, TalksThreadOK,
           Talks!TypeOK, Talks!Answers
    <3>2. TalksTold(s.transcript)
      BY <1>2, <1>4, <3>1, TalksTurnsTell DEF TalksStateOK
    <3>3. negotiationHandler[c].state.pending = 0 \/ negotiationHandler[c].state.pending < given[t] + 1
      BY <1>2, <3>1, AnswersAssumption DEF TalksStateOK, Talks!State, Talks!Answers
    <3>4. TalksFresh(given[t] + 1, s.transcript)
      BY <1>2, <1>4, <3>1, <3>3, TalksTurnsFresh DEF TalksStateOK
    <3>5. QED
      BY <3>2, <3>4
  <2>3. t \notin overlappedSimulations => TalksStateOK(t)'
    BY <1>4, <1>5, <2>1, <2>2 DEF TalksStateOK
  <2>4. QED
    BY <1>4, <1>5, <2>1, <2>3 DEF TalksThreadOK
<1>8. QED
  BY <1>1, <1>2, <1>4, <1>5, <1>6, <1>7, TalksOverStep DEF Talks!TypeOK

\* The answer is handed over, having waited for the turns before it.
LEMMA TalksResumePreserves == ASSUME TalksInv, NEW c \in Clients, Talks!Resume(c) PROVE TalksInv'
<1> USE DEF TalksInv
<1>1. PICK t \in Threads : t = negotiationHandler[c].thread
  BY DEF Talks!Resume, Talks!AtNode, TalksHandlerOK
<1>2. /\ negotiationHandler[c].pc = "run" /\ negotiationHandler[c].state \in Talks!State /\ negotiationHandler[c].answer \in Talks!Answers
      /\ negotiationHandler[c].resume /\ negotiationHandler[c].state.status = "simulating"
      /\ negotiationHandler[c] \in Talks!Handler
  BY DEF Talks!Resume, Talks!AtNode, Talks!TypeOK, Talks!Handler
<1>3. PICK s \in Talks!State : s = [status |-> "simulating", transcript |-> Talks!Turns(negotiationHandler[c].state),
                                   pending |-> negotiationHandler[c].answer]
  BY <1>2, TalksTurnsGrow DEF Talks!State
<1>4. /\ s.status = "simulating" /\ s.transcript = Talks!Turns(negotiationHandler[c].state)
      /\ s.pending = negotiationHandler[c].answer
  BY <1>3
<1>5. PICK h \in Talks!Handler : h = [negotiationHandler[c] EXCEPT !.state = s, !.resume = FALSE]
  BY <1>2 DEF Talks!Handler
<1>6. /\ h.pc = "run" /\ h.thread = t /\ h.state = s /\ h.answer = negotiationHandler[c].answer /\ ~h.resume
  BY <1>1, <1>2, <1>5 DEF Talks!Handler
<1>7. /\ negotiationHandler' = [negotiationHandler EXCEPT ![c] = h]
      /\ simulation' = [simulation EXCEPT ![t] = s]
      /\ UNCHANGED <<negotiation, told, given, accepted, overlappedSimulations>>
  BY <1>1, <1>3, <1>5 DEF Talks!Resume, Talks!TypeOK
<1>8. negotiationHandler'[c] = h /\ simulation'[t] = s
  BY <1>7 DEF Talks!TypeOK
<1>9. Talks!TypeOK'
  BY <1>7 DEF Talks!TypeOK
<1>10. t \in told
  BY <1>1, <1>2 DEF TalksHandlerOK
<1>11. TalksHandlerOK(c)'
  <2>1. t \notin overlappedSimulations => TalksRunOK(c)'
    BY <1>1, <1>2, <1>4, <1>6, <1>7, <1>8 DEF TalksHandlerOK, TalksRunOK
  <2>2. QED
    BY <1>4, <1>6, <1>7, <1>8, <1>10, <2>1 DEF TalksHandlerOK
<1>12. TalksThreadOK(t)'
  <2>1. ASSUME t \notin overlappedSimulations PROVE TalksStateOK(t)'
    <3>1. negotiationHandler[c].state = simulation[t] /\ TalksStateOK(t) /\ given[t] \in Nat
      BY <1>1, <1>2, <2>1, AnswersAssumption DEF TalksHandlerOK, TalksRunOK, TalksThreadOK,
           Talks!TypeOK, Talks!Answers
    <3>2. TalksTold(s.transcript)
      BY <1>2, <1>4, <3>1, TalksTurnsTell DEF TalksStateOK
    <3>3. negotiationHandler[c].state.pending = 0 \/ negotiationHandler[c].state.pending < given[t] + 1
      BY <1>2, <3>1, AnswersAssumption DEF TalksStateOK, Talks!State, Talks!Answers
    <3>4. TalksFresh(given[t] + 1, s.transcript)
      BY <1>2, <1>4, <3>1, <3>3, TalksTurnsFresh DEF TalksStateOK
    <3>5. s.pending # 0 => /\ s.pending <= given[t] /\ s.pending \in Nat
                           /\ TalksFresh(s.pending, negotiationHandler[c].state.transcript)
                           /\ negotiationHandler[c].state.pending < s.pending
      BY <1>1, <1>2, <1>4, <2>1, AnswersAssumption DEF TalksHandlerOK, TalksRunOK, Talks!Answers
    <3>6. s.pending # 0 => TalksFresh(s.pending, s.transcript)
      BY <1>2, <1>4, <3>5, TalksTurnsFresh
    <3>7. ASSUME NEW a \in accepted[t]
          PROVE  \E i \in 1..Len(s.transcript) : s.transcript[i] = <<"user", a>>
      <4>1. a # 0
        BY <3>7 DEF TalksThreadOK
      <4>2. \/ a = negotiationHandler[c].state.pending
            \/ \E i \in 1..Len(negotiationHandler[c].state.transcript) : negotiationHandler[c].state.transcript[i] = <<"user", a>>
        BY <1>2, <3>1, <3>7 DEF TalksStateOK
      <4>3. Len(negotiationHandler[c].state.transcript) \in Nat
        BY <1>2 DEF Talks!State
      <4>4. QED
        <5>1. PICK x \in Talks!State : x = negotiationHandler[c].state
          BY <1>2
        <5>2. CASE a = x.pending
          <6>1. /\ Len(Talks!Turns(x)) = Len(x.transcript) + 2
                /\ Talks!Turns(x)[Len(x.transcript) + 1] = <<"user", a>>
            BY <4>1, <5>2, TalksTurnsGrow
          <6>2. Len(x.transcript) + 1 \in 1..Len(Talks!Turns(x))
            BY <4>3, <5>1, <6>1
          <6>3. QED
            BY <1>4, <5>1, <6>1, <6>2
        <5>3. ASSUME NEW i \in 1..Len(x.transcript), x.transcript[i] = <<"user", a>>
              PROVE  i \in 1..Len(Talks!Turns(x)) /\ Talks!Turns(x)[i] = <<"user", a>>
          <6>1. Talks!Turns(x)[i] = x.transcript[i]
            BY TalksTurnsGrow
          <6>2. Len(x.transcript) <= Len(Talks!Turns(x)) /\ Len(Talks!Turns(x)) \in Nat
            BY TalksTurnsGrow
          <6>3. QED
            BY <4>3, <5>1, <5>3, <6>1, <6>2
        <5>4. QED
          BY <1>4, <4>2, <5>1, <5>2, <5>3
    <3>8. QED
      BY <1>7, <1>8, <3>2, <3>4, <3>5, <3>6, <3>7 DEF TalksStateOK
  <2>2. QED
    BY <1>4, <1>7, <1>8, <1>10, <2>1 DEF TalksThreadOK
<1>13. QED
  BY <1>1, <1>2, <1>4, <1>6, <1>7, <1>9, <1>11, <1>12, TalksThreadStep

\* The run ends with its state as it was; the answer it handed over is pending.
LEMMA TalksInterruptPreserves ==
    ASSUME TalksInv, NEW c \in Clients, Talks!Interrupt(c)
    PROVE  TalksInv'
<1> USE DEF TalksInv
<1>1. PICK t \in Threads : t = negotiationHandler[c].thread
  BY DEF Talks!Interrupt, Talks!AtNode, TalksHandlerOK
<1>2. /\ negotiationHandler[c].pc = "run" /\ ~negotiationHandler[c].resume
      /\ negotiationHandler[c].state.status = "simulating" /\ negotiationHandler[c].answer \in Talks!Answers
  BY DEF Talks!Interrupt, Talks!AtNode, Talks!TypeOK, Talks!Handler
<1>3. PICK s \in Talks!State : s = negotiationHandler[c].state
  BY DEF Talks!TypeOK, Talks!Handler
<1>4. /\ Talks!Over(c, s)
      /\ UNCHANGED <<simulation, negotiation, told, given, overlappedSimulations>>
      /\ accepted' = IF t \in told THEN [accepted EXCEPT ![t] = @ \cup ({negotiationHandler[c].answer} \ {0})]
                     ELSE accepted
  BY <1>1, <1>2, <1>3 DEF Talks!Interrupt, Talks!Accept
<1>5. /\ accepted' \in [Threads -> SUBSET Talks!Answers]
      /\ \A u \in Threads : u # t => accepted'[u] = accepted[u]
      /\ accepted'[t] = IF t \in told THEN accepted[t] \cup ({negotiationHandler[c].answer} \ {0}) ELSE accepted[t]
  BY <1>2, <1>4 DEF Talks!TypeOK
<1>6. t \notin told => Len(s.transcript) \in {0, 1}
  BY <1>1, <1>2, <1>3 DEF TalksHandlerOK
<1>7. TalksThreadOK(t)'
  <2>1. t \notin overlappedSimulations => negotiationHandler[c].state = simulation[t] /\ (negotiationHandler[c].answer # 0 => negotiationHandler[c].answer = simulation[t].pending)
    BY <1>1, <1>2 DEF TalksHandlerOK, TalksRunOK
  <2>2. t \notin overlappedSimulations => TalksStateOK(t)'
    BY <1>4, <1>5, <2>1 DEF TalksThreadOK, TalksStateOK
  <2>3. QED
    BY <1>4, <1>5, <2>2 DEF TalksThreadOK
<1>8. simulation' = [simulation EXCEPT ![t] = simulation[t]]
  BY <1>4 DEF Talks!TypeOK
<1>9. QED
  BY <1>1, <1>2, <1>3, <1>4, <1>5, <1>6, <1>7, <1>8, TalksOverStep

\* The thread was over when the run began.
LEMMA TalksNothingToRunPreserves ==
    ASSUME TalksInv, NEW c \in Clients, Talks!NothingToRun(c)
    PROVE  TalksInv'
<1> USE DEF TalksInv
<1>1. PICK t \in Threads : t = negotiationHandler[c].thread
  BY DEF Talks!NothingToRun, TalksHandlerOK
<1>2. PICK s \in Talks!State : s = negotiationHandler[c].state
  BY DEF Talks!TypeOK, Talks!Handler
<1>3. /\ negotiationHandler[c].pc = "run" /\ s.status = "complete" /\ Talks!Over(c, s)
      /\ UNCHANGED <<simulation, negotiation, told, given, accepted, overlappedSimulations>>
  BY <1>2 DEF Talks!NothingToRun
<1>4. t \notin told => Len(s.transcript) \in {0, 1}
  BY <1>1, <1>2, <1>3 DEF TalksHandlerOK
<1>5. TalksThreadOK(t)'
  BY <1>3 DEF TalksThreadOK, TalksStateOK
<1>6. simulation' = [simulation EXCEPT ![t] = simulation[t]] /\ accepted' \in [Threads -> SUBSET Talks!Answers]
  BY <1>3 DEF Talks!TypeOK
<1>7. QED
  BY <1>1, <1>3, <1>4, <1>5, <1>6, TalksOverStep

\* The client learns of its thread.
LEMMA TalksPersistPreserves == ASSUME TalksInv, NEW c \in Clients, Talks!Persist(c) PROVE TalksInv'
<1> USE DEF TalksInv
<1>1. PICK t \in Threads : t = negotiationHandler[c].thread
  BY DEF Talks!Persist, TalksHandlerOK
<1>2. /\ negotiationHandler[c].pc = "persist" /\ Len(negotiationHandler[c].state.transcript) \in {0, 1}
      /\ simulation[t].status # "none" /\ negotiationHandler[c] \in Talks!Handler
  BY <1>1 DEF Talks!Persist, TalksHandlerOK, Talks!TypeOK
<1>3. PICK h \in Talks!Handler : h = [negotiationHandler[c] EXCEPT !.pc = "answered"]
  BY <1>2 DEF Talks!Handler
<1>4. h.pc = "answered" /\ h.thread = t
  BY <1>1, <1>2, <1>3 DEF Talks!Handler
<1>5. /\ negotiationHandler' = [negotiationHandler EXCEPT ![c] = h]
      /\ told' = told \cup {t}
      /\ negotiation' = negotiation \cup {[thread |-> t, turns |-> Len(negotiationHandler[c].state.transcript)]}
      /\ UNCHANGED <<simulation, given, accepted, overlappedSimulations>>
  BY <1>1, <1>3 DEF Talks!Persist, Talks!TypeOK
<1>6. /\ negotiationHandler'[c] = h
      /\ \A d \in Clients : d # c => negotiationHandler'[d] = negotiationHandler[d]
  BY <1>5 DEF Talks!TypeOK
<1>7. Talks!TypeOK'
  <2>1. negotiation' \subseteq [thread : Threads, turns : {0, 1}]
    <3>1. PICK n \in {0, 1} : n = Len(negotiationHandler[c].state.transcript)
      BY <1>2
    <3>2. negotiation' = negotiation \cup {[thread |-> t, turns |-> n]}
      BY <1>5, <3>1
    <3>3. QED
      BY <3>2 DEF Talks!TypeOK
  <2>2. told' \subseteq Threads /\ negotiationHandler' \in [Clients -> Talks!Handler]
    BY <1>5 DEF Talks!TypeOK
  <2>3. QED
    BY <1>5, <2>1, <2>2 DEF Talks!TypeOK
<1>8. ASSUME NEW d \in Clients PROVE TalksHandlerOK(d)'
  <2>1. CASE d = c
    BY <1>4, <1>6, <2>1 DEF TalksHandlerOK
  <2>2. CASE d # c
    <3>1. negotiationHandler[d].pc = "begin" => negotiationHandler[d].thread # t
      BY <1>1, <2>2, ThreadsAssumption DEF TalksPairOK, TalksHandlerOK
    <3>2. QED
      BY <1>5, <1>6, <2>2, <3>1 DEF TalksHandlerOK, TalksRunOK
  <2>3. QED
    BY <2>1, <2>2
<1>9. ASSUME NEW d \in Clients, NEW e \in Clients PROVE TalksPairOK(d, e)'
  BY <1>1, <1>4, <1>5, <1>6 DEF TalksPairOK
<1>10. ASSUME NEW u \in Threads PROVE TalksThreadOK(u)'
  BY <1>2, <1>5 DEF TalksThreadOK, TalksStateOK
<1>11. QED
  BY <1>7, <1>8, <1>9, <1>10

\* delete_session leaves the thread alone.
LEMMA TalksDeleteSessionPreserves ==
    ASSUME TalksInv, NEW c \in Clients, Talks!DeleteSession(c)
    PROVE  TalksInv'
<1> USE DEF TalksInv
<1>1. UNCHANGED <<simulation, told, negotiationHandler, given, accepted, overlappedSimulations>>
  BY DEF Talks!DeleteSession
<1>2. Talks!TypeOK'
  BY DEF Talks!DeleteSession, Talks!TypeOK
<1>3. QED
  BY ZenonT(40), <1>1, <1>2 DEF TalksHandlerOK, TalksRunOK, TalksPairOK, TalksThreadOK, TalksStateOK

\* The answer of a new request is younger than all in the thread.
LEMMA TalksRespondPreserves ==
    ASSUME TalksInv, NEW c \in Clients, NEW t \in Threads, Talks!Respond(c, t)
    PROVE  TalksInv'
<1> USE DEF TalksInv
<1>1. PICK answer \in {0, given[t] + 1} :
         negotiationHandler' = [negotiationHandler EXCEPT ![c] =
                                  [Talks!NoHandler EXCEPT !.pc = "run", !.thread = t, !.state = simulation[t],
                                                          !.answer = answer, !.resume = TRUE]]
  BY DEF Talks!Respond
<1>2. /\ t \in told /\ given[t] < MaxAnswers /\ given[t] \in Nat
      /\ given' = [given EXCEPT ![t] = @ + 1]
      /\ overlappedSimulations' = IF \E d \in Clients : Talks!Running(d, t) THEN overlappedSimulations \cup {t} ELSE overlappedSimulations
      /\ UNCHANGED <<simulation, negotiation, told, accepted>>
  BY DEF Talks!Respond, Talks!TypeOK, Talks!Answers
<1>3. answer \in Talks!Answers /\ given[t] + 1 \in Talks!Answers
  BY <1>2, AnswersAssumption DEF Talks!Answers
<1>4. PICK h \in Talks!Handler : h = [Talks!NoHandler EXCEPT !.pc = "run", !.thread = t, !.state = simulation[t],
                                                            !.answer = answer, !.resume = TRUE]
  BY <1>3, TalksDefaults DEF Talks!Handler, Talks!TypeOK
<1>5. h.pc = "run" /\ h.thread = t /\ h.state = simulation[t] /\ h.answer = answer /\ h.resume
  BY <1>4, TalksDefaults DEF Talks!Handler
<1>6. /\ negotiationHandler'[c] = h
      /\ \A d \in Clients : d # c => negotiationHandler'[d] = negotiationHandler[d]
      /\ given'[t] = given[t] + 1
      /\ \A u \in Threads : u # t => given'[u] = given[u]
      /\ negotiationHandler[c].pc = "idle"
  BY <1>1, <1>2, <1>4 DEF Talks!TypeOK, Talks!Respond
<1>7. Talks!TypeOK'
  <2>1. negotiationHandler' \in [Clients -> Talks!Handler] /\ given' \in [Threads -> Talks!Answers]
    BY <1>1, <1>2, <1>3, <1>4 DEF Talks!TypeOK
  <2>2. QED
    BY <1>2, <2>1 DEF Talks!TypeOK
<1>8. ASSUME NEW d \in Clients PROVE TalksHandlerOK(d)'
  <2>1. CASE d = c
    <3>1. t \notin overlappedSimulations' => TalksRunOK(c)'
      <4>1. ASSUME t \notin overlappedSimulations', answer # 0
            PROVE  TalksFresh(answer, simulation[t].transcript) /\ simulation[t].pending < answer
        <5>1. TalksStateOK(t)
          BY <1>2, <4>1 DEF TalksThreadOK
        <5>2. simulation[t].pending \in Nat
          BY AnswersAssumption DEF Talks!TypeOK, Talks!State, Talks!Answers
        <5>3. QED
          BY <1>1, <1>2, <4>1, <5>1, <5>2 DEF TalksStateOK
      <4>2. QED
        BY <1>1, <1>2, <1>5, <1>6, <4>1 DEF TalksRunOK
    <3>2. simulation[t].status # "none"
      BY <1>2 DEF TalksThreadOK
    <3>3. QED
      BY <1>2, <1>5, <1>6, <2>1, <3>1, <3>2 DEF TalksHandlerOK
  <2>2. CASE d # c
    <3>1. negotiationHandler'[d] = negotiationHandler[d] /\ overlappedSimulations \subseteq overlappedSimulations'
      BY <1>2, <1>6, <2>2
    <3>2. negotiationHandler[d].pc = "run" /\ negotiationHandler[d].thread \notin overlappedSimulations' => TalksRunOK(d)'
      <4>1. ASSUME negotiationHandler[d].pc = "run", negotiationHandler[d].thread \notin overlappedSimulations'
            PROVE  TalksRunOK(d) /\ negotiationHandler[d].thread # t /\ negotiationHandler[d].thread \in Threads
        BY <1>2, <3>1, <4>1 DEF TalksHandlerOK, Talks!Running
      <4>2. QED
        BY <1>2, <1>6, <3>1, <4>1 DEF TalksRunOK
    <3>3. QED
      BY <1>2, <3>1, <3>2 DEF TalksHandlerOK
  <2>3. QED
    BY <2>1, <2>2
<1>9. ASSUME NEW d \in Clients, NEW e \in Clients PROVE TalksPairOK(d, e)'
  <2>1. \A f \in Clients : Talks!Running(f, t) => t \in overlappedSimulations'
    BY <1>2
  <2>2. CASE d # c /\ e # c
    BY <1>2, <1>6, <2>2 DEF TalksPairOK
  <2>3. CASE d = c \/ e = c
    BY <1>2, <1>5, <1>6, <2>1, <2>3 DEF TalksPairOK, Talks!Running
  <2>4. QED
    BY <2>2, <2>3
<1>10. ASSUME NEW u \in Threads PROVE TalksThreadOK(u)'
  <2>1. CASE u # t
    <3>1. u \in overlappedSimulations' <=> u \in overlappedSimulations
      BY <1>2, <2>1
    <3>2. QED
      BY <1>2, <1>6, <2>1, <3>1 DEF TalksThreadOK, TalksStateOK
  <2>2. ASSUME t \notin overlappedSimulations' PROVE TalksStateOK(t)'
    <3>1. TalksStateOK(t)
      BY <1>2, <2>2 DEF TalksThreadOK
    <3>2. simulation[t].pending \in Nat /\ simulation[t].transcript \in Seq(Talks!Turn)
      BY AnswersAssumption DEF Talks!TypeOK, Talks!State, Talks!Answers
    <3>3. TalksFresh(given[t] + 1 + 1, simulation[t].transcript)
      <4>1. TalksFresh(given[t] + 1, simulation[t].transcript) /\ given[t] + 1 \in Nat
        BY <1>2, <3>1 DEF TalksStateOK
      <4>2. QED
        BY <3>2, <4>1, TalksFreshLonger
    <3>4. given'[t] + 1 = given[t] + 1 + 1
      BY <1>6
    <3>5. TalksFresh(given'[t] + 1, simulation[t].transcript)
      BY <3>3, <3>4
    <3>6. simulation[t].pending <= given[t] => simulation[t].pending <= given'[t]
      BY <1>2, <1>6, <3>2
    <3>7. QED
      BY <1>2, <3>1, <3>5, <3>6 DEF TalksStateOK
  <2>3. TalksThreadOK(t)'
    BY <1>2, <2>2 DEF TalksThreadOK
  <2>4. QED
    BY <2>1, <2>3
<1>11. QED
  BY <1>7, <1>8, <1>9, <1>10

\* A step that changes nothing of the simulations.
LEMMA TalksStutterPreserves == ASSUME TalksInv, UNCHANGED negotiationVars PROVE TalksInv'
<1>1. UNCHANGED <<simulation, negotiation, told, negotiationHandler, given, accepted, overlappedSimulations>>
  BY DEF negotiationVars
<1>2. Talks!TypeOK'
  BY <1>1 DEF TalksInv, Talks!TypeOK
<1>3. (\A c \in Clients : TalksHandlerOK(c))'
  BY <1>1 DEF TalksInv, TalksHandlerOK, TalksRunOK
<1>4. (\A c, d \in Clients : TalksPairOK(c, d))'
  BY <1>1 DEF TalksInv, TalksPairOK
<1>5. (\A t \in Threads : TalksThreadOK(t))'
  BY <1>1 DEF TalksInv, TalksThreadOK, TalksStateOK
<1>6. QED
  BY <1>2, <1>3, <1>4, <1>5 DEF TalksInv

\* Every step of the negotiation requests keeps the invariant.
LEMMA TalksStep == TalksInv /\ [Talks!Next]_negotiationVars => TalksInv'
<1> SUFFICES ASSUME TalksInv, [Talks!Next]_negotiationVars PROVE TalksInv'
  OBVIOUS
<1>1. ASSUME NEW c \in Clients, Talks!Simulate(c) \/ Talks!Begin(c) \/ Talks!Persist(c) \/ Talks!Read(c) \/ Talks!Fail(c) \/ Talks!DeleteSession(c)
      PROVE  TalksInv'
  BY <1>1, TalksSimulatePreserves, TalksBeginPreserves, TalksPersistPreserves, TalksReadPreserves,
       TalksFailPreserves,
     TalksDeleteSessionPreserves
<1>2. ASSUME NEW c \in Clients, Talks!Complete(c) \/ Talks!Resume(c) \/ Talks!Interrupt(c) \/ Talks!NothingToRun(c)
      PROVE  TalksInv'
  BY <1>2, TalksCompletePreserves, TalksResumePreserves, TalksInterruptPreserves,
       TalksNothingToRunPreserves
<1>3. ASSUME NEW c \in Clients, NEW t \in Threads, Talks!Respond(c, t) PROVE TalksInv'
  BY <1>3, TalksRespondPreserves
<1>4. CASE UNCHANGED negotiationVars
  BY <1>4, TalksStutterPreserves
<1>5. QED
  BY <1>1, <1>2, <1>3, <1>4 DEF Talks!Next

\* Every answer taken while the simulation goes on is pending or written down.
TalksAccounted(t) ==
    simulation[t].status = "simulating" =>
      \A a \in accepted[t] :
        a = simulation[t].pending \/ <<"user", a>> \in Talks!Range(simulation[t].transcript)

\* The invariant tells that transcripts are in order.
LEMMA TalksTranscriptFollows == TalksInv => Talks!TranscriptTells
<1> SUFFICES ASSUME TalksInv PROVE Talks!TranscriptTells
  OBVIOUS
<1>1. ASSUME NEW t \in Threads, t \notin overlappedSimulations
      PROVE  TalksTold(simulation[t].transcript) /\ TalksAccounted(t)
  <2>1. TalksStateOK(t)
    BY <1>1 DEF TalksInv, TalksThreadOK
  <2>2. ASSUME simulation[t].status = "simulating", NEW a \in accepted[t], a # simulation[t].pending
        PROVE  <<"user", a>> \in Talks!Range(simulation[t].transcript)
    <3>1. \E i \in 1..Len(simulation[t].transcript) : simulation[t].transcript[i] = <<"user", a>>
      BY <2>1, <2>2 DEF TalksStateOK
    <3>2. QED
      BY <3>1 DEF Talks!Range
  <2>3. QED
    BY <2>1, <2>2 DEF TalksStateOK, TalksAccounted
<1>2. \A t \in Threads : t \notin overlappedSimulations => TalksTold(simulation[t].transcript) /\ TalksAccounted(t)
  BY <1>1
<1>3. QED
  BY <1>2, Zenon DEF TalksTold, TalksAccounted, Talks!TranscriptTells

-----------------------------------------------------------------------------
\* Coaching sessions: the graph and the routes of interview_coach.py.

\* The marks that end with the n-th, and the level's height after n scores.
CoachThree(s, n) == s[n - 2].mark + s[n - 1].mark + s[n].mark

CoachHeights(s, m, h) ==
    h = [n \in 0..m |->
          IF n < 3 THEN 2
          ELSE IF CoachThree(s, n) > 3 * 4 /\ h[n - 1] < 3 THEN h[n - 1] + 1
          ELSE IF 2 * CoachThree(s, n) < 3 * 5 /\ h[n - 1] > 1 THEN h[n - 1] - 1
          ELSE h[n - 1]]

\* Do the first k of t agree with those of s?
CoachAgree(s, t, k) == \A n \in 1..k : t[n] = s[n]

\* The heights exist, ...
LEMMA CoachHeightsExist ==
    ASSUME NEW s \in Seq(Coach!Score), NEW k \in 0..Len(s)
    PROVE  \E h \in [0..k -> 1..3] : CoachHeights(s, k, h)
<1> DEFINE P(m) == \E h \in [0..m -> 1..3] : CoachHeights(s, m, h)
           Bad == {m \in 0..Len(s) : ~P(m)}
<1>1. P(0)
  <2>1. [n \in 0..0 |-> 2] \in [0..0 -> 1..3]
    OBVIOUS
  <2>2. PICK h \in [0..0 -> 1..3] : h = [n \in 0..0 |-> 2]
    BY <2>1
  <2>3. ASSUME NEW n \in 0..0, NEW v PROVE (IF n < 3 THEN 2 ELSE v) = 2
    OBVIOUS
  <2>4. CoachHeights(s, 0, h)
    BY <2>2, <2>3 DEF CoachHeights
  <2>5. QED
    BY <2>4
<1>2. ASSUME NEW m \in 1..Len(s), P(m - 1) PROVE P(m)
  <2>1. PICK g \in [0..m - 1 -> 1..3] : CoachHeights(s, m - 1, g)
    BY <1>2
  <2> DEFINE top == IF m < 3 THEN 2
                    ELSE IF CoachThree(s, m) > 3 * 4 /\ g[m - 1] < 3 THEN g[m - 1] + 1
                    ELSE IF 2 * CoachThree(s, m) < 3 * 5 /\ g[m - 1] > 1 THEN g[m - 1] - 1
                    ELSE g[m - 1]
             h == [n \in 0..m |-> IF n = m THEN top ELSE g[n]]
  <2>2. top \in 1..3 /\ m - 1 \in 0..m - 1
    OBVIOUS
  <2>3. h \in [0..m -> 1..3] /\ h[m] = top /\ \A n \in 0..m - 1 : h[n] = g[n]
    BY <2>2
  <2>4. ASSUME NEW n \in 0..m
        PROVE  h[n] = IF n < 3 THEN 2
                      ELSE IF CoachThree(s, n) > 3 * 4 /\ h[n - 1] < 3 THEN h[n - 1] + 1
                      ELSE IF 2 * CoachThree(s, n) < 3 * 5 /\ h[n - 1] > 1 THEN h[n - 1] - 1
                      ELSE h[n - 1]
    <3>1. CASE n = m
      <4>1. m - 1 \in 0..m - 1 /\ h[m - 1] = g[m - 1]
        BY <2>3
      <4>2. QED
        BY <2>3, <3>1, <4>1
    <3>2. CASE n # m
      <4>1. n \in 0..m - 1 /\ h[n] = g[n]
        BY <2>3, <3>2
      <4>2. g[n] = IF n < 3 THEN 2
                   ELSE IF CoachThree(s, n) > 3 * 4 /\ g[n - 1] < 3 THEN g[n - 1] + 1
                   ELSE IF 2 * CoachThree(s, n) < 3 * 5 /\ g[n - 1] > 1 THEN g[n - 1] - 1
                   ELSE g[n - 1]
        BY <2>1, <4>1 DEF CoachHeights
      <4>3. n >= 3 => n - 1 \in 0..m - 1 /\ h[n - 1] = g[n - 1]
        BY <2>3, <3>2
      <4>4. QED
        BY <4>1, <4>2, <4>3
    <3>3. QED
      BY <3>1, <3>2
  <2>5. CoachHeights(s, m, h)
    BY <2>4, Zenon DEF CoachHeights
  <2>6. QED
    BY <2>3, <2>5
<1>3. Bad = {}
  <2>1. SUFFICES ASSUME Bad # {} PROVE FALSE
    OBVIOUS
  <2>2. PICK m \in Bad : \A n \in Bad : m <= n
    <3>1. Bad \subseteq Nat
      OBVIOUS
    <3>2. QED
      BY <2>1, <3>1, MinNat
  <2>3. m # 0 /\ m \in 0..Len(s) /\ ~P(m)
    BY <1>1, <2>2
  <2>4. m - 1 \in 0..Len(s) /\ m - 1 \notin Bad
    BY <2>2, <2>3
  <2>5. P(m - 1) /\ m \in 1..Len(s)
    BY <2>3, <2>4
  <2>6. QED
    BY <1>2, <2>3, <2>5
<1>4. QED
  BY <1>3

\* ... and are those of any scores that begin with these.
LEMMA CoachHeightsAgree ==
    ASSUME NEW k \in Nat, NEW m \in Nat, k <= m, NEW s, NEW t, CoachAgree(s, t, k),
           NEW g, CoachHeights(s, k, g), NEW h, CoachHeights(t, m, h)
    PROVE  \A n \in 0..k : h[n] = g[n]
<1> DEFINE Bad == {n \in 0..k : h[n] # g[n]}
<1>2. ASSUME NEW n \in 0..k
      PROVE  /\ g[n] = IF n < 3 THEN 2
                       ELSE IF CoachThree(s, n) > 3 * 4 /\ g[n - 1] < 3 THEN g[n - 1] + 1
                       ELSE IF 2 * CoachThree(s, n) < 3 * 5 /\ g[n - 1] > 1 THEN g[n - 1] - 1
                       ELSE g[n - 1]
             /\ h[n] = IF n < 3 THEN 2
                       ELSE IF CoachThree(t, n) > 3 * 4 /\ h[n - 1] < 3 THEN h[n - 1] + 1
                       ELSE IF 2 * CoachThree(t, n) < 3 * 5 /\ h[n - 1] > 1 THEN h[n - 1] - 1
                       ELSE h[n - 1]
             /\ n >= 3 => CoachThree(t, n) = CoachThree(s, n)
  <2>1. n \in 0..m
    OBVIOUS
  <2>2. n >= 3 => CoachThree(t, n) = CoachThree(s, n)
    BY DEF CoachThree, CoachAgree
  <2>3. QED
    BY <2>1, <2>2 DEF CoachHeights
<1>3. Bad = {}
  <2>1. SUFFICES ASSUME Bad # {} PROVE FALSE
    OBVIOUS
  <2>2. PICK p \in Bad : \A n \in Bad : p <= n
    <3>1. Bad \subseteq Nat
      OBVIOUS
    <3>2. QED
      BY <2>1, <3>1, MinNat
  <2>3. p \in 0..k /\ h[p] # g[p]
    BY <2>2
  <2>4. p >= 3
    BY <1>2, <2>3
  <2>5. p - 1 \in 0..k /\ p - 1 \notin Bad
    BY <2>2, <2>3, <2>4
  <2>6. h[p - 1] = g[p - 1]
    BY <2>5
  <2>7. QED
    BY <1>2, <2>3, <2>4, <2>6
<1>4. QED
  BY <1>3

\* The level after some scores is one of the three.
LEMMA CoachLevelIs ==
    ASSUME NEW s \in Seq(Coach!Score)
    PROVE  \E h \in [0..Len(s) -> 1..3] :
             CoachHeights(s, Len(s), h) /\ Coach!LevelAfter(s) = <<"easy", "medium", "hard">>[h[Len(s)]]
<1> DEFINE h == CHOOSE h : CoachHeights(s, Len(s), h)
<1>1. Len(s) \in 0..Len(s)
  OBVIOUS
<1>2. PICK g \in [0..Len(s) -> 1..3] : CoachHeights(s, Len(s), g)
  BY <1>1, CoachHeightsExist
<1>3. CoachHeights(s, Len(s), h)
  BY <1>2
<1>4. Coach!LevelAfter(s) = <<"easy", "medium", "hard">>[h[Len(s)]]
  BY Zenon DEF Coach!LevelAfter, CoachHeights, CoachThree
<1>5. h = g
  <2>1. Len(s) \in Nat /\ Len(s) <= Len(s) /\ CoachAgree(s, s, Len(s))
    BY DEF CoachAgree
  <2>2. \A n \in 0..Len(s) : h[n] = g[n]
    BY <1>2, <1>3, <2>1, CoachHeightsAgree
  <2>3. h = [n \in 0..Len(s) |-> h[n]]
    <3>1. PICK f : h = [n \in 0..Len(s) |-> f[n]]
      BY <1>3 DEF CoachHeights
    <3>2. QED
      BY <3>1
  <2>4. QED
    BY <2>2, <2>3
<1>6. QED
  BY <1>2, <1>4, <1>5

\* One more score moves the level as the average of the last three says.
LEMMA CoachLevelStep ==
    ASSUME NEW s \in Seq(Coach!Score), NEW x \in Coach!Score
    PROVE  Coach!LevelAfter(Append(s, x)) = Coach!Adjusted(Coach!LevelAfter(s), Append(s, x))
<1>0. PICK t, k : t = Append(s, x) /\ k = Len(s)
  OBVIOUS
<1>1. /\ t \in Seq(Coach!Score) /\ Len(t) = k + 1 /\ k \in Nat /\ \A n \in 1..k : t[n] = s[n]
      /\ \A n \in 1..k + 1 : t[n] \in Coach!Score
  BY <1>0
<1> SUFFICES Coach!LevelAfter(t) = Coach!Adjusted(Coach!LevelAfter(s), t)
  BY <1>0
<1>2. PICK g \in [0..k -> 1..3] :
        CoachHeights(s, k, g) /\ Coach!LevelAfter(s) = <<"easy", "medium", "hard">>[g[k]]
  BY <1>0, CoachLevelIs
<1>3. PICK h \in [0..k + 1 -> 1..3] :
        CoachHeights(t, k + 1, h) /\ Coach!LevelAfter(t) = <<"easy", "medium", "hard">>[h[k + 1]]
  BY <1>1, CoachLevelIs
<1>4. h[k] = g[k]
  <2>0. PICK m \in Nat : m = k + 1 /\ k <= m
    BY <1>1
  <2>1. /\ CoachHeights(t, m, h) /\ CoachHeights(s, k, g) /\ k \in Nat /\ m \in Nat /\ k <= m
        /\ \A n \in 1..k : t[n] = s[n]
    BY <1>1, <1>2, <1>3, <2>0
  <2>2. \A n \in 0..k : h[n] = g[n]
    <3>1. CoachAgree(s, t, k)
      BY <2>1 DEF CoachAgree
    <3>2. CoachHeights(t, m, h) /\ CoachHeights(s, k, g)
      BY <2>1
    <3>3. k \in Nat /\ m \in Nat /\ k <= m
      BY <2>1
    <3>4. QED
      BY <3>1, <3>2, <3>3, CoachHeightsAgree
  <2>3. QED
    BY <1>1, <2>2
<1>5. h[k + 1] = IF k + 1 < 3 THEN 2
                 ELSE IF CoachThree(t, k + 1) > 3 * 4 /\ h[k] < 3 THEN h[k] + 1
                 ELSE IF 2 * CoachThree(t, k + 1) < 3 * 5 /\ h[k] > 1 THEN h[k] - 1
                 ELSE h[k]
  <2>1. k + 1 \in 0..k + 1 /\ (k + 1) - 1 = k
    BY <1>1
  <2>2. h[k + 1] = IF k + 1 < 3 THEN 2
                   ELSE IF CoachThree(t, k + 1) > 3 * 4 /\ h[(k + 1) - 1] < 3 THEN h[(k + 1) - 1] + 1
                   ELSE IF 2 * CoachThree(t, k + 1) < 3 * 5 /\ h[(k + 1) - 1] > 1 THEN h[(k + 1) - 1] - 1
                   ELSE h[(k + 1) - 1]
    BY <1>3, <2>1 DEF CoachHeights
  <2>3. QED
    BY <2>1, <2>2
<1>6. k + 1 < 3 => h[k] = 2
  <2>1. k \in 0..k + 1
    BY <1>1
  <2>2. QED
    BY <1>1, <1>3, <2>1 DEF CoachHeights
<1>7. CASE k + 1 < 3
  BY <1>1, <1>2, <1>3, <1>4, <1>5, <1>6, <1>7 DEF Coach!Adjusted
<1>8. CASE k + 1 >= 3
  <2>1. PICK recent \in Nat : recent = t[k + 1].mark + t[k].mark + t[k - 1].mark
    <3>0. k + 1 \in 1..k + 1 /\ k \in 1..k + 1 /\ k - 1 \in 1..k + 1
      BY <1>1, <1>8
    <3>1. t[k + 1] \in Coach!Score /\ t[k] \in Coach!Score /\ t[k - 1] \in Coach!Score
      BY <1>1, <3>0
    <3>2. t[k + 1].mark \in Nat /\ t[k].mark \in Nat /\ t[k - 1].mark \in Nat
      BY <3>1, MarksAssumption DEF Coach!Score
    <3>3. PICK a \in Nat, b \in Nat, e \in Nat : a = t[k + 1].mark /\ b = t[k].mark /\ e = t[k - 1].mark
      BY <3>2
    <3>4. PICK f \in Nat : f = a + b + e
      OBVIOUS
    <3>5. f = t[k + 1].mark + t[k].mark + t[k - 1].mark
      BY <3>3, <3>4
    <3>6. QED
      BY <3>5
  <2>2. CoachThree(t, k + 1) = recent
    <3>0. k + 1 \in 1..k + 1 /\ k \in 1..k + 1 /\ k - 1 \in 1..k + 1
      BY <1>1, <1>8
    <3>1. t[k + 1] \in Coach!Score /\ t[k] \in Coach!Score /\ t[k - 1] \in Coach!Score
      BY <1>1, <3>0
    <3>2. t[k + 1].mark \in Nat /\ t[k].mark \in Nat /\ t[k - 1].mark \in Nat
      BY <3>1, MarksAssumption DEF Coach!Score
    <3>3. (k + 1) - 2 = k - 1 /\ (k + 1) - 1 = k
      BY <1>1
    <3>4. QED
      BY <2>1, <3>2, <3>3 DEF CoachThree
  <2>3. Coach!Adjusted(Coach!LevelAfter(s), t) = IF recent > 12 THEN Coach!Harder[Coach!LevelAfter(s)]
                                                 ELSE IF 2 * recent < 15 THEN Coach!Easier[Coach!LevelAfter(s)]
                                                 ELSE Coach!LevelAfter(s)
    <3>1. (k + 1) - 2 = k - 1 /\ (k + 1) - 1 = k /\ ~(Len(t) < 3)
      BY <1>1, <1>8
    <3>2. QED
      BY <1>1, <2>1, <3>1 DEF Coach!Adjusted
  <2>4. PICK l \in 1..3 : l = g[k] /\ l = h[k]
    BY <1>1, <1>4
  <2>5. h[k + 1] = IF recent > 12 /\ l < 3 THEN l + 1
                   ELSE IF 2 * recent < 15 /\ l > 1 THEN l - 1
                   ELSE l
    BY <1>1, <1>5, <1>8, <2>2, <2>4
  <2>6. Coach!LevelAfter(s) = <<"easy", "medium", "hard">>[l]
    BY <1>2, <2>4
  <2>7. Coach!LevelAfter(t) = <<"easy", "medium", "hard">>[h[k + 1]]
    BY <1>3
  <2>8. CASE recent > 12
    BY <2>3, <2>5, <2>6, <2>7, <2>8 DEF Coach!Harder
  <2>9. CASE 2 * recent < 15
    BY <2>3, <2>5, <2>6, <2>7, <2>9 DEF Coach!Easier
  <2>10. CASE ~(recent > 12) /\ ~(2 * recent < 15)
    BY <2>3, <2>5, <2>6, <2>7, <2>10
  <2>11. QED
    BY <2>8, <2>9, <2>10
<1>9. QED
  BY <1>1, <1>7, <1>8

CoachAsked(s) == s.scores[Len(s.scores)].question

\* The place a state has come to is that of the next question.
CoachDue(s) ==
    IF Len(s.scores) = 0 THEN s.round = 1 /\ s.index = 0
    ELSE Coach!InOrder(CoachAsked(s), <<s.round, s.index>>)

CoachOver == {"save_performance", "END"}

\* The scores of a state are in order, and the node it is at says how its place
\* and its last score lie to one another.
CoachStateOK(s) ==
    /\ Len(s.scores) > 0 => s.scores[1].question = <<1, 0>>
    /\ \A i \in 2..Len(s.scores) : Coach!InOrder(s.scores[i - 1].question, s.scores[i].question)
    /\ s.level = Coach!LevelAfter(s.scores)
    /\ ~s.campus => s.round = 1
    /\ s.index = 0 \/ s.index < s.total
    /\ s.next = "predict_questions" => s.index = 0
    /\ s.next \in {"predict_questions", "present_question", "evaluate_answer"} => CoachDue(s)
    /\ s.next = "evaluate_answer" => s.asked = <<s.round, s.index>>
    /\ s.next \in {"advance_index", "advance_round", "debrief"} \cup CoachOver =>
         Len(s.scores) > 0 /\ CoachAsked(s) = <<s.round, s.index>>
    /\ s.next = "advance_index" => s.index + 1 < s.total
    /\ s.next = "advance_round" => s.campus /\ s.round < Rounds
    /\ s.next \in {"debrief"} \cup CoachOver =>
         /\ s.round = IF s.campus THEN Rounds ELSE 1
         /\ s.index = IF s.total = 0 THEN 0 ELSE s.total - 1
    /\ s.next \in CoachOver => s.summary # "none"

\* A run alone on its thread works on a copy of the checkpoint.
CoachHandlerOK(c) ==
    LET h == coachHandler[c]
    IN  /\ h.pc # "idle" => h.thread \in Threads
        /\ h.pc = "begin" => h.thread \notin known /\ checkpoint[h.thread] = Coach!NoState
        /\ h.pc \in {"run", "inserted"} =>
             /\ h.state.next # "none" /\ CoachStateOK(h.state)
             /\ checkpoint[h.thread].next # "none"
             /\ h.thread \notin overlapped => h.state = checkpoint[h.thread]
        /\ h.pc = "inserted" => h.state.next = "save_performance"

CoachPairOK(c, d) ==
    c # d /\ coachHandler[c].thread = coachHandler[d].thread =>
      /\ coachHandler[c].pc # "begin"
      /\ coachHandler[c].pc \in {"run", "inserted"} /\ coachHandler[d].pc \in {"run", "inserted"} =>
           coachHandler[c].thread \in overlapped

CoachThreadOK(t) ==
    /\ checkpoint[t].next = "none" => checkpoint[t] = Coach!NoState
    /\ CoachStateOK(checkpoint[t])
    /\ t \in known => checkpoint[t].next # "none"
    /\ t \in overlapped => t \in known

CoachInv ==
    /\ Coach!TypeOK
    /\ \A c \in Clients : CoachHandlerOK(c)
    /\ \A c, d \in Clients : CoachPairOK(c, d)
    /\ \A t \in Threads : CoachThreadOK(t)
    /\ Coach!RecordTellsSession

\* The default records have their types.
LEMMA CoachDefaults ==
    /\ Coach!NoState \in Coach!State /\ Coach!NoState.next = "none" /\ CoachStateOK(Coach!NoState)
    /\ Coach!NoHandler \in Coach!Handler /\ Coach!NoHandler.pc = "idle" /\ Coach!NoHandler.thread = NoThread
<1>1. <<>> \in Seq(Coach!Score) /\ Len(<<>>) = 0
  OBVIOUS
<1>2. /\ Coach!NoState \in Coach!State /\ Coach!NoState.next = "none" /\ Coach!NoState.scores = <<>> /\ ~Coach!NoState.campus
      /\ Coach!NoState.round = 1 /\ Coach!NoState.index = 0 /\ Coach!NoState.level = "medium"
  BY <1>1, RoundsAssumption, CoachQuestionsAssumption DEF Coach!NoState, Coach!State, Coach!Levels
<1>3. Coach!LevelAfter(<<>>) = "medium"
  <2>1. PICK h \in [0..0 -> 1..3] :
          CoachHeights(<<>>, 0, h) /\ Coach!LevelAfter(<<>>) = <<"easy", "medium", "hard">>[h[0]]
    BY <1>1, CoachLevelIs
  <2>2. h[0] = 2
    BY <2>1 DEF CoachHeights
  <2>3. QED
    BY <2>1, <2>2
<1>4. CoachStateOK(Coach!NoState)
  BY <1>1, <1>2, <1>3 DEF CoachStateOK, CoachOver
<1>5. Coach!NoHandler \in Coach!Handler /\ Coach!NoHandler.pc = "idle" /\ Coach!NoHandler.thread = NoThread
  BY <1>2 DEF Coach!NoHandler, Coach!Handler
<1>6. QED
  BY <1>2, <1>4, <1>5

\* No checkpoint, no record, and nobody at work.
LEMMA CoachInit == Coach!Init => CoachInv
<1> SUFFICES ASSUME Coach!Init PROVE CoachInv
  OBVIOUS
<1>1. Coach!TypeOK
  BY CoachDefaults DEF Coach!Init, Coach!TypeOK
<1>2. \A c \in Clients : coachHandler[c].pc = "idle"
  BY CoachDefaults DEF Coach!Init
<1>3. \A c \in Clients : CoachHandlerOK(c)
  BY <1>2 DEF CoachHandlerOK
<1>4. \A c, d \in Clients : CoachPairOK(c, d)
  BY <1>2 DEF CoachPairOK
<1>5. \A t \in Threads : CoachThreadOK(t)
  BY CoachDefaults DEF Coach!Init, CoachThreadOK
<1>6. Coach!RecordTellsSession
  BY DEF Coach!Init, Coach!RecordTellsSession
<1>7. QED
  BY <1>1, <1>3, <1>4, <1>5, <1>6 DEF CoachInv

\* A node that keeps a state right, and a finished session as it is, keeps the
\* whole right.
LEMMA CoachSaveStep ==
    ASSUME CoachInv, NEW c \in Clients, coachHandler[c].pc \in {"begin", "run", "inserted"},
           NEW s \in Coach!State, s.next # "none", CoachStateOK(s), Coach!Save(c, s),
           UNCHANGED <<known, record, overlapped>>,
           coachHandler[c].pc # "begin" /\ coachHandler[c].state.next \in CoachOver =>
             /\ s.next \in CoachOver /\ s.scores = coachHandler[c].state.scores
             /\ s.summary = coachHandler[c].state.summary
    PROVE  CoachInv'
<1> USE DEF CoachInv
<1>1. PICK t \in Threads : t = coachHandler[c].thread
  BY DEF CoachHandlerOK
<1>2. PICK h \in Coach!Handler : h = [coachHandler[c] EXCEPT !.pc = "run", !.state = s, !.answered = FALSE]
  BY DEF Coach!TypeOK, Coach!Handler
<1>3. h.pc = "run" /\ h.thread = t /\ h.state = s
  BY <1>1, <1>2 DEF Coach!TypeOK, Coach!Handler
<1>4. coachHandler' = [coachHandler EXCEPT ![c] = h] /\ checkpoint' = [checkpoint EXCEPT ![t] = s]
  BY <1>1, <1>2 DEF Coach!Save, Coach!TypeOK, Coach!Handler
<1>5. Coach!TypeOK'
  BY <1>4 DEF Coach!TypeOK
<1>6. /\ coachHandler'[c] = h /\ \A d \in Clients : d # c => coachHandler'[d] = coachHandler[d]
      /\ checkpoint'[t] = s /\ \A u \in Threads : u # t => checkpoint'[u] = checkpoint[u]
  BY <1>4 DEF Coach!TypeOK
<1>7. CoachHandlerOK(c)'
  BY <1>3, <1>6 DEF CoachHandlerOK
<1>8. ASSUME NEW d \in Clients, d # c PROVE CoachHandlerOK(d)'
  <2>1. PICK g : g = coachHandler[d]
    OBVIOUS
  <2>2. g.pc = "begin" => g.thread # t
    BY <1>1, <1>8, <2>1 DEF CoachPairOK
  <2>3. g.pc \in {"run", "inserted"} /\ g.thread = t => t \in overlapped
    BY <1>1, <1>8, <2>1 DEF CoachPairOK
  <2>4. g.pc # "idle" => g.thread \in Threads
    BY <2>1 DEF CoachHandlerOK
  <2>5. g.pc = "begin" => g.thread \notin known' /\ checkpoint'[g.thread] = Coach!NoState
    BY <1>6, <2>1, <2>2, <2>4 DEF CoachHandlerOK
  <2>6. ASSUME g.pc \in {"run", "inserted"}
        PROVE  /\ g.state.next # "none" /\ CoachStateOK(g.state)
               /\ checkpoint'[g.thread].next # "none"
               /\ g.thread \notin overlapped' => g.state = checkpoint'[g.thread]
    BY <1>6, <2>1, <2>3, <2>4, <2>6 DEF CoachHandlerOK
  <2>7. coachHandler'[d] = g /\ (g.pc = "inserted" => g.state.next = "save_performance")
    BY <1>6, <1>8, <2>1 DEF CoachHandlerOK
  <2>8. QED
    BY <2>4, <2>5, <2>6, <2>7 DEF CoachHandlerOK
<1>9. ASSUME NEW a \in Clients, NEW d \in Clients PROVE CoachPairOK(a, d)'
  <2>1. CASE a # c /\ d # c
    BY <1>6, <2>1 DEF CoachPairOK
  <2>2. CASE a = c /\ d # c
    BY <1>1, <1>3, <1>6, <2>2 DEF CoachPairOK
  <2>3. CASE a # c /\ d = c
    BY <1>1, <1>3, <1>6, <2>3 DEF CoachPairOK
  <2>4. QED
    BY <2>1, <2>2, <2>3 DEF CoachPairOK
<1>10. ASSUME NEW u \in Threads PROVE CoachThreadOK(u)'
  BY <1>6 DEF CoachThreadOK
<1>11. Coach!RecordTellsSession'
  <2>1. ASSUME NEW r \in record, r.id = "session", r.thread \notin overlapped
        PROVE  /\ checkpoint'[r.thread].next \in CoachOver
               /\ r.scores = checkpoint'[r.thread].scores
               /\ r.summary = checkpoint'[r.thread].summary
    <3>1. /\ r.thread \in Threads /\ checkpoint[r.thread].next \in CoachOver
          /\ r.scores = checkpoint[r.thread].scores /\ r.summary = checkpoint[r.thread].summary
      BY <2>1 DEF Coach!RecordTellsSession, Coach!TypeOK, Coach!Record, CoachOver
    <3>2. CASE r.thread # t
      BY <1>6, <3>1, <3>2
    <3>3. CASE r.thread = t
      <4>1. coachHandler[c].pc # "begin"
        BY <1>1, <3>1, <3>3, CoachDefaults DEF CoachHandlerOK, CoachOver
      <4>2. coachHandler[c].state = checkpoint[t]
        BY <1>1, <2>1, <3>3, <4>1 DEF CoachHandlerOK
      <4>3. QED
        BY <1>6, <3>1, <3>3, <4>1, <4>2
    <3>4. QED
      BY <3>2, <3>3
  <2>2. ASSUME NEW r \in record, NEW q \in record, r.id = "session", q.id = "session", q.thread = r.thread
        PROVE  q = r
    BY <2>2 DEF Coach!RecordTellsSession
  <2>3. QED
    BY <2>1, <2>2 DEF Coach!RecordTellsSession, CoachOver
<1>12. QED
  BY <1>5, <1>7, <1>8, <1>9, <1>10, <1>11

\* A request that only ends, and may tell its client the thread.
LEMMA CoachQuitStep ==
    ASSUME CoachInv, NEW c \in Clients, coachHandler' = [coachHandler EXCEPT ![c] = Coach!NoHandler],
           UNCHANGED <<checkpoint, overlapped>>,
           \/ known' = known
           \/ known' = known \cup {coachHandler[c].thread} /\ coachHandler[c].pc = "run",
           record' \subseteq Coach!Record,
           \A r \in Coach!Record : r.id = "session" => (r \in record' <=> r \in record)
    PROVE  CoachInv'
<1> USE DEF CoachInv
<1>1. coachHandler'[c] = Coach!NoHandler /\ \A d \in Clients : d # c => coachHandler'[d] = coachHandler[d]
  BY DEF Coach!TypeOK
<1>2. known \subseteq known' /\ known' \subseteq Threads
  BY DEF Coach!TypeOK, CoachHandlerOK
<1>3. Coach!TypeOK'
  BY <1>2, CoachDefaults DEF Coach!TypeOK
<1>4. CoachHandlerOK(c)'
  BY <1>1, CoachDefaults DEF CoachHandlerOK
<1>5. ASSUME NEW d \in Clients, d # c PROVE CoachHandlerOK(d)'
  <2>1. coachHandler[d].pc = "begin" => coachHandler[d].thread \notin known'
    BY <1>5 DEF CoachHandlerOK, CoachPairOK
  <2>2. QED
    BY <1>1, <1>5, <2>1 DEF CoachHandlerOK
<1>6. ASSUME NEW a \in Clients, NEW d \in Clients PROVE CoachPairOK(a, d)'
  <2>1. ASSUME NEW e \in Clients, coachHandler[e].pc = "begin"
        PROVE  coachHandler[e].thread # NoThread
    BY <2>1, ThreadsAssumption DEF CoachHandlerOK
  <2>2. CASE a # c /\ d # c
    BY <1>1, <2>2 DEF CoachPairOK
  <2>3. CASE a = c \/ d = c
    BY <1>1, <2>1, <2>3, CoachDefaults DEF CoachPairOK
  <2>4. QED
    BY <2>2, <2>3
<1>7. ASSUME NEW u \in Threads PROVE CoachThreadOK(u)'
  <2>1. u \in known' => checkpoint[u].next # "none"
    BY DEF CoachHandlerOK, CoachThreadOK
  <2>2. QED
    BY <1>2, <2>1 DEF CoachThreadOK
<1>8. Coach!RecordTellsSession'
  <2>1. \A r \in record' : r.id = "session" => r \in record
    OBVIOUS
  <2>2. QED
    BY <2>1 DEF Coach!RecordTellsSession
<1>9. QED
  BY <1>3, <1>4, <1>5, <1>6, <1>7, <1>8

\* A request that is accepted.
LEMMA CoachAcceptStep ==
    ASSUME CoachInv, NEW c \in Clients, NEW h \in Coach!Handler, coachHandler' = [coachHandler EXCEPT ![c] = h],
           UNCHANGED <<checkpoint, known, record>>,
           overlapped \subseteq overlapped', overlapped' \subseteq overlapped \cup known,
           CoachHandlerOK(c)', \A d \in Clients : CoachPairOK(c, d)' /\ CoachPairOK(d, c)'
    PROVE  CoachInv'
<1> USE DEF CoachInv
<1>1. coachHandler'[c] = h /\ \A d \in Clients : d # c => coachHandler'[d] = coachHandler[d]
  BY DEF Coach!TypeOK
<1>2. Coach!TypeOK'
  BY DEF Coach!TypeOK
<1>3. ASSUME NEW d \in Clients, d # c PROVE CoachHandlerOK(d)'
  BY <1>1, <1>3 DEF CoachHandlerOK
<1>4. ASSUME NEW a \in Clients, NEW d \in Clients PROVE CoachPairOK(a, d)'
  <2>1. CASE a # c /\ d # c
    BY <1>1, <2>1 DEF CoachPairOK
  <2>2. QED
    BY <2>1
<1>5. ASSUME NEW u \in Threads PROVE CoachThreadOK(u)'
  BY DEF CoachThreadOK
<1>6. Coach!RecordTellsSession'
  BY DEF Coach!RecordTellsSession
<1>7. QED
  BY <1>2, <1>3, <1>4, <1>5, <1>6

\* start_coaching picks a new thread.
LEMMA CoachStartPreserves == ASSUME CoachInv, NEW c \in Clients, Coach!Start(c) PROVE CoachInv'
<1>1. PICK t \in Threads :
        /\ checkpoint[t] = Coach!NoState
        /\ \A d \in Clients : coachHandler[d].thread # t
        /\ coachHandler' = [coachHandler EXCEPT ![c] = [Coach!NoHandler EXCEPT !.pc = "begin", !.thread = t]]
  BY DEF Coach!Start
<1>2. PICK h \in Coach!Handler : h = [Coach!NoHandler EXCEPT !.pc = "begin", !.thread = t]
  BY CoachDefaults DEF Coach!Handler
<1>3. h.pc = "begin" /\ h.thread = t
  BY <1>2, CoachDefaults DEF Coach!Handler
<1>4. /\ coachHandler' = [coachHandler EXCEPT ![c] = h]
      /\ UNCHANGED <<checkpoint, known, record, overlapped>>
  BY <1>1, <1>2 DEF Coach!Start
<1>5. coachHandler'[c] = h /\ \A d \in Clients : d # c => coachHandler'[d] = coachHandler[d]
  BY <1>4 DEF CoachInv, Coach!TypeOK
<1>6. t \notin known
  BY <1>1, CoachDefaults DEF CoachInv, CoachThreadOK
<1>7. CoachHandlerOK(c)'
  BY <1>1, <1>3, <1>4, <1>5, <1>6 DEF CoachHandlerOK
<1>8. \A d \in Clients : CoachPairOK(c, d)' /\ CoachPairOK(d, c)'
  BY <1>1, <1>3, <1>5 DEF CoachPairOK
<1>9. QED
  BY <1>4, <1>7, <1>8, CoachAcceptStep

\* answer_question resumes the graph from the checkpoint it reads.
LEMMA CoachAnswerPreserves ==
    ASSUME CoachInv, NEW c \in Clients, NEW t \in Threads, Coach!Answer(c, t) PROVE CoachInv'
<1>1. PICK h \in Coach!Handler :
        h = [pc |-> "run", thread |-> t, state |-> checkpoint[t],
             answered |-> (checkpoint[t].next = "present_question")]
  BY DEF CoachInv, Coach!TypeOK, Coach!Handler
<1>2. h.pc = "run" /\ h.thread = t /\ h.state = checkpoint[t]
  BY <1>1
<1>3. /\ coachHandler' = [coachHandler EXCEPT ![c] = h] /\ t \in known
      /\ overlapped' = IF \E d \in Clients : Coach!Running(d, t) THEN overlapped \cup {t} ELSE overlapped
      /\ UNCHANGED <<checkpoint, known, record>>
  BY <1>1 DEF Coach!Answer
<1>4. coachHandler'[c] = h /\ \A d \in Clients : d # c => coachHandler'[d] = coachHandler[d]
  BY <1>3 DEF CoachInv, Coach!TypeOK
<1>5. CoachHandlerOK(c)'
  <2>1. checkpoint[t].next # "none" /\ CoachStateOK(checkpoint[t])
    BY <1>3 DEF CoachInv, CoachThreadOK
  <2>2. QED
    BY <1>2, <1>3, <1>4, <2>1 DEF CoachHandlerOK
<1>6. ASSUME NEW d \in Clients PROVE CoachPairOK(c, d)' /\ CoachPairOK(d, c)'
  <2>1. CASE d = c
    BY <2>1 DEF CoachPairOK
  <2>2. CASE d # c /\ coachHandler[d].thread = t
    <3>1. coachHandler[d].pc # "begin"
      BY <1>3, <2>2 DEF CoachInv, CoachHandlerOK
    <3>2. coachHandler[d].pc \in {"run", "inserted"} => t \in overlapped'
      BY <1>3, <2>2 DEF Coach!Running
    <3>3. QED
      BY <1>2, <1>4, <2>2, <3>1, <3>2 DEF CoachPairOK
  <2>3. CASE d # c /\ coachHandler[d].thread # t
    BY <1>2, <1>4, <2>3 DEF CoachPairOK
  <2>4. QED
    BY <2>1, <2>2, <2>3
<1>7. overlapped \subseteq overlapped' /\ overlapped' \subseteq overlapped \cup known
  BY <1>3
<1>8. QED
  BY <1>3, <1>5, <1>6, <1>7, CoachAcceptStep

\* save_session reads the state and looks for a record of the session.
LEMMA CoachSaveSessionPreserves ==
    ASSUME CoachInv, NEW c \in Clients, NEW t \in Threads, Coach!SaveSession(c, t) PROVE CoachInv'
<1>1. PICK s \in Coach!State : s = [Coach!NoState EXCEPT !.summary = checkpoint[t].summary]
  BY CoachDefaults DEF CoachInv, Coach!TypeOK, Coach!State
<1>2. PICK h \in Coach!Handler : h = [Coach!NoHandler EXCEPT !.pc = "save", !.thread = t, !.state = s]
  BY CoachDefaults DEF Coach!Handler
<1>3. h.pc = "save" /\ h.thread = t
  BY <1>2, CoachDefaults DEF Coach!Handler
<1>4. /\ coachHandler' = [coachHandler EXCEPT ![c] = h] /\ t \in known
      /\ UNCHANGED <<checkpoint, known, record, overlapped>>
  <2>1. h = [Coach!NoHandler EXCEPT !.pc = "save", !.thread = t, !.state.summary = checkpoint[t].summary]
    BY <1>1, <1>2 DEF Coach!NoHandler
  <2>2. QED
    BY <2>1 DEF Coach!SaveSession
<1>5. coachHandler'[c] = h /\ \A d \in Clients : d # c => coachHandler'[d] = coachHandler[d]
  BY <1>4 DEF CoachInv, Coach!TypeOK
<1>6. CoachHandlerOK(c)'
  BY <1>3, <1>5 DEF CoachHandlerOK
<1>7. ASSUME NEW d \in Clients PROVE CoachPairOK(c, d)' /\ CoachPairOK(d, c)'
  <2>1. CASE d = c
    BY <2>1 DEF CoachPairOK
  <2>2. CASE d # c
    <3>1. coachHandler[d].thread = t => coachHandler[d].pc # "begin"
      BY <1>4 DEF CoachInv, CoachHandlerOK
    <3>2. QED
      BY <1>3, <1>5, <2>2, <3>1 DEF CoachPairOK
  <2>3. QED
    BY <2>1, <2>2
<1>8. QED
  BY <1>4, <1>6, <1>7, CoachAcceptStep

\* The first checkpoint: predict_questions is next.
LEMMA CoachBeginPreserves == ASSUME CoachInv, NEW c \in Clients, Coach!Begin(c) PROVE CoachInv'
<1>1. PICK campus \in BOOLEAN :
        Coach!Save(c, [Coach!NoState EXCEPT !.next = "predict_questions", !.campus = campus])
  BY DEF Coach!Begin
<1>2. PICK s \in Coach!State : s = [Coach!NoState EXCEPT !.next = "predict_questions", !.campus = campus]
  BY CoachDefaults DEF Coach!State, Coach!Nodes
<1>3. /\ s.next = "predict_questions" /\ s.scores = <<>> /\ s.round = 1 /\ s.index = 0
      /\ s.level = Coach!NoState.level
  BY <1>2 DEF Coach!NoState
<1>4. CoachStateOK(s)
  <2>1. Len(<<>>) = 0 /\ Coach!NoState.scores = <<>>
    BY DEF Coach!NoState
  <2>2. s.level = Coach!LevelAfter(s.scores)
    BY <1>3, <2>1, CoachDefaults DEF CoachStateOK
  <2>3. QED
    BY <1>3, <2>1, <2>2 DEF CoachStateOK, CoachDue, CoachOver
<1>5. coachHandler[c].pc = "begin" /\ UNCHANGED <<known, record, overlapped>>
  BY DEF Coach!Begin
<1>6. QED
  BY <1>1, <1>2, <1>3, <1>4, <1>5, CoachSaveStep

\* What a state is made of.
LEMMA CoachStateParts ==
    ASSUME NEW s \in Coach!State
    PROVE  /\ s.campus \in BOOLEAN /\ s.round \in 1..Rounds /\ s.level \in Coach!Levels
           /\ s.index \in 0..CoachQuestions /\ s.total \in 0..CoachQuestions
           /\ s.asked \in Coach!Questions \cup {<<>>} /\ s.scores \in Seq(Coach!Score)
           /\ Len(s.scores) \in Nat /\ s.summary \in {"none", "", "text"}
<1>1. /\ s.campus \in BOOLEAN /\ s.round \in 1..Rounds /\ s.level \in Coach!Levels
      /\ s.index \in 0..CoachQuestions /\ s.total \in 0..CoachQuestions
      /\ s.asked \in Coach!Questions \cup {<<>>} /\ s.scores \in Seq(Coach!Score)
      /\ s.summary \in {"none", "", "text"}
  BY DEF Coach!State
<1>2. Len(s.scores) \in Nat
  BY <1>1, LenProperties
<1>3. QED
  BY <1>1, <1>2

\* The state of a run at a node.
LEMMA CoachAtNodeState ==
    ASSUME CoachInv, NEW c \in Clients, coachHandler[c].pc \in {"run", "inserted"}
    PROVE  coachHandler[c].state \in Coach!State /\ CoachStateOK(coachHandler[c].state)
BY DEF CoachInv, Coach!TypeOK, Coach!Handler, CoachHandlerOK

\* predict_questions: the number of the round's questions, the first of them next.
LEMMA CoachPredictQuestionsPreserves ==
    ASSUME CoachInv, NEW c \in Clients, Coach!PredictQuestions(c)
    PROVE  CoachInv'
<1>1. PICK s \in Coach!State : s = coachHandler[c].state /\ CoachStateOK(s)
  BY CoachAtNodeState DEF Coach!PredictQuestions, Coach!AtNode
<1>2. PICK n \in 0..CoachQuestions - Len(s.scores) - Coach!RoundsAfter(s) :
        Coach!Save(c, [s EXCEPT !.next = "present_question", !.index = 0, !.total = n])
  BY <1>1 DEF Coach!PredictQuestions
<1>3. n \in 0..CoachQuestions
  <2>1. Coach!RoundsAfter(s) \in Nat /\ Len(s.scores) \in Nat
    <3>1. s.round \in 1..Rounds /\ Len(s.scores) \in Nat
      BY CoachStateParts
    <3>2. QED
      BY <3>1, RoundsAssumption DEF Coach!RoundsAfter
  <2>2. QED
    BY <1>2, <2>1, CoachQuestionsAssumption
<1>4. PICK r \in Coach!State : r = [s EXCEPT !.next = "present_question", !.index = 0, !.total = n]
  <2>1. 0 \in 0..CoachQuestions /\ "present_question" \in Coach!Nodes \cup {"none"}
    BY CoachQuestionsAssumption DEF Coach!Nodes
  <2>2. [s EXCEPT !.next = "present_question", !.index = 0, !.total = n] \in Coach!State
    BY <1>3, <2>1 DEF Coach!State
  <2>3. QED
    BY <2>2
<1>5. /\ r.next = "present_question" /\ r.index = 0 /\ r.total = n /\ r.scores = s.scores
      /\ r.round = s.round /\ r.level = s.level /\ r.campus = s.campus
  BY <1>4 DEF Coach!State
<1>6. s.next = "predict_questions" /\ coachHandler[c].pc = "run" /\ UNCHANGED <<known, record, overlapped>>
  BY <1>1 DEF Coach!PredictQuestions, Coach!AtNode
<1>7. CoachStateOK(r)
  <2>1. CoachDue(r)
    BY <1>1, <1>5, <1>6 DEF CoachStateOK, CoachDue, CoachAsked
  <2>2. QED
    BY <1>1, <1>5, <1>6, <2>1 DEF CoachStateOK, CoachOver
<1>8. QED
  BY <1>1, <1>2, <1>4, <1>5, <1>6, <1>7, CoachSaveStep DEF CoachOver

\* present_question ends the run, or takes the answer for the question at the index.
LEMMA CoachPresentQuestionPreserves ==
    ASSUME CoachInv, NEW c \in Clients, Coach!PresentQuestion(c)
    PROVE  CoachInv'
<1>1. PICK s \in Coach!State : s = coachHandler[c].state /\ CoachStateOK(s)
  BY CoachAtNodeState DEF Coach!PresentQuestion, Coach!AtNode
<1>2. s.next = "present_question" /\ coachHandler[c].pc = "run" /\ UNCHANGED <<record, overlapped>>
  BY <1>1 DEF Coach!PresentQuestion, Coach!AtNode
<1>3. CASE coachHandler[c].answered
  <2>1. /\ Coach!Save(c, [s EXCEPT !.next = "evaluate_answer", !.asked = <<s.round, s.index>>])
        /\ UNCHANGED known
    BY <1>1, <1>3 DEF Coach!PresentQuestion
  <2>2. <<s.round, s.index>> \in Coach!Questions
    BY DEF Coach!Questions, Coach!State
  <2>3. PICK r \in Coach!State : r = [s EXCEPT !.next = "evaluate_answer", !.asked = <<s.round, s.index>>]
    BY <2>2 DEF Coach!State, Coach!Nodes
  <2>4. /\ r.next = "evaluate_answer" /\ r.asked = <<s.round, s.index>>
        /\ r.index = s.index /\ r.total = s.total /\ r.scores = s.scores
        /\ r.round = s.round /\ r.level = s.level /\ r.campus = s.campus
    BY <2>3 DEF Coach!State
  <2>5. CoachStateOK(r)
    <3>1. CoachDue(r)
      BY <1>1, <1>2, <2>4 DEF CoachStateOK, CoachDue, CoachAsked
    <3>2. QED
      BY <1>1, <1>2, <2>4, <3>1 DEF CoachStateOK, CoachOver
  <2>6. QED
    BY <1>1, <1>2, <2>1, <2>3, <2>4, <2>5, CoachSaveStep DEF CoachOver
<1>4. CASE ~coachHandler[c].answered
  BY <1>2, <1>4, CoachQuitStep DEF Coach!PresentQuestion, Coach!Finish, CoachInv, Coach!TypeOK
<1>5. QED
  BY <1>3, <1>4

\* evaluate_answer: one score more, for the question that was asked.
LEMMA CoachEvaluateAnswerPreserves ==
    ASSUME CoachInv, NEW c \in Clients, Coach!EvaluateAnswer(c)
    PROVE  CoachInv'
<1>1. PICK s \in Coach!State : s = coachHandler[c].state /\ CoachStateOK(s)
  BY CoachAtNodeState DEF Coach!EvaluateAnswer, Coach!AtNode
<1>2. s.next = "evaluate_answer" /\ coachHandler[c].pc = "run" /\ UNCHANGED <<known, record, overlapped>>
  BY <1>1 DEF Coach!EvaluateAnswer, Coach!AtNode
<1>3. PICK mark \in Marks : \E t :
        /\ t = Append(s.scores, [question |-> s.asked, mark |-> mark])
        /\ Coach!Save(c, [s EXCEPT !.next = Coach!RouteNext(s), !.asked = <<>>, !.scores = t,
                                   !.level = Coach!Adjusted(s.level, t)])
  BY <1>1 DEF Coach!EvaluateAnswer
<1>b. PICK scores :
        /\ scores = Append(s.scores, [question |-> s.asked, mark |-> mark])
        /\ Coach!Save(c, [s EXCEPT !.next = Coach!RouteNext(s), !.asked = <<>>, !.scores = scores,
                                   !.level = Coach!Adjusted(s.level, scores)])
  BY <1>3
<1>4. s.asked = <<s.round, s.index>> /\ s.asked \in Coach!Questions
  <2>1. s.round \in 1..Rounds /\ s.index \in 0..CoachQuestions
    BY CoachStateParts
  <2>2. s.asked = <<s.round, s.index>>
    BY <1>1, <1>2 DEF CoachStateOK
  <2>3. QED
    BY <2>1, <2>2 DEF Coach!Questions
<1>5. PICK x \in Coach!Score : x = [question |-> s.asked, mark |-> mark]
  BY <1>4 DEF Coach!Score
<1>6. /\ scores \in Seq(Coach!Score) /\ Len(scores) = Len(s.scores) + 1 /\ Len(s.scores) \in Nat
      /\ \A i \in 1..Len(s.scores) : scores[i] = s.scores[i]
      /\ scores[Len(scores)].question = s.asked
  <2>1. s.scores \in Seq(Coach!Score) /\ scores = Append(s.scores, x) /\ x.question = s.asked
    BY <1>b, <1>5, CoachStateParts
  <2>2. QED
    BY <2>1
<1>7. Coach!Adjusted(s.level, scores) = Coach!LevelAfter(scores)
  <2>1. s.scores \in Seq(Coach!Score) /\ s.level = Coach!LevelAfter(s.scores)
    BY <1>1 DEF CoachStateOK, Coach!State
  <2>2. QED
    BY <1>b, <1>5, <2>1, CoachLevelStep
<1>8. Coach!LevelAfter(scores) \in Coach!Levels
  <2>1. PICK h \in [0..Len(scores) -> 1..3] :
          Coach!LevelAfter(scores) = <<"easy", "medium", "hard">>[h[Len(scores)]]
    BY <1>6, CoachLevelIs
  <2>2. h[Len(scores)] \in 1..3
    <3>1. Len(scores) \in 0..Len(scores)
      BY <1>6
    <3>2. QED
      BY <2>1, <3>1
  <2>3. QED
    BY <2>1, <2>2 DEF Coach!Levels
<1>9. PICK r : r = [s EXCEPT !.next = Coach!RouteNext(s), !.asked = <<>>, !.scores = scores,
                             !.level = Coach!Adjusted(s.level, scores)]
  OBVIOUS
<1>10. Coach!RouteNext(s) \in {"advance_index", "advance_round", "debrief"}
  BY DEF Coach!RouteNext
<1>11. r \in Coach!State
  <2>1. Coach!RouteNext(s) \in Coach!Nodes
    BY <1>10 DEF Coach!Nodes
  <2>2. Coach!Adjusted(s.level, scores) \in Coach!Levels
    BY <1>7, <1>8
  <2>3. QED
    BY <1>6, <1>9, <2>1, <2>2 DEF Coach!State
<1>12. /\ r.next = Coach!RouteNext(s) /\ r.scores = scores /\ r.level = Coach!LevelAfter(scores)
       /\ r.index = s.index /\ r.total = s.total /\ r.round = s.round /\ r.campus = s.campus
  BY <1>7, <1>9 DEF Coach!State
<1>13. CoachStateOK(r)
  <2>1. Len(scores) > 0 /\ scores[1].question = <<1, 0>>
    <3>1. CASE Len(s.scores) = 0
      BY <1>1, <1>2, <1>4, <1>6, <3>1 DEF CoachStateOK, CoachDue
    <3>2. CASE Len(s.scores) > 0
      <4>1. 1 \in 1..Len(s.scores)
        BY <1>6, <3>2
      <4>2. QED
        BY SMTT(20), <1>1, <1>6, <3>2, <4>1 DEF CoachStateOK
    <3>3. QED
      BY <1>6, <3>1, <3>2
  <2>2. ASSUME NEW i \in 2..Len(scores)
        PROVE  Coach!InOrder(scores[i - 1].question, scores[i].question)
    <3>1. CASE i <= Len(s.scores)
      <4>1. i \in 2..Len(s.scores) /\ i - 1 \in 1..Len(s.scores) /\ i \in 1..Len(s.scores)
        BY <1>6, <3>1
      <4>2. Coach!InOrder(s.scores[i - 1].question, s.scores[i].question)
        BY <1>1, <4>1 DEF CoachStateOK
      <4>3. QED
        BY <1>6, <4>1, <4>2
    <3>2. CASE i = Len(scores)
      <4>1. Len(s.scores) # 0 /\ i - 1 = Len(s.scores) /\ i - 1 \in 1..Len(s.scores)
        BY <1>6, <3>2
      <4>2. Coach!InOrder(CoachAsked(s), s.asked)
        BY <1>1, <1>2, <1>4, <4>1 DEF CoachStateOK, CoachDue
      <4>3. QED
        BY <1>6, <3>2, <4>1, <4>2 DEF CoachAsked
    <3>3. QED
      BY <1>6, <3>1, <3>2
  <2>3. CoachAsked(r) = <<r.round, r.index>>
    BY <1>4, <1>6, <1>12 DEF CoachAsked
  <2>4. /\ s.index \in Nat /\ s.total \in Nat /\ s.round \in 1..Rounds
        /\ s.index = 0 \/ s.index < s.total
        /\ ~s.campus => s.round = 1
        /\ s.campus \in BOOLEAN
    <3>1. /\ s.index \in 0..CoachQuestions /\ s.total \in 0..CoachQuestions
          /\ s.round \in 1..Rounds /\ s.campus \in BOOLEAN
      BY CoachStateParts
    <3>2. (s.index = 0 \/ s.index < s.total) /\ (~s.campus => s.round = 1)
      BY <1>1 DEF CoachStateOK
    <3>3. QED
      BY <3>1, <3>2, CoachQuestionsAssumption
  <2>5. r.next = "advance_index" => r.index + 1 < r.total
    BY <1>12 DEF Coach!RouteNext
  <2>6. r.next = "advance_round" => r.campus /\ r.round < Rounds
    BY <1>12 DEF Coach!RouteNext
  <2>7. r.next = "debrief" => /\ r.round = IF r.campus THEN Rounds ELSE 1
                              /\ r.index = IF r.total = 0 THEN 0 ELSE r.total - 1
    <3>1. CASE r.next = "debrief"
      <4>1. ~(s.index + 1 < s.total) /\ ~(s.campus /\ s.round < Rounds)
        BY <1>12, <3>1 DEF Coach!RouteNext
      <4>2. s.round = IF s.campus THEN Rounds ELSE 1
        BY <2>4, <4>1, RoundsAssumption
      <4>3. s.index = IF s.total = 0 THEN 0 ELSE s.total - 1
        BY <2>4, <4>1
      <4>4. QED
        BY <1>12, <4>2, <4>3
    <3>2. QED
      BY <3>1
  <2>8. QED
    BY <1>10, <1>12, <2>1, <2>2, <2>3, <2>4, <2>5, <2>6, <2>7 DEF CoachStateOK, CoachOver
<1>14. QED
  BY <1>1, <1>2, <1>b, <1>9, <1>10, <1>11, <1>12, <1>13, CoachSaveStep DEF CoachOver

\* advance_index: on to the next question of the round.
LEMMA CoachAdvanceIndexPreserves ==
    ASSUME CoachInv, NEW c \in Clients, Coach!AdvanceIndex(c)
    PROVE  CoachInv'
<1>1. PICK s \in Coach!State : s = coachHandler[c].state /\ CoachStateOK(s)
  BY CoachAtNodeState DEF Coach!AdvanceIndex, Coach!AtNode
<1>2. s.next = "advance_index" /\ coachHandler[c].pc = "run" /\ UNCHANGED <<known, record, overlapped>>
  BY <1>1 DEF Coach!AdvanceIndex, Coach!AtNode
<1>3. /\ s.index \in 0..CoachQuestions /\ s.total \in 0..CoachQuestions /\ s.round \in 1..Rounds
  BY CoachStateParts
<1>4. s.index + 1 < s.total /\ CoachAsked(s) = <<s.round, s.index>> /\ Len(s.scores) > 0
  BY <1>1, <1>2 DEF CoachStateOK
<1>5. PICK r : r = [s EXCEPT !.next = "present_question", !.index = s.index + 1]
  OBVIOUS
<1>6. r \in Coach!State
  <2>1. s.index + 1 \in 0..CoachQuestions /\ "present_question" \in Coach!Nodes
    BY <1>3, <1>4, CoachQuestionsAssumption DEF Coach!Nodes
  <2>2. QED
    BY <1>5, <2>1 DEF Coach!State
<1>7. /\ r.next = "present_question" /\ r.index = s.index + 1 /\ r.total = s.total
      /\ r.scores = s.scores /\ r.round = s.round /\ r.level = s.level /\ r.campus = s.campus
  BY <1>5 DEF Coach!State
<1>8. Coach!Save(c, r)
  BY <1>1, <1>5 DEF Coach!AdvanceIndex
<1>9. CoachStateOK(r)
  <2>1. Coach!InOrder(<<s.round, s.index>>, <<s.round, s.index + 1>>)
    BY DEF Coach!InOrder
  <2>2. CoachDue(r)
    BY <1>4, <1>7, <2>1 DEF CoachDue, CoachAsked
  <2>3. QED
    BY <1>1, <1>4, <1>7, <2>2 DEF CoachStateOK, CoachOver
<1>10. QED
  BY <1>1, <1>2, <1>6, <1>7, <1>8, <1>9, CoachSaveStep DEF CoachOver

\* advance_round: on to the first question of the next round.
LEMMA CoachAdvanceRoundPreserves ==
    ASSUME CoachInv, NEW c \in Clients, Coach!AdvanceRound(c)
    PROVE  CoachInv'
<1>1. PICK s \in Coach!State : s = coachHandler[c].state /\ CoachStateOK(s)
  BY CoachAtNodeState DEF Coach!AdvanceRound, Coach!AtNode
<1>2. s.next = "advance_round" /\ coachHandler[c].pc = "run" /\ UNCHANGED <<known, record, overlapped>>
  BY <1>1 DEF Coach!AdvanceRound, Coach!AtNode
<1>3. s.round \in 1..Rounds
  BY CoachStateParts
<1>4. s.campus /\ s.round < Rounds /\ CoachAsked(s) = <<s.round, s.index>> /\ Len(s.scores) > 0
  BY <1>1, <1>2 DEF CoachStateOK
<1>5. PICK r : r = [s EXCEPT !.next = "predict_questions", !.round = s.round + 1, !.index = 0, !.total = 0]
  OBVIOUS
<1>6. r \in Coach!State
  <2>1. s.round + 1 \in 1..Rounds /\ "predict_questions" \in Coach!Nodes /\ 0 \in 0..CoachQuestions
    BY <1>3, <1>4, CoachQuestionsAssumption, RoundsAssumption DEF Coach!Nodes
  <2>2. QED
    BY <1>5, <2>1 DEF Coach!State
<1>7. /\ r.next = "predict_questions" /\ r.index = 0 /\ r.total = 0 /\ r.round = s.round + 1
      /\ r.scores = s.scores /\ r.level = s.level /\ r.campus = s.campus
  BY <1>5 DEF Coach!State
<1>8. Coach!Save(c, r)
  BY <1>1, <1>5 DEF Coach!AdvanceRound
<1>9. CoachStateOK(r)
  <2>1. Coach!InOrder(<<s.round, s.index>>, <<s.round + 1, 0>>)
    BY DEF Coach!InOrder
  <2>2. CoachDue(r)
    BY <1>4, <1>7, <2>1 DEF CoachDue, CoachAsked
  <2>3. QED
    BY <1>1, <1>4, <1>7, <2>2 DEF CoachStateOK, CoachOver
<1>10. QED
  BY <1>1, <1>2, <1>6, <1>7, <1>8, <1>9, CoachSaveStep DEF CoachOver

\* debrief writes the summary, empty after a failure of its agent.
LEMMA CoachDebriefPreserves == ASSUME CoachInv, NEW c \in Clients, Coach!Debrief(c) PROVE CoachInv'
<1>1. PICK s \in Coach!State : s = coachHandler[c].state /\ CoachStateOK(s)
  BY CoachAtNodeState DEF Coach!Debrief, Coach!AtNode
<1>2. s.next = "debrief" /\ coachHandler[c].pc = "run" /\ UNCHANGED <<known, record, overlapped>>
  BY <1>1 DEF Coach!Debrief, Coach!AtNode
<1>3. PICK summary \in {"", "text"} :
        Coach!Save(c, [s EXCEPT !.next = "save_performance", !.summary = summary])
  BY <1>1 DEF Coach!Debrief
<1>4. PICK r \in Coach!State : r = [s EXCEPT !.next = "save_performance", !.summary = summary]
  BY DEF Coach!State, Coach!Nodes
<1>5. /\ r.next = "save_performance" /\ r.summary # "none" /\ r.index = s.index /\ r.total = s.total
      /\ r.scores = s.scores /\ r.round = s.round /\ r.level = s.level /\ r.campus = s.campus
  BY <1>4 DEF Coach!State
<1>6. CoachStateOK(r)
  <2>1. CoachAsked(r) = CoachAsked(s)
    BY <1>5 DEF CoachAsked
  <2>2. QED
    BY <1>1, <1>2, <1>5, <2>1 DEF CoachStateOK, CoachOver
<1>7. QED
  BY <1>1, <1>2, <1>3, <1>4, <1>5, <1>6, CoachSaveStep DEF CoachOver

\* save_performance is done, its record inserted before or not.
LEMMA CoachSavePerformancePreserves ==
    ASSUME CoachInv, NEW c \in Clients, Coach!SavePerformance(c)
    PROVE  CoachInv'
<1>1. PICK s \in Coach!State : s = coachHandler[c].state /\ CoachStateOK(s)
  BY CoachAtNodeState DEF Coach!SavePerformance
<1>2. s.next = "save_performance" /\ coachHandler[c].pc = "inserted" /\ UNCHANGED <<known, record, overlapped>>
  BY <1>1 DEF Coach!SavePerformance, CoachInv, CoachHandlerOK
<1>3. PICK r \in Coach!State : r = [s EXCEPT !.next = "END"]
  BY DEF Coach!State, Coach!Nodes
<1>4. /\ r.next = "END" /\ r.summary = s.summary /\ r.index = s.index /\ r.total = s.total
      /\ r.scores = s.scores /\ r.round = s.round /\ r.level = s.level /\ r.campus = s.campus
  BY <1>3 DEF Coach!State
<1>5. CoachStateOK(r)
  <2>1. CoachAsked(r) = CoachAsked(s)
    BY <1>4 DEF CoachAsked
  <2>2. QED
    BY <1>1, <1>2, <1>4, <2>1 DEF CoachStateOK, CoachOver
<1>6. Coach!Save(c, r)
  BY <1>1, <1>3 DEF Coach!SavePerformance
<1>7. QED
  BY <1>1, <1>2, <1>4, <1>5, <1>6, CoachSaveStep DEF CoachOver

\* A session gets its record when it is over, and no other after it.
LEMMA CoachInsertRecordPreserves ==
    ASSUME CoachInv, NEW c \in Clients, Coach!InsertRecord(c)
    PROVE  CoachInv'
<1> USE DEF CoachInv
<1>1. PICK s \in Coach!State : s = coachHandler[c].state /\ CoachStateOK(s)
  BY CoachAtNodeState DEF Coach!InsertRecord, Coach!AtNode
<1>2. PICK t \in Threads : t = coachHandler[c].thread
  BY DEF Coach!InsertRecord, Coach!AtNode, CoachHandlerOK
<1>3. /\ s.next = "save_performance" /\ coachHandler[c].pc = "run"
      /\ UNCHANGED <<checkpoint, known, overlapped>>
  BY <1>1 DEF Coach!InsertRecord, Coach!AtNode
<1>4. PICK h \in Coach!Handler : h = [coachHandler[c] EXCEPT !.pc = "inserted"]
  BY DEF Coach!TypeOK, Coach!Handler
<1>5. h.pc = "inserted" /\ h.thread = t /\ h.state = s
  BY <1>1, <1>2, <1>4 DEF Coach!TypeOK, Coach!Handler
<1>6. coachHandler' = [coachHandler EXCEPT ![c] = h]
  BY <1>4 DEF Coach!InsertRecord, Coach!TypeOK
<1>7. coachHandler'[c] = h /\ \A d \in Clients : d # c => coachHandler'[d] = coachHandler[d]
  BY <1>6 DEF Coach!TypeOK
<1>8. PICK new : new = [thread |-> t, id |-> "session", scores |-> s.scores, summary |-> s.summary]
  OBVIOUS
<1>9. /\ new \in Coach!Record /\ new.thread = t /\ new.id = "session"
      /\ new.scores = s.scores /\ new.summary = s.summary
  <2>1. s.summary \in {"", "text"}
    BY <1>1, <1>3, CoachStateParts DEF CoachStateOK, CoachOver
  <2>2. s.scores \in Seq(Coach!Score)
    BY CoachStateParts
  <2>3. QED
    BY <1>8, <2>1, <2>2 DEF Coach!Record
<1>10. (~Coach!HasRecord(t) /\ record' = record \cup {new}) \/ record' = record
  BY <1>1, <1>2, <1>8 DEF Coach!InsertRecord
<1>11. Coach!TypeOK'
  BY <1>3, <1>6, <1>9, <1>10 DEF Coach!TypeOK
<1>12. CoachHandlerOK(c)'
  BY <1>1, <1>2, <1>3, <1>5, <1>7 DEF CoachHandlerOK
<1>13. ASSUME NEW d \in Clients, d # c PROVE CoachHandlerOK(d)'
  BY <1>3, <1>7, <1>13 DEF CoachHandlerOK
<1>14. ASSUME NEW a \in Clients, NEW d \in Clients PROVE CoachPairOK(a, d)'
  <2>1. CASE a # c /\ d # c
    BY <1>3, <1>7, <2>1 DEF CoachPairOK
  <2>2. CASE a = c /\ d # c
    BY <1>2, <1>3, <1>5, <1>7, <2>2 DEF CoachPairOK
  <2>3. CASE a # c /\ d = c
    BY <1>2, <1>3, <1>5, <1>7, <2>3 DEF CoachPairOK
  <2>4. QED
    BY <2>1, <2>2, <2>3 DEF CoachPairOK
<1>15. ASSUME NEW u \in Threads PROVE CoachThreadOK(u)'
  BY <1>3 DEF CoachThreadOK
<1>16. Coach!RecordTellsSession'
  <2>1. CASE record' = record
    BY <1>3, <2>1 DEF Coach!RecordTellsSession
  <2>2. CASE ~Coach!HasRecord(t) /\ record' = record \cup {new}
    <3>1. ASSUME NEW r \in record', NEW q \in record', r.id = "session", q.id = "session",
                 q.thread = r.thread
          PROVE  q = r
      BY <1>9, <2>2, <3>1 DEF Coach!RecordTellsSession, Coach!HasRecord
    <3>2. ASSUME NEW r \in record', r.id = "session", r.thread \notin overlapped
          PROVE  /\ checkpoint[r.thread].next \in {"save_performance", "END"}
                 /\ r.scores = checkpoint[r.thread].scores
                 /\ r.summary = checkpoint[r.thread].summary
      <4>1. CASE r \in record
        BY <3>2, <4>1 DEF Coach!RecordTellsSession
      <4>2. CASE r = new
        <5>1. s = checkpoint[t]
          BY <1>1, <1>2, <1>3, <1>9, <3>2, <4>2 DEF CoachHandlerOK
        <5>2. QED
          BY <1>3, <1>9, <4>2, <5>1
      <4>3. QED
        BY <2>2, <4>1, <4>2
    <3>3. QED
      BY <1>3, <3>1, <3>2 DEF Coach!RecordTellsSession
  <2>3. QED
    BY <1>10, <2>1, <2>2
<1>17. QED
  BY <1>11, <1>12, <1>13, <1>14, <1>15, <1>16

\* No node is left, or one raises.
LEMMA CoachReturnPreserves ==
    ASSUME CoachInv, NEW c \in Clients, Coach!Return(c) \/ Coach!NodeRaises(c)
    PROVE  CoachInv'
<1>1. /\ coachHandler' = [coachHandler EXCEPT ![c] = Coach!NoHandler]
      /\ UNCHANGED <<checkpoint, known, record, overlapped>>
  BY DEF Coach!Return, Coach!NodeRaises, Coach!Finish
<1>2. record' \subseteq Coach!Record
  BY <1>1 DEF CoachInv, Coach!TypeOK
<1>3. QED
  BY <1>1, <1>2, CoachQuitStep

\* What save_session writes is no record of the session's own.
LEMMA CoachCreateRecordPreserves ==
    ASSUME CoachInv, NEW c \in Clients, Coach!CreateRecord(c)
    PROVE  CoachInv'
<1>1. PICK t \in Threads : t = coachHandler[c].thread
  BY DEF Coach!CreateRecord, CoachInv, CoachHandlerOK
<1>2. PICK summary \in {"", "text"} : summary = IF coachHandler[c].state.summary = "none" THEN "" ELSE "text"
  OBVIOUS
<1>3. PICK new : new = [thread |-> t, id |-> "fresh", scores |-> <<>>, summary |-> summary]
  OBVIOUS
<1>4. new \in Coach!Record /\ new.id = "fresh"
  <2>1. <<>> \in Seq(Coach!Score)
    BY EmptySeq
  <2>2. QED
    BY <1>3, <2>1 DEF Coach!Record
<1>5. /\ record' = record \cup {new} /\ coachHandler' = [coachHandler EXCEPT ![c] = Coach!NoHandler]
      /\ UNCHANGED <<checkpoint, known, overlapped>>
  BY <1>1, <1>2, <1>3 DEF Coach!CreateRecord, Coach!Finish
<1>6. record' \subseteq Coach!Record
  BY <1>4, <1>5 DEF CoachInv, Coach!TypeOK
<1>7. \A r \in Coach!Record : r.id = "session" => (r \in record' <=> r \in record)
  BY <1>4, <1>5
<1>8. QED
  BY <1>5, <1>6, <1>7, CoachQuitStep

\* A restart leaves the checkpoints and the records.
LEMMA CoachCrashPreserves == ASSUME CoachInv, Coach!Crash PROVE CoachInv'
<1> USE DEF CoachInv
<1>1. /\ coachHandler' = [c \in Clients |-> Coach!NoHandler]
      /\ UNCHANGED <<checkpoint, known, record, overlapped>>
  BY DEF Coach!Crash
<1>2. Coach!TypeOK'
  BY <1>1, CoachDefaults DEF Coach!TypeOK
<1>3. \A c \in Clients : CoachHandlerOK(c)'
  BY <1>1, CoachDefaults DEF CoachHandlerOK
<1>4. \A c, d \in Clients : CoachPairOK(c, d)'
  BY <1>1, CoachDefaults DEF CoachPairOK
<1>5. \A u \in Threads : CoachThreadOK(u)'
  BY <1>1 DEF CoachThreadOK
<1>6. Coach!RecordTellsSession'
  BY <1>1 DEF Coach!RecordTellsSession
<1>7. QED
  BY <1>2, <1>3, <1>4, <1>5, <1>6

\* A step that changes nothing of the coaching sessions.
LEMMA CoachStutterPreserves == ASSUME CoachInv, UNCHANGED coachVars PROVE CoachInv'
<1> USE DEF CoachInv, coachVars
<1>1. Coach!TypeOK'
  BY DEF Coach!TypeOK
<1>2. \A c \in Clients : CoachHandlerOK(c)'
  BY DEF CoachHandlerOK
<1>3. \A c, d \in Clients : CoachPairOK(c, d)'
  BY DEF CoachPairOK
<1>4. \A u \in Threads : CoachThreadOK(u)'
  BY DEF CoachThreadOK
<1>5. Coach!RecordTellsSession'
  BY DEF Coach!RecordTellsSession
<1>6. QED
  BY <1>1, <1>2, <1>3, <1>4, <1>5

\* Every step of the coaching routes and of the graph keeps the invariant.
LEMMA CoachStep == CoachInv /\ [Coach!Next]_coachVars => CoachInv'
<1> SUFFICES ASSUME CoachInv, [Coach!Next]_coachVars PROVE CoachInv'
  OBVIOUS
<1>1. CASE Coach!Next
  BY <1>1, CoachStartPreserves, CoachBeginPreserves, CoachAnswerPreserves,
       CoachSaveSessionPreserves,
     CoachPredictQuestionsPreserves, CoachPresentQuestionPreserves, CoachEvaluateAnswerPreserves,
     CoachAdvanceIndexPreserves, CoachAdvanceRoundPreserves, CoachDebriefPreserves, CoachInsertRecordPreserves,
     CoachSavePerformancePreserves, CoachReturnPreserves, CoachCreateRecordPreserves, CoachCrashPreserves DEF Coach!Next
<1>2. CASE UNCHANGED coachVars
  BY <1>2, CoachStutterPreserves
<1>3. QED
  BY <1>1, <1>2

\* The invariant tells that scores are in order and records agree with debriefs.
LEMMA CoachSessionsFollow == CoachInv => Coach!ScoresInOrder /\ Coach!RecordTellsSession
<1> SUFFICES ASSUME CoachInv PROVE Coach!ScoresInOrder
  BY DEF CoachInv
<1>1. ASSUME NEW t \in Threads, NEW s, s = checkpoint[t], NEW n, n = Len(s.scores)
      PROVE  /\ n > 0 => s.scores[1].question = <<1, 0>>
             /\ \A i \in 2..n : Coach!InOrder(s.scores[i - 1].question, s.scores[i].question)
             /\ s.level = Coach!LevelAfter(s.scores)
             /\ s.next \in {"debrief", "save_performance", "END"} =>
                  /\ n > 0
                  /\ s.scores[n].question[1] = IF s.campus THEN Rounds ELSE 1
                  /\ s.scores[n].question[2] = IF s.total = 0 THEN 0 ELSE s.total - 1
  <2>1. CoachStateOK(s)
    BY <1>1 DEF CoachInv, CoachThreadOK
  <2>2. ASSUME s.next \in {"debrief", "save_performance", "END"}
        PROVE  /\ n > 0 /\ s.scores[n].question = <<s.round, s.index>>
               /\ s.round = IF s.campus THEN Rounds ELSE 1
               /\ s.index = IF s.total = 0 THEN 0 ELSE s.total - 1
    BY <1>1, <2>1, <2>2 DEF CoachStateOK, CoachAsked, CoachOver
  <2>3. QED
    BY <1>1, <2>1, <2>2 DEF CoachStateOK
<1>2. QED
  BY <1>1, Zenon DEF Coach!ScoresInOrder
=============================================================================
