----------------------------- MODULE Negotiation -----------------------------
(***************************************************************************)
(* The simulation of a salary negotiation: the endpoints simulate, respond *)
(* and delete_session of api/routes/negotiation.py, the graph of           *)
(* workflows/graphs/negotiation.py that the first two execute, and the     *)
(* NegotiationSession documents.  The graph has one node that loops.  When *)
(* the node meets interrupt() the run ends and nothing of it is stored;    *)
(* when the thread is resumed the node is executed from its beginning, and *)
(* the coach that plays the recruiter is asked again.                      *)
(*                                                                         *)
(* The answers a user gives in a thread are numbered, 0 is the empty text. *)
(* A turn of the transcript is <<"user", a>> or <<"recruiter", a>>: what   *)
(* the recruiter says having heard answer a, or no answer if a is 0.       *)
(***************************************************************************)
EXTENDS Naturals, Sequences

CONSTANTS
    Clients,        \* browser tabs of one user
    Threads,        \* uuid4 thread ids: one per simulation
    NoThread,       \* no thread
    MaxAnswers      \* bound: answers given in one thread

VARIABLES
    checkpoint,     \* thread -> the latest checkpoint of the graph
    session,        \* NegotiationSession documents of simulations
    known,          \* threads whose id a client was told
    handler,        \* client -> the handler of its request
    given,          \* thread -> how many answers were submitted (history)
    accepted,       \* thread -> answers taken while it was going on (history)
    overlapped      \* threads two runs executed at the same time (history)

vars == <<checkpoint, session, known, handler, given, accepted, overlapped>>

Answers == 0..MaxAnswers
Turn    == {"user", "recruiter"} \X Answers

\* pending: user_response, the answer the recruiter has not reacted to.
State == [status : {"none", "simulating", "complete"}, transcript : Seq(Turn), pending : Answers]

NoState == [status |-> "none", transcript |-> <<>>, pending |-> 0]

\* state: the run's own copy.  answer: what the request brought.
\* resume: is the answer still to be handed to interrupt()?
\* reply: the recruiter's turn in the response.
Handler == [pc : {"idle", "begin", "run", "persist", "answered"},
            thread : Threads \cup {NoThread}, state : State, answer : Answers,
            resume : BOOLEAN, reply : Turn \cup {<<>>}]

NoHandler == [pc |-> "idle", thread |-> NoThread, state |-> NoState, answer |-> 0,
              resume |-> FALSE, reply |-> <<>>]

Init ==
    /\ checkpoint = [t \in Threads |-> NoState]
    /\ session = {}
    /\ known = {}
    /\ handler = [c \in Clients |-> NoHandler]
    /\ given = [t \in Threads |-> 0]
    /\ accepted = [t \in Threads |-> {}]
    /\ overlapped = {}

-----------------------------------------------------------------------------
\* simulate_negotiation of the routes: a new thread, and its run.

Simulate(c) ==
    /\ handler[c].pc = "idle"
    /\ \E t \in Threads :
         /\ checkpoint[t] = NoState
         /\ \A d \in Clients : handler[d].thread # t
         /\ handler' = [handler EXCEPT ![c] = [NoHandler EXCEPT !.pc = "begin", !.thread = t]]
    /\ UNCHANGED <<checkpoint, session, known, given, accepted, overlapped>>

Begin(c) ==
    /\ handler[c].pc = "begin"
    /\ LET start == [NoState EXCEPT !.status = "simulating"]
       IN  /\ checkpoint' = [checkpoint EXCEPT ![handler[c].thread] = start]
           /\ handler' = [handler EXCEPT ![c].pc = "run", ![c].state = start]
    /\ UNCHANGED <<session, known, given, accepted, overlapped>>

\* respond_to_negotiation: neither the thread's state nor its session is
\* looked at.  The thread of a simulation that is over has nothing to run.
Running(c, t) == handler[c].pc = "run" /\ handler[c].thread = t

Respond(c, t) ==
    /\ handler[c].pc = "idle"
    /\ t \in known
    /\ given[t] < MaxAnswers
    /\ \E answer \in {0, given[t] + 1} :
         handler' = [handler EXCEPT ![c] =
                       [NoHandler EXCEPT !.pc = "run", !.thread = t, !.state = checkpoint[t],
                                         !.answer = answer, !.resume = TRUE]]
    /\ given' = [given EXCEPT ![t] = @ + 1]
    /\ overlapped' = IF \E d \in Clients : Running(d, t) THEN overlapped \cup {t} ELSE overlapped
    /\ UNCHANGED <<checkpoint, session, known, accepted>>

-----------------------------------------------------------------------------
\* The node.  The coach has reacted to the pending answer.

\* A mutant: the answer is handed over, but not written down.
TurnsWithoutUser(s) == Append(s.transcript, <<"recruiter", s.pending>>)

Turns(s) ==
    s.transcript \o (IF s.pending = 0 THEN <<>> ELSE << <<"user", s.pending>> >>)
                 \o << <<"recruiter", s.pending>> >>

\* The recruiter's turn in the responses: simulate takes the first of the
\* transcript, respond the last.
FirstTurn(s) == IF s.transcript = <<>> THEN <<>> ELSE s.transcript[1]
LastTurn(s)  == IF s.transcript = <<>> THEN <<>> ELSE s.transcript[Len(s.transcript)]

\* The run is over with state s; simulate has to store its session first.
Over(c, s) ==
    handler' = [handler EXCEPT
                  ![c].state = s,
                  ![c].pc = IF handler[c].thread \in known THEN "answered" ELSE "persist",
                  ![c].reply = IF handler[c].thread \in known THEN LastTurn(s) ELSE FirstTurn(s)]

Accept(c, s) ==
    accepted' = IF s.status = "simulating" /\ handler[c].thread \in known
                THEN [accepted EXCEPT ![handler[c].thread] = @ \cup ({handler[c].answer} \ {0})]
                ELSE accepted

AtNode(c) == handler[c].pc = "run" /\ handler[c].state.status = "simulating"

\* The coach ends the simulation; an answer not yet handed over is dropped.
Complete(c) ==
    /\ AtNode(c)
    /\ LET t == handler[c].thread
           s == [status |-> "complete", transcript |-> Turns(handler[c].state), pending |-> 0]
       IN  /\ checkpoint' = [checkpoint EXCEPT ![t] = s]
           /\ Over(c, s)
    /\ UNCHANGED <<session, known, given, accepted, overlapped>>

\* interrupt() returns the answer; the node is left, and executed again.
Resume(c) ==
    /\ AtNode(c)
    /\ handler[c].resume
    /\ LET s == [status |-> "simulating", transcript |-> Turns(handler[c].state),
                 pending |-> handler[c].answer]
       IN  /\ checkpoint' = [checkpoint EXCEPT ![handler[c].thread] = s]
           /\ handler' = [handler EXCEPT ![c].state = s, ![c].resume = FALSE]
    /\ UNCHANGED <<session, known, given, accepted, overlapped>>

\* interrupt() ends the run: the turn just made is in no checkpoint.
Interrupt(c) ==
    /\ AtNode(c)
    /\ ~handler[c].resume
    /\ Over(c, handler[c].state)
    /\ Accept(c, handler[c].state)
    /\ UNCHANGED <<checkpoint, session, known, given, overlapped>>

\* The thread was over when the run began.
NothingToRun(c) ==
    /\ handler[c].pc = "run"
    /\ handler[c].state.status = "complete"
    /\ Over(c, handler[c].state)
    /\ UNCHANGED <<checkpoint, session, known, given, accepted, overlapped>>

-----------------------------------------------------------------------------
\* The session gets the transcript as it is and is never updated.
Persist(c) ==
    /\ handler[c].pc = "persist"
    /\ session' = session \cup {[thread |-> handler[c].thread,
                                 turns |-> Len(handler[c].state.transcript)]}
    /\ known' = known \cup {handler[c].thread}
    /\ handler' = [handler EXCEPT ![c].pc = "answered"]
    /\ UNCHANGED <<checkpoint, given, accepted, overlapped>>

\* The client has its response.
Read(c) ==
    /\ handler[c].pc = "answered"
    /\ handler' = [handler EXCEPT ![c] = NoHandler]
    /\ UNCHANGED <<checkpoint, session, known, given, accepted, overlapped>>

\* The coach raises, or the process is restarted, wherever the handler is.
Fail(c) ==
    /\ handler[c].pc \in {"begin", "run", "persist"}
    /\ handler' = [handler EXCEPT ![c] = NoHandler]
    /\ UNCHANGED <<checkpoint, session, known, given, accepted, overlapped>>

\* delete_session: the thread remains, and can still be answered.
DeleteSession(c) ==
    /\ handler[c].pc = "idle"
    /\ \E s \in session : session' = session \ {s}
    /\ UNCHANGED <<checkpoint, known, handler, given, accepted, overlapped>>

Next ==
    \E c \in Clients :
      \/ Simulate(c) \/ Begin(c) \/ Persist(c) \/ Read(c) \/ Fail(c) \/ DeleteSession(c)
      \/ Complete(c) \/ Resume(c) \/ Interrupt(c) \/ NothingToRun(c)
      \/ \E t \in Threads : Respond(c, t)

Spec == Init /\ [][Next]_vars

-----------------------------------------------------------------------------
\* Threads, sessions and handlers have their types.
TypeOK ==
    /\ checkpoint \in [Threads -> State]
    /\ session \subseteq [thread : Threads, turns : {0, 1}]
    /\ known \subseteq Threads
    /\ handler \in [Clients -> Handler]
    /\ given \in [Threads -> Answers]
    /\ accepted \in [Threads -> SUBSET Answers]
    /\ overlapped \subseteq Threads

Range(s) == {s[i] : i \in 1..Len(s)}

\* Through all the re-executions of the node, a transcript never holds two
\* recruiter's turns to one answer nor an answer without the turn to it, and
\* answers stand in the order they were given; and as long as a simulation goes
\* on, every answer it accepted is in the transcript or waits for its turn.
\* Excepted are threads that two runs executed at the same time.
TranscriptTells ==
    \A t \in Threads :
      LET s == checkpoint[t]
          n == Len(s.transcript)
      IN  t \notin overlapped =>
            /\ \A i \in 1..n :
                 /\ s.transcript[i][1] = "user" =>
                      i < n /\ s.transcript[i + 1] = <<"recruiter", s.transcript[i][2]>>
                 /\ s.transcript[i][1] = "recruiter" /\ s.transcript[i][2] # 0 =>
                      i > 1 /\ s.transcript[i - 1] = <<"user", s.transcript[i][2]>>
                 /\ \A j \in 1..i - 1 :
                      s.transcript[i][1] = "user" /\ s.transcript[j][1] = "user"
                        => s.transcript[j][2] < s.transcript[i][2]
            /\ s.status = "simulating" =>
                 \A a \in accepted[t] : a = s.pending \/ <<"user", a>> \in Range(s.transcript)

\* "Submit a user response and get the next recruiter turn": the turn in the
\* response of respond_to_negotiation reacts to the answer of its request.
AnswerIsAnswered ==
    \A c \in Clients :
      handler[c].pc = "answered" /\ handler[c].answer # 0 =>
        handler[c].reply = <<"recruiter", handler[c].answer>>
=============================================================================
