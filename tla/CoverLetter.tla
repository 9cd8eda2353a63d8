---------------------------- MODULE CoverLetter -----------------------------
(***************************************************************************)
(* The cover letter workflow of one application: the three handlers of     *)
(* api/routes/apply.py (start, stream, review), the LangGraph graph of     *)
(* workflows/graphs/cover_letter.py that the last two execute, and the two *)
(* stores they share: the documents and the graph's checkpoints.           *)
(*                                                                         *)
(* A client is a browser tab of the user.  It has one request outstanding; *)
(* the handler of the request is advanced one await at a time, so the      *)
(* handlers of several tabs interleave at every read and write.  Creating  *)
(* a document is one step: DocumentVersions shows that create_versioned    *)
(* implements DocumentLedger's Create.                                     *)
(*                                                                         *)
(* A run of the graph loads the thread's latest checkpoint, then executes  *)
(* a node at a time and saves a checkpoint after each; the run's own copy  *)
(* of the state, not the checkpoint, feeds its next node.  Ownership and   *)
(* existence checks that only refuse a request are left out, and so is the *)
(* deletion of the application.                                            *)
(***************************************************************************)
EXTENDS Integers, FiniteSets

CONSTANTS
    Clients,        \* browser tabs
    Threads,        \* uuid4 thread ids: one per document
    Texts,          \* what the writer may answer
    EmptyText,      \* "", an answer like any other
    NoText,         \* nothing written yet, or nothing on the screen
    NoThread        \* no thread

ASSUME TextsAssumption    == EmptyText \in Texts
ASSUME SentinelAssumption == NoText \notin Texts /\ NoThread \notin Threads
ASSUME ThreadsAssumption  == IsFiniteSet(Threads)   \* there are 2^122 of them

VARIABLES
    version,        \* thread -> DocumentRecord.version, 0 if it has no document
    letter,         \* thread -> the other fields of its DocumentRecord
    checkpoint,     \* thread -> the latest checkpoint of the graph
    tab,            \* client -> what the tab shows
    handler,        \* client -> the handler of the tab's request
    seen            \* the pairs <<thread, text>> shown to the user (history)

vars == <<version, letter, checkpoint, tab, handler, seen>>

Ledger == INSTANCE DocumentLedger

WorkNodes == {"analyze_requirements", "retrieve_memories", "write_cover_letter"}
Nodes     == WorkNodes \cup {"human_review", "END"}
Decisions == {"approve", "revise"}

\* content and feedback are "" at first; feedback is told apart only by the
\* thread whose review it was given in.
Letter == [content : Texts, is_approved : BOOLEAN,
           feedback : Threads \cup {NoThread}]

\* next: snapshot.next, "none" while the thread has no checkpoint.
\* resume: the thread whose document chose the resume in resume_text.
Checkpoint == [next : Nodes \cup {"none"}, draft : Texts \cup {NoText},
               resume : Threads \cup {NoThread}]

Tab == [thread : Threads \cup {NoThread}, shown : Texts \cup {NoText}]

\* node, draft, resume: the run's own copy of the graph's state.
\* answer: the Command(resume=...) that human_review has not consumed yet.
\* target: the document that get_latest returned.
Handler == [pc     : {"idle", "create", "fresh", "begin", "load", "run", "latest", "update"},
            kind   : {"none", "start", "stream"} \cup Decisions,
            node   : Nodes \cup {"none"},
            draft  : Texts \cup {NoText},
            resume : Threads \cup {NoThread},
            answer : Decisions \cup {"none"},
            target : Threads \cup {NoThread}]

NoHandler == [pc |-> "idle", kind |-> "none", node |-> "none", draft |-> NoText,
              resume |-> NoThread, answer |-> "none", target |-> NoThread]

Init ==
    /\ version = [t \in Threads |-> 0]
    /\ letter = [t \in Threads |->
                   [content |-> EmptyText, is_approved |-> FALSE, feedback |-> NoThread]]
    /\ checkpoint = [t \in Threads |->
                       [next |-> "none", draft |-> NoText, resume |-> NoThread]]
    /\ tab = [c \in Clients |-> [thread |-> NoThread, shown |-> NoText]]
    /\ handler = [c \in Clients |-> NoHandler]
    /\ seen = {}

-----------------------------------------------------------------------------
\* What several handlers do

Idle(c) == handler[c].pc = "idle"

Finish(c) == handler' = [handler EXCEPT ![c] = NoHandler]

Show(c, x) ==
    /\ tab' = [tab EXCEPT ![c].shown = x]
    /\ seen' = seen \cup {<<tab[c].thread, x>>}

ClearScreen(c) == tab' = [tab EXCEPT ![c].shown = NoText]

Save(c, node, draft, resume) ==
    checkpoint' = [checkpoint EXCEPT ![tab[c].thread] =
                     [next |-> node, draft |-> draft, resume |-> resume]]

-----------------------------------------------------------------------------
\* start_cover_letter

InProgress(t) == /\ version[t] # 0
                 /\ letter[t].content = EmptyText
                 /\ ~letter[t].is_approved

\* GENERATION_ALREADY_IN_PROGRESS: the tab joins the thread named in the detail.
StartBlocked(c) ==
    /\ Idle(c)
    /\ \E t \in Threads : /\ InProgress(t)
                          /\ tab' = [tab EXCEPT ![c] = [thread |-> t, shown |-> NoText]]
    /\ UNCHANGED <<version, letter, checkpoint, handler, seen>>

StartAccepted(c) ==
    /\ Idle(c)
    /\ \A t \in Threads : ~InProgress(t)
    /\ handler' = [handler EXCEPT ![c].pc = "create", ![c].kind = "start"]
    /\ UNCHANGED <<version, letter, checkpoint, tab, seen>>

\* RATE_LIMITED or DOCUMENT_VERSION_CONFLICT
StartRefused(c) ==
    /\ handler[c].pc = "create"
    /\ Finish(c)
    /\ UNCHANGED <<version, letter, checkpoint, tab, seen>>

StartCreates(c) ==
    /\ handler[c].pc = "create"
    /\ \E t \in Threads : /\ Ledger!Create(t)
                          /\ tab' = [tab EXCEPT ![c] = [thread |-> t, shown |-> NoText]]
    /\ Finish(c)
    /\ UNCHANGED <<letter, checkpoint, seen>>

-----------------------------------------------------------------------------
\* stream_cover_letter: the snapshot decides the case.  A tab that connects
\* to the stream takes the old draft off its screen.

Snapshot(c) == checkpoint[tab[c].thread]

CanRequest(c) == Idle(c) /\ tab[c].thread # NoThread

StreamCompleted(c) ==
    /\ CanRequest(c)
    /\ Snapshot(c).next = "END"
    /\ ClearScreen(c)
    /\ UNCHANGED <<version, letter, checkpoint, handler, seen>>

StreamAwaitsReview(c) ==
    /\ CanRequest(c)
    /\ Snapshot(c).next = "human_review"
    /\ Show(c, Snapshot(c).draft)
    /\ UNCHANGED <<version, letter, checkpoint, handler>>

\* A mutant: a reconnect in flight waits for the run that is gone.
StreamInFlightWaits(c) ==
    /\ CanRequest(c)
    /\ Snapshot(c).next \in WorkNodes
    /\ ClearScreen(c)
    /\ UNCHANGED <<version, letter, checkpoint, handler, seen>>

StreamInFlight(c) ==
    /\ CanRequest(c)
    /\ Snapshot(c).next \in WorkNodes
    /\ handler' = [handler EXCEPT ![c].pc = "load", ![c].kind = "stream"]
    /\ ClearScreen(c)
    /\ UNCHANGED <<version, letter, checkpoint, seen>>

\* A mutant: no checkpoint detection.
StreamAlwaysFresh(c) ==
    /\ CanRequest(c)
    /\ handler' = [handler EXCEPT ![c].pc = "fresh", ![c].kind = "stream"]
    /\ ClearScreen(c)
    /\ UNCHANGED <<version, letter, checkpoint, seen>>

StreamFresh(c) ==
    /\ CanRequest(c)
    /\ Snapshot(c).next = "none"
    /\ handler' = [handler EXCEPT ![c].pc = "fresh", ![c].kind = "stream"]
    /\ ClearScreen(c)
    /\ UNCHANGED <<version, letter, checkpoint, seen>>

\* A mutant: the sort of get_latest is ascending.
ChooseFirstResume(c) ==
    /\ handler[c].pc = "fresh"
    /\ \E t \in Threads : /\ version[t] = 1
                          /\ handler' = [handler EXCEPT ![c].pc = "begin", ![c].resume = t]
    /\ UNCHANGED <<version, letter, checkpoint, tab, seen>>

\* get_latest, whose resume_id (and not the thread's) chooses the resume.
ChooseResume(c) ==
    /\ handler[c].pc = "fresh"
    /\ \E t \in Threads : /\ Ledger!IsLatest(t)
                          /\ handler' = [handler EXCEPT ![c].pc = "begin", ![c].resume = t]
    /\ UNCHANGED <<version, letter, checkpoint, tab, seen>>

\* astream(initial_state) starts at START whatever the checkpoint is; the
\* channels that initial_state does not name keep their values.
Begin(c) ==
    /\ handler[c].pc = "begin"
    /\ LET draft == Snapshot(c).draft
           first == "analyze_requirements"
       IN  /\ handler' = [handler EXCEPT ![c].pc = "run", ![c].node = first, ![c].draft = draft]
           /\ Save(c, first, draft, handler[c].resume)
    /\ UNCHANGED <<version, letter, tab, seen>>

-----------------------------------------------------------------------------
\* review_cover_letter: the snapshot check

\* The user decides on the draft that the tab shows.
Review(c, decision) ==
    /\ CanRequest(c)
    /\ tab[c].shown # NoText
    /\ Snapshot(c).next = "human_review"
    /\ handler' = [handler EXCEPT ![c].pc = "load", ![c].kind = decision]
    /\ UNCHANGED <<version, letter, checkpoint, tab, seen>>

\* THREAD_EXPIRED or THREAD_NOT_READY: the tab goes back to the stream.
ReviewRefused(c) ==
    /\ CanRequest(c)
    /\ tab[c].shown # NoText
    /\ Snapshot(c).next # "human_review"
    /\ ClearScreen(c)
    /\ UNCHANGED <<version, letter, checkpoint, handler, seen>>

-----------------------------------------------------------------------------
\* The graph: astream(None), or ainvoke(Command(resume=decision))

\* The run continues from the latest checkpoint.  A resume value is delivered
\* to human_review if that is the next node, and dropped otherwise.
Load(c) ==
    /\ handler[c].pc = "load"
    /\ LET cp == Snapshot(c)
       IN  handler' = [handler EXCEPT
                         ![c].pc = "run",
                         ![c].node = cp.next, ![c].draft = cp.draft, ![c].resume = cp.resume,
                         ![c].answer = IF cp.next = "human_review" /\ handler[c].kind # "stream"
                                       THEN handler[c].kind ELSE "none"]
    /\ UNCHANGED <<version, letter, checkpoint, tab, seen>>

AtNode(c, node) == handler[c].pc = "run" /\ handler[c].node = node

Successor == [analyze_requirements |-> "retrieve_memories",
              retrieve_memories    |-> "write_cover_letter",
              write_cover_letter   |-> "human_review"]

Advance(c, node, draft) ==
    /\ handler' = [handler EXCEPT ![c].node = node, ![c].draft = draft, ![c].answer = "none"]
    /\ Save(c, node, draft, handler[c].resume)
    /\ UNCHANGED <<version, letter, tab, seen>>

\* analyze_requirements and retrieve_memories leave cover_letter alone.
Prepare(c) ==
    \E node \in WorkNodes \ {"write_cover_letter"} :
      /\ AtNode(c, node)
      /\ Advance(c, Successor[node], handler[c].draft)

\* process_response takes the model's answer as it is, empty or not.
WriteCoverLetter(c) ==
    /\ AtNode(c, "write_cover_letter")
    /\ \E x \in Texts : Advance(c, Successor["write_cover_letter"], x)

\* A mutant: ainvoke's exception is logged, and the review goes on.
NodeRaisesIgnored(c) ==
    /\ AtNode(c, "analyze_requirements") \/ AtNode(c, "write_cover_letter")
    /\ IF handler[c].kind = "stream" THEN Finish(c)
       ELSE handler' = [handler EXCEPT ![c].pc = "latest"]
    /\ UNCHANGED <<version, letter, checkpoint, tab, seen>>

\* The agent raises: an error event, or GRAPH_EXECUTION_ERROR.
NodeRaises(c) ==
    /\ AtNode(c, "analyze_requirements") \/ AtNode(c, "write_cover_letter")
    /\ Finish(c)
    /\ UNCHANGED <<version, letter, checkpoint, tab, seen>>

\* human_review without an answer: interrupt() ends the run.  A stream shows
\* the run's draft; a review takes the interrupted state for the result.
Interrupt(c) ==
    /\ AtNode(c, "human_review")
    /\ handler[c].answer = "none"
    /\ IF handler[c].kind = "stream"
       THEN Show(c, handler[c].draft) /\ Finish(c)
       ELSE /\ handler' = [handler EXCEPT ![c].pc = "latest"]
            /\ UNCHANGED <<tab, seen>>
    /\ UNCHANGED <<version, letter, checkpoint>>

\* A mutant: review_decision defaults to approve when nobody answered.
HumanReviewDefaults(c) ==
    /\ AtNode(c, "human_review")
    /\ \/ handler[c].answer # "revise" /\ Advance(c, "END", handler[c].draft)
       \/ handler[c].answer = "revise" /\ Advance(c, "write_cover_letter", handler[c].draft)

HumanReview(c) ==
    /\ AtNode(c, "human_review")
    /\ \/ handler[c].answer = "approve" /\ Advance(c, "END", handler[c].draft)
       \/ handler[c].answer = "revise"  /\ Advance(c, "write_cover_letter", handler[c].draft)

\* A mutant: the handler answers without saving what the graph returned.
GraphReturnsUnsaved(c) ==
    /\ AtNode(c, "END")
    /\ Finish(c)
    /\ UNCHANGED <<version, letter, checkpoint, tab, seen>>

\* No node is left: ainvoke returns the state, a stream just closes.
GraphReturns(c) ==
    /\ AtNode(c, "END")
    /\ IF handler[c].kind = "stream" THEN Finish(c)
       ELSE handler' = [handler EXCEPT ![c].pc = "latest"]
    /\ UNCHANGED <<version, letter, checkpoint, tab, seen>>

-----------------------------------------------------------------------------
\* review_cover_letter: after the graph

\* A mutant: the sort of get_latest is ascending.
ReadFirst(c) ==
    /\ handler[c].pc = "latest"
    /\ \E t \in Threads : /\ version[t] = 1
                          /\ handler' = [handler EXCEPT ![c].pc = "update", ![c].target = t]
    /\ UNCHANGED <<version, letter, checkpoint, tab, seen>>

ReadLatest(c) ==
    /\ handler[c].pc = "latest"
    /\ \E t \in Threads : /\ Ledger!IsLatest(t)
                          /\ handler' = [handler EXCEPT ![c].pc = "update", ![c].target = t]
    /\ UNCHANGED <<version, letter, checkpoint, tab, seen>>

\* result.get("cover_letter", "")
Result(draft) == IF draft = NoText THEN EmptyText ELSE draft

RecordApproval(c) ==
    /\ handler[c].pc = "update"
    /\ handler[c].kind = "approve"
    /\ letter' = [letter EXCEPT ![handler[c].target].content = Result(handler[c].draft),
                                ![handler[c].target].is_approved = TRUE]
    /\ ClearScreen(c)
    /\ Finish(c)
    /\ UNCHANGED <<version, checkpoint, seen>>

RecordRevision(c) ==
    /\ handler[c].pc = "update"
    /\ handler[c].kind = "revise"
    /\ letter' = [letter EXCEPT ![handler[c].target].feedback = tab[c].thread]
    /\ ClearScreen(c)
    /\ Finish(c)
    /\ UNCHANGED <<version, checkpoint, seen>>

-----------------------------------------------------------------------------
\* Failures

\* The client goes away: the response's generator, and the run in it, stop.
Disconnect(c) ==
    /\ handler[c].kind = "stream"
    /\ Finish(c)
    /\ UNCHANGED <<version, letter, checkpoint, tab, seen>>

\* The server restarts: every handler is lost, both stores and the tabs stay.
Crash ==
    /\ \E c \in Clients : ~Idle(c)
    /\ handler' = [c \in Clients |-> NoHandler]
    /\ UNCHANGED <<version, letter, checkpoint, tab, seen>>

-----------------------------------------------------------------------------
OpenStream(c) ==
    StreamCompleted(c) \/ StreamAwaitsReview(c) \/ StreamInFlight(c) \/ StreamFresh(c)

UserStep(c) ==
    \/ StartBlocked(c) \/ StartAccepted(c)
    \/ OpenStream(c)
    \/ \E decision \in Decisions : Review(c, decision)
    \/ ReviewRefused(c)

ServerStep(c) ==
    \/ StartRefused(c) \/ StartCreates(c)
    \/ ChooseResume(c) \/ Begin(c) \/ Load(c)
    \/ Prepare(c) \/ WriteCoverLetter(c) \/ Interrupt(c) \/ HumanReview(c) \/ GraphReturns(c)
    \/ ReadLatest(c) \/ RecordApproval(c) \/ RecordRevision(c)

Next ==
    \/ \E c \in Clients : UserStep(c) \/ ServerStep(c) \/ NodeRaises(c) \/ Disconnect(c)
    \/ Crash

Spec == Init /\ [][Next]_vars

(***************************************************************************)
(* A request that was accepted goes on until it is answered.  A user who   *)
(* waits for a draft opens the stream again: use-sse-stream.ts reconnects  *)
(* three times after a lost connection and not at all after an error       *)
(* event, so beyond that it is the user who retries or opens the page      *)
(* again.  Opening it competes with other clicks in the tab, so it needs   *)
(* strong fairness: an assumption on the user, not on the code.            *)
(* Nothing is assumed of starts, decisions, failures and crashes.          *)
(***************************************************************************)
Fairness == \A c \in Clients : WF_vars(ServerStep(c)) /\ SF_vars(OpenStream(c))

FairSpec == Spec /\ Fairness

\* The same, if the server never restarts.
NextWithoutCrash ==
    \E c \in Clients : UserStep(c) \/ ServerStep(c) \/ NodeRaises(c) \/ Disconnect(c)

SpecWithoutCrash == Init /\ [][NextWithoutCrash]_vars

FairSpecWithoutCrash == SpecWithoutCrash /\ Fairness

-----------------------------------------------------------------------------
\* Types of the documents, checkpoints, tabs and handlers.
TypeOK ==
    /\ version \in [Threads -> Nat]
    /\ letter \in [Threads -> Letter]
    /\ checkpoint \in [Threads -> Checkpoint]
    /\ tab \in [Clients -> Tab]
    /\ handler \in [Clients -> Handler]
    /\ seen \subseteq Threads \X Texts

(***************************************************************************)
(* A review that gets past the graph returns a draft that the writer wrote *)
(* (it may be an empty one): the default of result.get("cover_letter", "") *)
(* is never what is saved and approved, although after the snapshot was    *)
(* taken the run of another tab may have put the thread back to a state    *)
(* without a draft.                                                        *)
(***************************************************************************)
ReviewReturnsDraft ==
    \A c \in Clients : handler[c].pc \in {"latest", "update"} => handler[c].draft # NoText

(***************************************************************************)
(* No thread completes, and so is beyond review for good, before the user  *)
(* has been shown a draft of it, however streams and reviews of several    *)
(* tabs interleave with crashes.                                           *)
(***************************************************************************)
EndWasPresented ==
    \A t \in Threads :
      checkpoint[t].next = "END" => \E x \in Texts : <<t, x>> \in seen

(***************************************************************************)
(* A draft under review stays there until the user answers: no other step  *)
(* takes a thread away from human_review.                                  *)
(***************************************************************************)
ReviewHolds ==
    [][\A t \in Threads :
         checkpoint[t].next = "human_review" /\ checkpoint'[t].next # "human_review"
         => \E c \in Clients : tab[c].thread = t /\ HumanReview(c)]_vars

(***************************************************************************)
(* "On approve: marks the document as approved, saves final content"       *)
(* (apply.py:482): a decision is recorded in the document of the thread    *)
(* that was reviewed, although the handler updates the latest document.    *)
(***************************************************************************)
ReviewUpdatesOwnDocument ==
    [][\A c \in Clients :
         RecordApproval(c) \/ RecordRevision(c) => handler[c].target = tab[c].thread]_vars

(***************************************************************************)
(* "Resume used to generate this document" (document_record.py:60): the    *)
(* graph of a thread runs on the resume that its own document names.       *)
(***************************************************************************)
ResumeIsOwn ==
    \A t \in Threads : checkpoint[t].next # "none" => checkpoint[t].resume = t

(***************************************************************************)
(* "This prevents agents from producing content that the user has not      *)
(* reviewed" (document_record.py:23): what is approved was presented.      *)
(***************************************************************************)
ApprovedWasSeen ==
    \A t \in Threads : letter[t].is_approved => <<t, letter[t].content>> \in seen

Gate == INSTANCE ApprovalGate
          WITH presented <- seen,
               approvedText <- [t \in Threads |-> IF letter[t].is_approved
                                                  THEN letter[t].content ELSE NoText]

(***************************************************************************)
(* The whole promise of the gate: a document gets its content once, and it *)
(* is a text that was presented to the user for that very document.        *)
(***************************************************************************)
ImplementsGate == Gate!Spec

\* From some time on nothing fails.
EventuallyCalm ==
    <>[][~(Crash \/ \E c \in Clients : NodeRaises(c) \/ Disconnect(c))]_vars

(***************************************************************************)
(* A generation that was started gets to the user: once failures stop, a   *)
(* thread that a tab stays on reaches its review (or its end), wherever    *)
(* earlier crashes, disconnections and failed nodes left it.               *)
(***************************************************************************)
DraftArrives ==
    EventuallyCalm =>
      \A c \in Clients, t \in Threads :
        tab[c].thread = t ~> \/ checkpoint[t].next \in {"human_review", "END"}
                             \/ tab[c].thread # t

(***************************************************************************)
(* "On approve -> DocumentRecord.is_approved=True, content saved"          *)
(* (apply.py:36): a thread that completed leaves an approved document.     *)
(***************************************************************************)
ApprovalRecorded ==
    \A t \in Threads : checkpoint[t].next = "END" ~> letter[t].is_approved
=============================================================================
