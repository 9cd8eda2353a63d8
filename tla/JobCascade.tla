----------------------------- MODULE JobCascade -----------------------------
(***************************************************************************)
(* The jobs a user adds by hand, the application of each, and what hangs   *)
(* on them: cover letters, outreach messages, interviews with their mock   *)
(* sessions, and the job's embedding in the vector store.  delete_job of   *)
(* api/routes/jobs.py takes them away one await at a time while other      *)
(* tabs go on and the background task of add_job_manually may still be     *)
(* indexing.                                                               *)
(*                                                                         *)
(* MongoDB has no transaction here: an error or a restart leaves whatever  *)
(* the steps so far have done.  Cover letters are never indexed (nothing   *)
(* calls index_cover_letter), so the step that removes their embeddings    *)
(* changes nothing and is left out.                                        *)
(***************************************************************************)
EXTENDS Naturals, Sequences

CONSTANTS
    Clients,        \* browser tabs of one user
    Jobs,           \* ids of Job documents; each has at most one Application
    NoJob           \* no job

VARIABLES
    job,            \* job -> is the Job document there?
    application,    \* job -> is its Application there?
    children,       \* job -> the kinds of documents stored for its application
    embedding,      \* job -> is its JobEmbedding stored?
    indexing,       \* job -> how far its background indexing is
    handler,        \* client -> the handler of its request
    stray,          \* job -> what came after its removal, or resisted it (history)
    detached,       \* jobs whose application alone was deleted (history)
    cut             \* jobs left half way by an error or a restart (history)

vars == <<job, application, children, embedding, indexing, handler, stray, detached, cut>>

Presence == {"absent", "present", "deleted"}
Kinds    == {"document", "message", "interview", "mock_session"}

\* A mutant: the application goes before its messages and interviews.
CascadeParentFirst ==
    <<"document", "application", "message", "interview", "embedding", "job">>

\* What delete_job removes, in this order.
Cascade ==
    <<"document", "message", "interview", "application", "embedding", "job">>

Removals == {Cascade[i] : i \in 1..6}
Place(r) == CHOOSE i \in 1..6 : Cascade[i] = r

\* pc of delete_job: what it removes next.
Handler == [pc   : {"idle", "add", "insert"} \cup Removals,
            job  : Jobs \cup {NoJob},
            kind : Kinds \cup {"none"}]

NoHandler == [pc |-> "idle", job |-> NoJob, kind |-> "none"]

Init ==
    /\ job = [j \in Jobs |-> "absent"]
    /\ application = [j \in Jobs |-> "absent"]
    /\ children = [j \in Jobs |-> {}]
    /\ embedding = [j \in Jobs |-> FALSE]
    /\ indexing = [j \in Jobs |-> "none"]
    /\ handler = [c \in Clients |-> NoHandler]
    /\ stray = [j \in Jobs |-> {}]
    /\ detached = {}
    /\ cut = {}

-----------------------------------------------------------------------------
Idle(c)   == handler[c].pc = "idle"
Finish(c) == handler' = [handler EXCEPT ![c] = NoHandler]

Accept(c, pc, j, kind) ==
    /\ Idle(c)
    /\ handler' = [handler EXCEPT ![c] = [pc |-> pc, job |-> j, kind |-> kind]]

\* What is written now is out of the reach of every cascade on j that has
\* removed r already, or its parent is gone.
TooLate(j, r) ==
    \/ r # "embedding" /\ application[j] # "present"
    \/ r = "embedding" /\ job[j] # "present"
    \/ \E c \in Clients :
         handler[c].job = j /\ handler[c].pc \in Removals /\ Place(handler[c].pc) > Place(r)

-----------------------------------------------------------------------------
\* add_job_manually: the Job, then its Application; then the response, after
\* which the task that indexes the description runs, if there is one.

AddJob(c, j) ==
    /\ job[j] = "absent"
    /\ Accept(c, "add", j, "none")
    /\ job' = [job EXCEPT ![j] = "present"]
    /\ UNCHANGED <<application, children, embedding, indexing, stray, detached, cut>>

AddApplication(c) ==
    /\ handler[c].pc = "add"
    /\ application' = [application EXCEPT ![handler[c].job] = "present"]
    /\ \E task \in {"none", "queued"} :
         indexing' = [indexing EXCEPT ![handler[c].job] = task]
    /\ Finish(c)
    /\ UNCHANGED <<job, children, embedding, stray, detached, cut>>

\* index_job reads the job, which must be there, ...
IndexReads(j) ==
    /\ indexing[j] = "queued"
    /\ indexing' = [indexing EXCEPT ![j] = IF job[j] = "present" THEN "read" ELSE "none"]
    /\ UNCHANGED <<job, application, children, embedding, handler, stray, detached, cut>>

\* ... finds nothing to delete, and stores the chunks or fails and is logged.
IndexStores(j) ==
    /\ indexing[j] = "read"
    /\ indexing' = [indexing EXCEPT ![j] = "none"]
    /\ \E stored \in BOOLEAN :
         /\ embedding' = [embedding EXCEPT ![j] = stored]
         /\ stray' = IF stored /\ TooLate(j, "embedding")
                     THEN [stray EXCEPT ![j] = @ \cup {"embedding"}] ELSE stray
    /\ UNCHANGED <<job, application, children, handler, detached, cut>>

-----------------------------------------------------------------------------
\* start_cover_letter, generate_outreach and create_interview read the
\* application (and start_cover_letter the job), start_mock_session reads the
\* interview; they insert several awaits, and perhaps a model call, later.

Create(c, j, kind) ==
    /\ application[j] = "present" \/ kind = "mock_session"
    /\ kind = "document" => job[j] = "present"
    /\ kind = "mock_session" => "interview" \in children[j]
    /\ Accept(c, "insert", j, kind)
    /\ UNCHANGED <<job, application, children, embedding, indexing, stray, detached, cut>>

Insert(c) ==
    /\ handler[c].pc = "insert"
    /\ LET j == handler[c].job
           kind == handler[c].kind
       IN  /\ children' = [children EXCEPT ![j] = @ \cup {kind}]
           /\ stray' = IF kind \in Removals /\ TooLate(j, kind)
                       THEN [stray EXCEPT ![j] = @ \cup {kind}] ELSE stray
    /\ Finish(c)
    /\ UNCHANGED <<job, application, embedding, indexing, detached, cut>>

\* delete_outreach_message, delete_interview, delete_mock_session
DeleteChild(c, j, kind) ==
    /\ Idle(c)
    /\ kind \in children[j] \ {"document"}
    /\ children' = [children EXCEPT ![j] = @ \ {kind}]
    /\ stray' = [stray EXCEPT ![j] = @ \ {kind}]
    /\ UNCHANGED <<job, application, embedding, indexing, handler, detached, cut>>

\* DELETE /applications: the application and nothing else.
DeleteApplication(c, j) ==
    /\ Idle(c)
    /\ application[j] = "present"
    /\ application' = [application EXCEPT ![j] = "deleted"]
    /\ detached' = detached \cup {j}
    /\ UNCHANGED <<job, children, embedding, indexing, handler, stray, cut>>

-----------------------------------------------------------------------------
\* delete_job

Continue(c) == handler' = [handler EXCEPT ![c].pc = Cascade[Place(@) + 1]]

\* The right to delete a job is read from its application.
DeleteJob(c, j) ==
    /\ job[j] = "present"
    /\ application[j] = "present"
    /\ Accept(c, Cascade[1], j, "none")
    /\ UNCHANGED <<job, application, children, embedding, indexing, stray, detached, cut>>

\* delete_for_application, and delete_many of messages and interviews
RemoveChildren(c) ==
    /\ handler[c].pc \in {"document", "message", "interview"}
    /\ LET j == handler[c].job
           kind == handler[c].pc
       IN  /\ children' = [children EXCEPT ![j] = @ \ {kind}]
           /\ stray' = [stray EXCEPT ![j] = @ \ {kind}]
    /\ Continue(c)
    /\ UNCHANGED <<job, application, embedding, indexing, detached, cut>>

RemoveApplication(c) ==
    /\ handler[c].pc = "application"
    /\ application' = [application EXCEPT ![handler[c].job] = "deleted"]
    /\ Continue(c)
    /\ UNCHANGED <<job, children, embedding, indexing, stray, detached, cut>>

\* A mutant: a failure of the vector store ends the request.
RemoveEmbeddingOrFail(c) ==
    /\ handler[c].pc = "embedding"
    /\ LET j == handler[c].job
       IN  \/ /\ embedding' = [embedding EXCEPT ![j] = FALSE]
              /\ stray' = [stray EXCEPT ![j] = @ \ {"embedding"}]
              /\ Continue(c)
           \/ /\ Finish(c)
              /\ UNCHANGED <<embedding, stray>>
    /\ UNCHANGED <<job, application, children, indexing, detached, cut>>

\* delete_job_embeddings: a failure of the vector store is logged, and what
\* is stored stays.
RemoveEmbedding(c) ==
    /\ handler[c].pc = "embedding"
    /\ LET j == handler[c].job
       IN  \/ /\ embedding' = [embedding EXCEPT ![j] = FALSE]
              /\ stray' = [stray EXCEPT ![j] = @ \ {"embedding"}]
           \/ /\ embedding[j]
              /\ stray' = [stray EXCEPT ![j] = @ \cup {"embedding"}]
              /\ UNCHANGED embedding
    /\ Continue(c)
    /\ UNCHANGED <<job, application, children, indexing, detached, cut>>

RemoveJob(c) ==
    /\ handler[c].pc = "job"
    /\ job' = [job EXCEPT ![handler[c].job] = "deleted"]
    /\ Finish(c)
    /\ UNCHANGED <<application, children, embedding, indexing, stray, detached, cut>>

-----------------------------------------------------------------------------
HalfWay(c) == handler[c].pc \in {"add", "embedding", "job"}

\* A call of the database raises: 500.
Fails(c) ==
    /\ handler[c].pc \notin {"idle", "embedding"}
    /\ cut' = IF HalfWay(c) THEN cut \cup {handler[c].job} ELSE cut
    /\ Finish(c)
    /\ UNCHANGED <<job, application, children, embedding, indexing, stray, detached>>

\* The server restarts; background tasks live in its memory.
Crash ==
    /\ handler' = [c \in Clients |-> NoHandler]
    /\ indexing' = [j \in Jobs |-> "none"]
    /\ cut' = cut \cup {handler[c].job : c \in {d \in Clients : HalfWay(d)}}
    /\ UNCHANGED <<job, application, children, embedding, stray, detached>>

UserStep(c) ==
    \E j \in Jobs :
      \/ AddJob(c, j) \/ DeleteJob(c, j) \/ DeleteApplication(c, j)
      \/ \E kind \in Kinds : Create(c, j, kind) \/ DeleteChild(c, j, kind)

ServerStep(c) ==
    \/ AddApplication(c) \/ Insert(c)
    \/ RemoveChildren(c) \/ RemoveApplication(c) \/ RemoveEmbedding(c) \/ RemoveJob(c)

Next ==
    \/ \E c \in Clients : UserStep(c) \/ ServerStep(c) \/ Fails(c)
    \/ \E j \in Jobs : IndexReads(j) \/ IndexStores(j)
    \/ Crash

Spec == Init /\ [][Next]_vars

-----------------------------------------------------------------------------
\* Types of the documents, tasks and handlers.
TypeOK ==
    /\ job \in [Jobs -> Presence]
    /\ application \in [Jobs -> Presence]
    /\ children \in [Jobs -> SUBSET Kinds]
    /\ embedding \in [Jobs -> BOOLEAN]
    /\ indexing \in [Jobs -> {"none", "queued", "read"}]
    /\ handler \in [Clients -> Handler]
    /\ stray \in [Jobs -> SUBSET (Kinds \cup {"embedding"})]
    /\ detached \subseteq Jobs
    /\ cut \subseteq Jobs

(***************************************************************************)
(* "A Job without an Application would be an orphan" (jobs.py:9), and no   *)
(* route could delete it.  Jobs and applications come and go together,     *)
(* save while a request is between the two, after one was cut off there,   *)
(* and after DELETE /applications; a failure of the vector store is no     *)
(* such excuse.  The other way round an application always has its job.    *)
(***************************************************************************)
JobsArePaired ==
    \A j \in Jobs :
      /\ application[j] = "present" => job[j] = "present"
      /\ job[j] = "present" /\ application[j] # "present" =>
           \/ j \in cut \cup detached
           \/ \E c \in Clients : handler[c].job = j /\ HalfWay(c)

(***************************************************************************)
(* When delete_job has removed the application, its documents, messages    *)
(* and interviews are gone, however often the cascade was cut short and    *)
(* repeated, and once the job is gone its embedding is: except for what a  *)
(* request or the indexing wrote after the cascade had passed that point,  *)
(* and an embedding that the vector store would not delete.                *)
(***************************************************************************)
NothingLeftBehind ==
    \A j \in Jobs \ detached :
      /\ application[j] = "deleted" => children[j] \ {"mock_session"} \subseteq stray[j]
      /\ job[j] = "deleted" /\ embedding[j] => "embedding" \in stray[j]
=============================================================================
