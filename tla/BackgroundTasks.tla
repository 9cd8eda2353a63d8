--------------------------- MODULE BackgroundTasks ---------------------------
(***************************************************************************)
(* Background tasks as their users see them: TaskService with its records  *)
(* in MongoDB, the endpoints submit, list and cancel of                    *)
(* api/routes/tasks.py, and the queue of Celery they send messages to.     *)
(* The worker of the delivered program has registered none of the task     *)
(* types that can be submitted and discards their messages, so no record   *)
(* is ever moved on by a worker.                                           *)
(***************************************************************************)
EXTENDS Naturals

CONSTANTS
    Clients,    \* browser tabs of one user
    Tasks,      \* uuid4 task ids: one per submission
    NoTask      \* no task

VARIABLES
    record,     \* task -> TaskRecord document
    message,    \* task -> its message in the queue of Celery
    handler,    \* client -> the handler of its request
    cut,        \* tasks whose submission the process did not survive (history)
    unreachable \* tasks cancelled without their message being revoked (history)

vars == <<record, message, handler, cut, unreachable>>

\* sent: does the record hold celery_task_id?
Record == [status : {"none", "queued", "failed", "cancelled"}, sent : BOOLEAN]

NoRecord == [status |-> "none", sent |-> FALSE]

Handler == [pc : {"idle", "create", "dispatch", "sent", "refused", "cancel"},
            task : Tasks \cup {NoTask}]

NoHandler == [pc |-> "idle", task |-> NoTask]

Init ==
    /\ record = [t \in Tasks |-> NoRecord]
    /\ message = [t \in Tasks |-> "none"]
    /\ handler = [c \in Clients |-> NoHandler]
    /\ cut = {}
    /\ unreachable = {}

Finish(c) == handler' = [handler EXCEPT ![c] = NoHandler]
Go(c, pc) == handler' = [handler EXCEPT ![c].pc = pc]
At(c, pc, t) == handler[c].pc = pc /\ handler[c].task = t

\* update_status sets the named fields of the stored record.
SetStatus(t, status) == record' = [record EXCEPT ![t].status = status]

-----------------------------------------------------------------------------
\* submit_task

Submit(c) ==
    /\ handler[c].pc = "idle"
    /\ \E t \in Tasks :
         /\ record[t] = NoRecord
         /\ \A d \in Clients : handler[d].task # t
         /\ handler' = [handler EXCEPT ![c] = [pc |-> "create", task |-> t]]
    /\ UNCHANGED <<record, message, cut, unreachable>>

Create(c, t) ==
    /\ At(c, "create", t)
    /\ SetStatus(t, "queued")
    /\ Go(c, "dispatch")
    /\ UNCHANGED <<message, cut, unreachable>>

\* send_task reaches the queue or raises.
Dispatch(c, t) ==
    /\ At(c, "dispatch", t)
    /\ \/ message' = [message EXCEPT ![t] = "queued"] /\ Go(c, "sent")
       \/ UNCHANGED message /\ Go(c, "refused")
    /\ UNCHANGED <<record, cut, unreachable>>

SaveSent(c, t) ==
    /\ At(c, "sent", t)
    /\ record' = [record EXCEPT ![t] = [status |-> "queued", sent |-> TRUE]]
    /\ Finish(c)
    /\ UNCHANGED <<message, cut, unreachable>>

\* A mutant: the exception is passed on and the record left as it is.
RefusedSilently(c, t) ==
    /\ At(c, "refused", t)
    /\ Finish(c)
    /\ UNCHANGED <<record, message, cut, unreachable>>

SaveRefused(c, t) ==
    /\ At(c, "refused", t)
    /\ SetStatus(t, "failed")
    /\ Finish(c)
    /\ UNCHANGED <<message, cut, unreachable>>

-----------------------------------------------------------------------------
\* cancel_task: a task is known to its user from the list as soon as its
\* record is stored.  Of a queued task the message is revoked if the record
\* holds its id; the broadcast may fail or meet no worker.  Other states are
\* answered as they are.

Cancel(c, t) ==
    /\ handler[c].pc = "idle"
    /\ record[t].status = "queued"
    /\ handler' = [handler EXCEPT ![c] = [pc |-> "cancel", task |-> t]]
    /\ \/ /\ record[t].sent /\ message[t] = "queued"
          /\ message' = [message EXCEPT ![t] = "revoked"]
          /\ UNCHANGED unreachable
       \/ /\ UNCHANGED message
          /\ unreachable' = unreachable \cup {t}
    /\ UNCHANGED <<record, cut>>

SaveCancelled(c, t) ==
    /\ At(c, "cancel", t)
    /\ SetStatus(t, "cancelled")
    /\ Finish(c)
    /\ UNCHANGED <<message, cut, unreachable>>

-----------------------------------------------------------------------------
\* External: the worker receives a message of a type it does not know.
Discard(t) ==
    /\ message[t] = "queued"
    /\ message' = [message EXCEPT ![t] = "discarded"]
    /\ UNCHANGED <<record, handler, cut, unreachable>>

\* External: the process is restarted; no handler goes on.
Restart ==
    /\ \E c \in Clients : handler[c].pc # "idle"
    /\ handler' = [c \in Clients |-> NoHandler]
    /\ cut' = cut \cup {handler[c].task : c \in {d \in Clients :
                         handler[d].pc \in {"dispatch", "sent", "refused"}}}
    /\ UNCHANGED <<record, message, unreachable>>

Next ==
    \/ \E c \in Clients :
         \/ Submit(c)
         \/ \E t \in Tasks :
              \/ Create(c, t) \/ Dispatch(c, t) \/ SaveSent(c, t) \/ SaveRefused(c, t)
              \/ Cancel(c, t) \/ SaveCancelled(c, t)
    \/ \E t \in Tasks : Discard(t)
    \/ Restart

Spec == Init /\ [][Next]_vars

-----------------------------------------------------------------------------
\* Records, messages and handlers have their types.
TypeOK ==
    /\ record \in [Tasks -> Record]
    /\ message \in [Tasks -> {"none", "queued", "revoked", "discarded"}]
    /\ handler \in [Clients -> Handler]
    /\ cut \subseteq Tasks
    /\ unreachable \subseteq Tasks

Submitting(t) == \E c \in Clients :
                   handler[c].pc \in {"dispatch", "sent", "refused"} /\ handler[c].task = t

\* Once its submission is over, a record agrees with the queue whatever
\* cancellations ran next to it: a task listed as queued has been sent, and
\* its record holds the id to revoke it by; one listed as failed has not; and
\* no message waits for a worker after its task was cancelled.  Excepted are
\* submissions the process did not survive and messages that a cancellation
\* could not revoke (submit_task and cancel_task).
RecordTellsMessage ==
    \A t \in Tasks :
      ~Submitting(t) /\ t \notin cut =>
        /\ record[t].status = "queued" => record[t].sent /\ message[t] # "none"
        /\ record[t].status = "failed" => message[t] = "none"
        /\ record[t].status = "cancelled" /\ message[t] = "queued" => t \in unreachable

\* Cancelled is one of the terminal states in which cancel_task takes no
\* action: no task leaves it.  The second update of submit_task does not ask,
\* so the code does not keep this and no run checks it.
CancelledStays ==
    [][\A t \in Tasks : record[t].status = "cancelled" => record'[t].status = "cancelled"]_vars
=============================================================================
