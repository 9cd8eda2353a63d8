---------------------------- MODULE Routes_proofs ----------------------------
(***************************************************************************)
(* The inductive invariants of the other six parts of Routes, and the      *)
(* theorems about all nine.  A step of one part leaves the variables of    *)
(* the others alone, so a step of Routes is a step or a stutter of every   *)
(* part, and each invariant holds whatever part is under way.              *)
(***************************************************************************)
EXTENDS RoutesSessions_proofs

-----------------------------------------------------------------------------
\* Background tasks: submit_task and cancel_task of task_service.py.

\* The request that is submitting a task, from the choice of its id on.
QueueOwns(c, t) ==
    /\ taskHandler[c].pc \in {"create", "dispatch", "sent", "refused"}
    /\ taskHandler[c].task = t

\* A request is about a task.
QueueNamed(c) == taskHandler[c].pc # "idle" => taskHandler[c].task \in TaskIds

\* A task has one submission.
QueueOneSubmitter ==
    \A t \in TaskIds : \A c, d \in Clients : QueueOwns(c, t) /\ QueueOwns(d, t) => c = d

\* What a handler may rely on at each of its awaits.
QueueHandlerOK(c, t) ==
    taskHandler[c].task = t =>
      /\ taskHandler[c].pc = "create" => task[t] = Queue!NoRecord
      /\ taskHandler[c].pc \in {"dispatch", "sent", "refused"} =>
           task[t].status \in {"queued", "cancelled"} /\ ~task[t].sent
      /\ taskHandler[c].pc \in {"dispatch", "refused"} => message[t] = "none"
      /\ taskHandler[c].pc = "sent" => message[t] \in {"queued", "discarded"}
      /\ taskHandler[c].pc = "cancel" =>
           /\ task[t].status # "none"
           /\ t \in unreachable \/ message[t] \in {"revoked", "discarded"}

\* A task without a record has no message.
QueueUnknown(t) == task[t].status = "none" => task[t] = Queue!NoRecord /\ message[t] = "none"

QueueInv ==
    /\ Queue!TypeOK
    /\ \A c \in Clients : QueueNamed(c)
    /\ QueueOneSubmitter
    /\ \A t \in TaskIds : QueueUnknown(t)
    /\ \A c \in Clients : \A t \in TaskIds : QueueHandlerOK(c, t)
    /\ Queue!RecordTellsMessage

\* No record, no message, no handler.
LEMMA QueueInit == Queue!Init => QueueInv
<1> SUFFICES ASSUME Queue!Init PROVE QueueInv
  OBVIOUS
<1>1. Queue!TypeOK
  BY DEF Queue!Init, Queue!TypeOK, Queue!Record, Queue!NoRecord, Queue!Handler, Queue!NoHandler
<1>2. QueueOneSubmitter /\ Queue!RecordTellsMessage /\ \A c \in Clients : QueueNamed(c)
  BY DEF Queue!Init, QueueOneSubmitter, QueueNamed, QueueOwns, Queue!RecordTellsMessage,
       Queue!NoRecord, Queue!NoHandler
<1>3. /\ \A t \in TaskIds : QueueUnknown(t)
      /\ \A c \in Clients : \A t \in TaskIds : QueueHandlerOK(c, t)
  BY DEF Queue!Init, QueueUnknown, QueueHandlerOK, Queue!NoRecord, Queue!NoHandler
<1>4. QED
  BY <1>1, <1>2, <1>3 DEF QueueInv

\* The id of a submission is new: no request has it, and it has no record.
LEMMA QueueSubmitPreserves ==
    ASSUME QueueInv, NEW c \in Clients, Queue!Submit(c)
    PROVE  QueueInv'
<1> USE DEF QueueInv, Queue!Submit
<1>1. Queue!TypeOK'
  BY DEF Queue!TypeOK, Queue!Record, Queue!Handler
<1>2. QueueOneSubmitter'
  BY DEF Queue!TypeOK, Queue!Handler, QueueOneSubmitter, QueueOwns, QueueHandlerOK, QueueUnknown,
       Queue!NoRecord
<1>3. ASSUME NEW u \in TaskIds PROVE QueueUnknown(u)'
  BY DEF Queue!TypeOK, Queue!Record, Queue!Handler, QueueUnknown, QueueHandlerOK, Queue!NoRecord
<1>4. ASSUME NEW d \in Clients, NEW u \in TaskIds PROVE QueueHandlerOK(d, u)'
  BY DEF Queue!TypeOK, Queue!Record, Queue!Handler, QueueHandlerOK, QueueUnknown,
       QueueOneSubmitter, QueueOwns, Queue!NoRecord,
         Queue!RecordTellsMessage, Queue!Submitting
<1>5. Queue!RecordTellsMessage'
  BY DEF Queue!TypeOK, Queue!Record, Queue!Handler, QueueHandlerOK, QueueUnknown,
       QueueOneSubmitter, QueueOwns, Queue!NoRecord,
         Queue!RecordTellsMessage, Queue!Submitting
<1>6. ASSUME NEW d \in Clients PROVE QueueNamed(d)'
  BY DEF Queue!TypeOK, Queue!Handler, QueueNamed
<1>7. QED
  BY <1>1, <1>2, <1>3, <1>4, <1>5, <1>6

\* The record is stored, and its request goes on to the queue.
LEMMA QueueCreatePreserves ==
    ASSUME QueueInv, NEW c \in Clients, NEW t \in TaskIds, Queue!Create(c, t)
    PROVE  QueueInv'
<1> USE DEF QueueInv, Queue!Create, Queue!At, Queue!SetStatus, Queue!Go
<1>1. Queue!TypeOK'
  BY DEF Queue!TypeOK, Queue!Record, Queue!Handler
<1>2. QueueOneSubmitter'
  <2>1. ASSUME NEW d \in Clients, NEW u \in TaskIds, QueueOwns(d, u)' PROVE QueueOwns(d, u)
    BY <2>1 DEF Queue!TypeOK, Queue!Handler, QueueOwns
  <2>2. QED
    BY <2>1 DEF QueueOneSubmitter
<1>3. ASSUME NEW u \in TaskIds PROVE QueueUnknown(u)'
  BY ZenonT(40) DEF Queue!TypeOK, Queue!Record, Queue!Handler, QueueUnknown, QueueHandlerOK, Queue!NoRecord
<1>4. ASSUME NEW d \in Clients, NEW u \in TaskIds PROVE QueueHandlerOK(d, u)'
  <2>1. QueueHandlerOK(d, u) /\ QueueHandlerOK(c, t) /\ QueueUnknown(t)
    OBVIOUS
  <2>2. CASE u # t
    BY <2>1, <2>2 DEF Queue!TypeOK, Queue!Record, Queue!Handler, QueueHandlerOK
  <2>3. CASE u = t /\ d = c
    BY <2>1, <2>3 DEF Queue!TypeOK, Queue!Record, Queue!Handler, QueueHandlerOK, QueueUnknown,
         Queue!NoRecord
  <2>4. CASE u = t /\ d # c
    <3>1. taskHandler'[d] = taskHandler[d] /\ ~(QueueOwns(c, t) /\ QueueOwns(d, t))
      BY <2>4 DEF Queue!TypeOK, QueueOneSubmitter
    <3>2. QED
      BY <2>1, <2>4, <3>1 DEF Queue!TypeOK, Queue!Record, Queue!Handler, QueueHandlerOK,
           QueueOwns, Queue!NoRecord
  <2>5. QED
    BY <2>2, <2>3, <2>4
<1>5. Queue!RecordTellsMessage'
  BY DEF Queue!TypeOK, Queue!Record, Queue!Handler, QueueHandlerOK, QueueUnknown,
       QueueOneSubmitter, QueueOwns, Queue!NoRecord,
         Queue!RecordTellsMessage, Queue!Submitting
<1>6. ASSUME NEW d \in Clients PROVE QueueNamed(d)'
  BY DEF Queue!TypeOK, Queue!Handler, QueueNamed
<1>7. QED
  BY <1>1, <1>2, <1>3, <1>4, <1>5, <1>6

\* The message is sent, or is not.
LEMMA QueueDispatchPreserves ==
    ASSUME QueueInv, NEW c \in Clients, NEW t \in TaskIds, Queue!Dispatch(c, t)
    PROVE  QueueInv'
<1> USE DEF QueueInv, Queue!Dispatch, Queue!At, Queue!Go
<1>1. Queue!TypeOK'
  <2>1. message' \in [TaskIds -> {"none", "queued", "revoked", "discarded"}]
    BY DEF Queue!TypeOK
  <2>2. taskHandler' \in [Clients -> Queue!Handler]
    BY DEF Queue!TypeOK, Queue!Handler
  <2>3. QED
    BY <2>1, <2>2 DEF Queue!TypeOK
<1>2. QueueOneSubmitter'
  <2>1. ASSUME NEW d \in Clients, NEW u \in TaskIds, QueueOwns(d, u)' PROVE QueueOwns(d, u)
    BY <2>1 DEF Queue!TypeOK, Queue!Handler, QueueOwns
  <2>2. QED
    BY <2>1 DEF QueueOneSubmitter
<1>3. ASSUME NEW u \in TaskIds PROVE QueueUnknown(u)'
  <2>1. QueueUnknown(u) /\ QueueHandlerOK(c, t)
    OBVIOUS
  <2>2. CASE u # t
    BY <2>1, <2>2 DEF Queue!TypeOK, QueueUnknown
  <2>3. CASE u = t
    BY <2>1, <2>3 DEF Queue!TypeOK, Queue!Record, QueueUnknown, QueueHandlerOK, Queue!NoRecord
  <2>4. QED
    BY <2>2, <2>3
<1>4. ASSUME NEW d \in Clients, NEW u \in TaskIds PROVE QueueHandlerOK(d, u)'
  BY DEF Queue!TypeOK, Queue!Record, Queue!Handler, QueueHandlerOK, QueueUnknown,
       QueueOneSubmitter, QueueOwns, Queue!NoRecord,
         Queue!RecordTellsMessage, Queue!Submitting
<1>5. Queue!RecordTellsMessage'
  <2>1. Queue!Submitting(t)'
    BY DEF Queue!TypeOK, Queue!Handler, Queue!Submitting
  <2>2. ASSUME NEW u \in TaskIds, u # t
        PROVE  /\ Queue!Submitting(u) => Queue!Submitting(u)'
               /\ task'[u] = task[u] /\ message'[u] = message[u]
    BY <2>2 DEF Queue!TypeOK, Queue!Handler, Queue!Submitting
  <2>3. QED
    BY <2>1, <2>2 DEF Queue!RecordTellsMessage
<1>6. ASSUME NEW d \in Clients PROVE QueueNamed(d)'
  BY DEF Queue!TypeOK, Queue!Handler, QueueNamed
<1>7. QED
  BY <1>1, <1>2, <1>3, <1>4, <1>5, <1>6

\* The submission ends with the id of its message in the record.
LEMMA QueueSaveSentPreserves ==
    ASSUME QueueInv, NEW c \in Clients, NEW t \in TaskIds, Queue!SaveSent(c, t)
    PROVE  QueueInv'
<1> USE DEF QueueInv, Queue!SaveSent, Queue!At, Queue!Finish, Queue!NoHandler
<1>1. Queue!TypeOK'
  BY DEF Queue!TypeOK, Queue!Record, Queue!Handler
<1>2. QueueOneSubmitter'
  <2>1. ASSUME NEW d \in Clients, NEW u \in TaskIds, QueueOwns(d, u)' PROVE QueueOwns(d, u)
    BY <2>1 DEF Queue!TypeOK, Queue!Handler, QueueOwns
  <2>2. QED
    BY <2>1 DEF QueueOneSubmitter
<1>3. ASSUME NEW u \in TaskIds PROVE QueueUnknown(u)'
  BY DEF Queue!TypeOK, Queue!Record, Queue!Handler, QueueUnknown, QueueHandlerOK, Queue!NoRecord
<1>4. ASSUME NEW d \in Clients, NEW u \in TaskIds PROVE QueueHandlerOK(d, u)'
  <2>1. QueueHandlerOK(d, u) /\ QueueHandlerOK(c, t) /\ QueueUnknown(t)
    OBVIOUS
  <2>2. CASE u # t
    BY <2>1, <2>2 DEF Queue!TypeOK, Queue!Record, Queue!Handler, QueueHandlerOK
  <2>3. CASE u = t /\ d = c
    BY <2>1, <2>3 DEF Queue!TypeOK, Queue!Record, Queue!Handler, QueueHandlerOK, QueueUnknown,
         Queue!NoRecord
  <2>4. CASE u = t /\ d # c
    <3>1. taskHandler'[d] = taskHandler[d] /\ ~(QueueOwns(c, t) /\ QueueOwns(d, t))
      BY <2>4 DEF Queue!TypeOK, QueueOneSubmitter
    <3>2. QED
      BY <2>1, <2>4, <3>1 DEF Queue!TypeOK, Queue!Record, Queue!Handler, QueueHandlerOK,
           QueueOwns, Queue!NoRecord
  <2>5. QED
    BY <2>2, <2>3, <2>4
<1>5. Queue!RecordTellsMessage'
  BY DEF Queue!TypeOK, Queue!Record, Queue!Handler, QueueHandlerOK, QueueUnknown,
       QueueOneSubmitter, QueueOwns, Queue!NoRecord,
         Queue!RecordTellsMessage, Queue!Submitting
<1>6. ASSUME NEW d \in Clients PROVE QueueNamed(d)'
  BY DEF Queue!TypeOK, Queue!Handler, QueueNamed
<1>7. QED
  BY <1>1, <1>2, <1>3, <1>4, <1>5, <1>6

\* The submission ends with no message sent.
LEMMA QueueSaveRefusedPreserves ==
    ASSUME QueueInv, NEW c \in Clients, NEW t \in TaskIds, Queue!SaveRefused(c, t)
    PROVE  QueueInv'
<1> USE DEF QueueInv, Queue!SaveRefused, Queue!At, Queue!SetStatus, Queue!Finish, Queue!NoHandler
<1>1. Queue!TypeOK'
  BY DEF Queue!TypeOK, Queue!Record, Queue!Handler
<1>2. QueueOneSubmitter'
  <2>1. ASSUME NEW d \in Clients, NEW u \in TaskIds, QueueOwns(d, u)' PROVE QueueOwns(d, u)
    BY <2>1 DEF Queue!TypeOK, Queue!Handler, QueueOwns
  <2>2. QED
    BY <2>1 DEF QueueOneSubmitter
<1>3. ASSUME NEW u \in TaskIds PROVE QueueUnknown(u)'
  <2>1. QueueUnknown(u) /\ QueueHandlerOK(c, t)
    OBVIOUS
  <2>2. CASE u # t
    BY <2>1, <2>2 DEF Queue!TypeOK, QueueUnknown
  <2>3. CASE u = t
    BY <2>1, <2>3 DEF Queue!TypeOK, Queue!Record, QueueUnknown, QueueHandlerOK, Queue!NoRecord
  <2>4. QED
    BY <2>2, <2>3
<1>4. ASSUME NEW d \in Clients, NEW u \in TaskIds PROVE QueueHandlerOK(d, u)'
  <2>1. QueueHandlerOK(d, u) /\ QueueHandlerOK(c, t) /\ QueueUnknown(t)
    OBVIOUS
  <2>2. CASE u # t
    BY <2>1, <2>2 DEF Queue!TypeOK, Queue!Record, Queue!Handler, QueueHandlerOK
  <2>3. CASE u = t /\ d = c
    BY <2>1, <2>3 DEF Queue!TypeOK, Queue!Record, Queue!Handler, QueueHandlerOK, QueueUnknown,
         Queue!NoRecord
  <2>4. CASE u = t /\ d # c
    <3>1. taskHandler'[d] = taskHandler[d] /\ ~(QueueOwns(c, t) /\ QueueOwns(d, t))
      BY <2>4 DEF Queue!TypeOK, QueueOneSubmitter
    <3>2. QED
      BY <2>1, <2>4, <3>1 DEF Queue!TypeOK, Queue!Record, Queue!Handler, QueueHandlerOK,
           QueueOwns, Queue!NoRecord
  <2>5. QED
    BY <2>2, <2>3, <2>4
<1>5. Queue!RecordTellsMessage'
  BY DEF Queue!TypeOK, Queue!Record, Queue!Handler, QueueHandlerOK, QueueUnknown,
       QueueOneSubmitter, QueueOwns, Queue!NoRecord,
         Queue!RecordTellsMessage, Queue!Submitting
<1>6. ASSUME NEW d \in Clients PROVE QueueNamed(d)'
  BY DEF Queue!TypeOK, Queue!Handler, QueueNamed
<1>7. QED
  BY <1>1, <1>2, <1>3, <1>4, <1>5, <1>6

\* A cancellation revokes the message, or the task is unreachable from then on.
LEMMA QueueCancelPreserves ==
    ASSUME QueueInv, NEW c \in Clients, NEW t \in TaskIds, Queue!Cancel(c, t)
    PROVE  QueueInv'
<1> USE DEF QueueInv, Queue!Cancel
<1>1. Queue!TypeOK'
  BY DEF Queue!TypeOK, Queue!Record, Queue!Handler
<1>2. QueueOneSubmitter'
  <2>1. ASSUME NEW d \in Clients, NEW u \in TaskIds, QueueOwns(d, u)' PROVE QueueOwns(d, u)
    BY <2>1 DEF Queue!TypeOK, Queue!Handler, QueueOwns
  <2>2. QED
    BY <2>1 DEF QueueOneSubmitter
<1>3. ASSUME NEW u \in TaskIds PROVE QueueUnknown(u)'
  BY DEF Queue!TypeOK, Queue!Record, Queue!Handler, QueueUnknown, QueueHandlerOK, Queue!NoRecord
<1>4. ASSUME NEW d \in Clients, NEW u \in TaskIds PROVE QueueHandlerOK(d, u)'
  BY DEF Queue!TypeOK, Queue!Record, Queue!Handler, QueueHandlerOK, QueueUnknown,
       QueueOneSubmitter, QueueOwns, Queue!NoRecord,
         Queue!RecordTellsMessage, Queue!Submitting
<1>5. Queue!RecordTellsMessage'
  BY DEF Queue!TypeOK, Queue!Record, Queue!Handler, QueueHandlerOK, QueueUnknown,
       QueueOneSubmitter, QueueOwns, Queue!NoRecord,
         Queue!RecordTellsMessage, Queue!Submitting
<1>6. ASSUME NEW d \in Clients PROVE QueueNamed(d)'
  BY DEF Queue!TypeOK, Queue!Handler, QueueNamed
<1>7. QED
  BY <1>1, <1>2, <1>3, <1>4, <1>5, <1>6

\* The record is overwritten, whatever the submission has made of it.
LEMMA QueueSaveCancelledPreserves ==
    ASSUME QueueInv, NEW c \in Clients, NEW t \in TaskIds, Queue!SaveCancelled(c, t)
    PROVE  QueueInv'
<1> USE DEF QueueInv, Queue!SaveCancelled, Queue!At, Queue!SetStatus, Queue!Finish, Queue!NoHandler
<1>1. Queue!TypeOK'
  BY DEF Queue!TypeOK, Queue!Record, Queue!Handler
<1>2. QueueOneSubmitter'
  <2>1. ASSUME NEW d \in Clients, NEW u \in TaskIds, QueueOwns(d, u)' PROVE QueueOwns(d, u)
    BY <2>1 DEF Queue!TypeOK, Queue!Handler, QueueOwns
  <2>2. QED
    BY <2>1 DEF QueueOneSubmitter
<1>3. ASSUME NEW u \in TaskIds PROVE QueueUnknown(u)'
  <2>1. QueueUnknown(u) /\ QueueHandlerOK(c, t)
    OBVIOUS
  <2>2. CASE u # t
    BY <2>1, <2>2 DEF Queue!TypeOK, QueueUnknown
  <2>3. CASE u = t
    BY <2>1, <2>3 DEF Queue!TypeOK, Queue!Record, QueueUnknown, QueueHandlerOK, Queue!NoRecord
  <2>4. QED
    BY <2>2, <2>3
<1>4. ASSUME NEW d \in Clients, NEW u \in TaskIds PROVE QueueHandlerOK(d, u)'
  <2>1. QueueHandlerOK(d, u) /\ QueueHandlerOK(c, t) /\ QueueUnknown(t)
    OBVIOUS
  <2>2. CASE u # t
    BY <2>1, <2>2 DEF Queue!TypeOK, Queue!Record, Queue!Handler, QueueHandlerOK
  <2>3. CASE u = t /\ d = c
    BY <2>1, <2>3 DEF Queue!TypeOK, Queue!Record, Queue!Handler, QueueHandlerOK, QueueUnknown,
         Queue!NoRecord
  <2>4. CASE u = t /\ d # c
    <3>1. taskHandler'[d] = taskHandler[d] /\ ~(QueueOwns(c, t) /\ QueueOwns(d, t))
      BY <2>4 DEF Queue!TypeOK, QueueOneSubmitter
    <3>2. QED
      BY <2>1, <2>4, <3>1 DEF Queue!TypeOK, Queue!Record, Queue!Handler, QueueHandlerOK,
           QueueOwns, Queue!NoRecord
  <2>5. QED
    BY <2>2, <2>3, <2>4
<1>5. Queue!RecordTellsMessage'
  BY DEF Queue!TypeOK, Queue!Record, Queue!Handler, QueueHandlerOK, QueueUnknown,
       QueueOneSubmitter, QueueOwns, Queue!NoRecord,
         Queue!RecordTellsMessage, Queue!Submitting
<1>6. ASSUME NEW d \in Clients PROVE QueueNamed(d)'
  BY DEF Queue!TypeOK, Queue!Handler, QueueNamed
<1>7. QED
  BY <1>1, <1>2, <1>3, <1>4, <1>5, <1>6

\* The worker takes a message that was sent.
LEMMA QueueDiscardPreserves ==
    ASSUME QueueInv, NEW t \in TaskIds, Queue!Discard(t)
    PROVE  QueueInv'
<1> USE DEF QueueInv, Queue!Discard
<1>1. Queue!TypeOK'
  BY DEF Queue!TypeOK, Queue!Record, Queue!Handler
<1>2. QueueOneSubmitter'
  <2>1. ASSUME NEW d \in Clients, NEW u \in TaskIds, QueueOwns(d, u)' PROVE QueueOwns(d, u)
    BY <2>1 DEF Queue!TypeOK, Queue!Handler, QueueOwns
  <2>2. QED
    BY <2>1 DEF QueueOneSubmitter
<1>3. ASSUME NEW u \in TaskIds PROVE QueueUnknown(u)'
  BY DEF Queue!TypeOK, Queue!Record, Queue!Handler, QueueUnknown, QueueHandlerOK, Queue!NoRecord
<1>4. ASSUME NEW d \in Clients, NEW u \in TaskIds PROVE QueueHandlerOK(d, u)'
  BY DEF Queue!TypeOK, Queue!Record, Queue!Handler, QueueHandlerOK, QueueUnknown,
       QueueOneSubmitter, QueueOwns, Queue!NoRecord,
         Queue!RecordTellsMessage, Queue!Submitting
<1>5. Queue!RecordTellsMessage'
  BY DEF Queue!TypeOK, Queue!Record, Queue!Handler, QueueHandlerOK, QueueUnknown,
       QueueOneSubmitter, QueueOwns, Queue!NoRecord,
         Queue!RecordTellsMessage, Queue!Submitting
<1>6. ASSUME NEW d \in Clients PROVE QueueNamed(d)'
  BY DEF Queue!TypeOK, Queue!Handler, QueueNamed
<1>7. QED
  BY <1>1, <1>2, <1>3, <1>4, <1>5, <1>6

\* Submissions that are cut off are remembered.
LEMMA QueueRestartPreserves ==
    ASSUME QueueInv, Queue!Restart
    PROVE  QueueInv'
<1> USE DEF QueueInv, Queue!Restart, Queue!NoHandler
<1>1. Queue!TypeOK'
  BY DEF Queue!TypeOK, Queue!Handler, QueueNamed
<1>2. QueueOneSubmitter'
  <2>1. ASSUME NEW d \in Clients, NEW u \in TaskIds, QueueOwns(d, u)' PROVE QueueOwns(d, u)
    BY <2>1 DEF Queue!TypeOK, Queue!Handler, QueueOwns
  <2>2. QED
    BY <2>1 DEF QueueOneSubmitter
<1>3. ASSUME NEW u \in TaskIds PROVE QueueUnknown(u)'
  BY DEF Queue!TypeOK, Queue!Record, Queue!Handler, QueueUnknown, QueueHandlerOK, Queue!NoRecord
<1>4. ASSUME NEW d \in Clients, NEW u \in TaskIds PROVE QueueHandlerOK(d, u)'
  BY DEF Queue!TypeOK, Queue!Record, Queue!Handler, QueueHandlerOK, QueueUnknown,
       QueueOneSubmitter, QueueOwns, Queue!NoRecord,
         Queue!RecordTellsMessage, Queue!Submitting
<1>5. Queue!RecordTellsMessage'
  BY DEF Queue!TypeOK, Queue!Record, Queue!Handler, QueueHandlerOK, QueueUnknown,
       QueueOneSubmitter, QueueOwns, Queue!NoRecord,
         Queue!RecordTellsMessage, Queue!Submitting
<1>6. ASSUME NEW d \in Clients PROVE QueueNamed(d)'
  BY DEF Queue!TypeOK, Queue!Handler, QueueNamed
<1>7. QED
  BY <1>1, <1>2, <1>3, <1>4, <1>5, <1>6

\* No step but those of Next.
LEMMA QueueStutterPreserves ==
    ASSUME QueueInv, UNCHANGED taskVars
    PROVE  QueueInv'
BY DEF QueueInv, taskVars, Queue!TypeOK, QueueNamed, QueueOneSubmitter, QueueOwns, QueueUnknown,
     QueueHandlerOK, Queue!RecordTellsMessage,
       Queue!Submitting

\* Every step preserves the invariant.
LEMMA QueueStep == QueueInv /\ [Queue!Next]_taskVars => QueueInv'
<1> SUFFICES ASSUME QueueInv, [Queue!Next]_taskVars PROVE QueueInv'
  OBVIOUS
<1>1. ASSUME NEW c \in Clients, Queue!Submit(c) PROVE QueueInv'
  BY <1>1, QueueSubmitPreserves
<1>2. ASSUME NEW c \in Clients, NEW t \in TaskIds,
             Queue!Create(c, t) \/ Queue!Dispatch(c, t) \/ Queue!SaveSent(c, t) \/ Queue!SaveRefused(c, t)
             \/ Queue!Cancel(c, t) \/ Queue!SaveCancelled(c, t)
      PROVE  QueueInv'
  BY <1>2, QueueCreatePreserves, QueueDispatchPreserves, QueueSaveSentPreserves,
       QueueSaveRefusedPreserves,
     QueueCancelPreserves, QueueSaveCancelledPreserves
<1>3. ASSUME NEW t \in TaskIds, Queue!Discard(t) PROVE QueueInv'
  BY <1>3, QueueDiscardPreserves
<1>4. CASE Queue!Restart
  BY <1>4, QueueRestartPreserves
<1>5. CASE UNCHANGED taskVars
  BY <1>5, QueueStutterPreserves
<1>6. QED
  BY <1>1, <1>2, <1>3, <1>4, <1>5 DEF Queue!Next

-----------------------------------------------------------------------------
\* Gmail's and the calendar's grants: integration_service.py and its task.

\* Every grant in use was issued, and a connected document has one.
GoogleIssued ==
    /\ connection.grant \in 0..issued
    /\ connection.status = "connected" => connection.grant # 0 /\ connection.stored
    /\ revoked \subseteq 1..issued
    /\ refresh.grant \in 0..issued
    /\ refresh.pc # "idle" => refresh.grant # 0

\* What a handler may rely on at each of its awaits.  A grant that is still to be
\* written is new: nobody else has seen it.
GoogleHandlerOK(c) ==
    LET h == connectionHandler[c]
    IN  /\ h.read.grant \in 0..issued
        /\ h.pc \in {"exchange", "write"} => h.read.grant = 0
        /\ h.pc = "revoke" => h.read.grant # 0
        /\ h.pc = "purge" => h.read.grant \in {0} \cup revoked \cup excused
        /\ h.grant \in 0..issued
        /\ h.pc # "write" => h.grant = 0
        /\ h.pc = "write" =>
             h.grant # 0 /\ h.grant \notin revoked \cup {connection.grant, refresh.grant}

GoogleUnshared ==
    \A c, d \in Clients :
      connectionHandler[c].pc = "write" =>
        /\ connectionHandler[c].grant # connectionHandler[d].read.grant
        /\ connectionHandler[c].grant = connectionHandler[d].grant => c = d

GoogleInv ==
    /\ Google!TypeOK
    /\ GoogleIssued
    /\ \A c \in Clients : GoogleHandlerOK(c)
    /\ GoogleUnshared
    /\ Google!GrantsAccounted
    /\ Google!ConnectedIsValid

\* The idle handler and the absent connection have their types.
LEMMA GoogleDefaults ==
    /\ Google!NoConnection \in Google!Connection
    /\ Google!NoHandler \in Google!Handler
    /\ Google!NoRefresh \in Google!Refresh
BY GrantsAssumption DEF Google!NoConnection, Google!Connection, Google!NoHandler, Google!Handler,
     Google!NoRefresh, Google!Refresh

\* Tokens nobody has seen are tokens that were issued.
LEMMA GoogleUnseenAreGrants ==
    ASSUME Google!TypeOK, NEW k
    PROVE  Google!Unseen(k) \subseteq Google!Grants
<1>1. connection.grant \in 0..MaxGrants
  BY DEF Google!TypeOK, Google!Connection
<1>2. QED
  BY <1>1, GrantsAssumption DEF Google!Unseen, Google!Grants

\* Nothing is connected and nothing issued.
LEMMA GoogleInit == Google!Init => GoogleInv
<1> SUFFICES ASSUME Google!Init PROVE GoogleInv
  OBVIOUS
<1> USE GrantsAssumption DEF Google!Init, Google!NoConnection, Google!NoHandler, Google!NoRefresh
<1>1. Google!TypeOK
  BY DEF Google!TypeOK, Google!Connection, Google!Handler, Google!Refresh
<1>2. GoogleIssued /\ GoogleUnshared /\ \A c \in Clients : GoogleHandlerOK(c)
  BY DEF GoogleIssued, GoogleHandlerOK, GoogleUnshared
<1>3. Google!GrantsAccounted /\ Google!ConnectedIsValid
  BY DEF Google!GrantsAccounted, Google!ConnectedIsValid
<1>4. QED
  BY <1>1, <1>2, <1>3 DEF GoogleInv

\* A handler that begins keeps the document as it is.
LEMMA GoogleStartPreserves ==
    ASSUME GoogleInv, NEW c \in Clients, Google!Callback(c) \/ Google!Disconnect(c)
    PROVE  GoogleInv'
<1> USE GrantsAssumption DEF GoogleInv
<1>0. /\ UNCHANGED <<connection, issued, revoked, refresh, excused, revived>>
      /\ \A d \in Clients : d # c => connectionHandler'[d] = connectionHandler[d]
      /\ connectionHandler[c].pc = "idle"
      /\ connectionHandler'[c].grant = 0
      /\ connectionHandler'[c].read = connection
      /\ \/ connectionHandler'[c].pc = "exchange" /\ connection.status # "connected"
         \/ connectionHandler'[c].pc = "revoke" /\ connection.status = "connected"
         \/ connectionHandler'[c].pc = "purge" /\ connection.status # "connected"
      /\ connectionHandler' \in [Clients -> Google!Handler]
  <2>1. connection \in Google!Connection /\ connectionHandler \in [Clients -> Google!Handler] /\ 0 \in 0..MaxGrants
    BY DEF Google!TypeOK
  <2>2. PICK pc \in {"exchange", "revoke", "purge"} :
          /\ connectionHandler' = [connectionHandler EXCEPT ![c] = [pc |-> pc, read |-> connection, grant |-> 0]]
          /\ pc = "exchange" => (connection.stored => connection.status # "connected")
          /\ pc = "revoke" => connection.status = "connected"
          /\ pc = "purge" => connection.status # "connected"
          /\ connectionHandler[c].pc = "idle"
          /\ UNCHANGED <<connection, issued, revoked, refresh, excused, revived>>
    BY DEF Google!Callback, Google!Disconnect, Google!Start, Google!NoHandler
  <2>3. [pc |-> pc, read |-> connection, grant |-> 0] \in Google!Handler
    BY <2>1 DEF Google!Handler
  <2>4. QED
    BY <2>1, <2>2, <2>3 DEF GoogleIssued
<1> USE <1>0
<1>1. Google!TypeOK'
  BY DEF Google!TypeOK
<1>2. GoogleIssued'
  BY DEF GoogleIssued
<1>3. (\A d \in Clients : GoogleHandlerOK(d))'
  BY DEF Google!TypeOK, Google!Connection, Google!Handler, GoogleIssued, GoogleHandlerOK,
       Google!ConnectedIsValid
<1>4. GoogleUnshared'
  BY DEF Google!TypeOK, Google!Connection, Google!Handler, GoogleIssued, GoogleHandlerOK,
       GoogleUnshared
<1>5. Google!GrantsAccounted'
  <2> SUFFICES ASSUME NEW g \in 1..issued \ excused PROVE Google!GrantsAccounted!(g)'
    BY DEF Google!GrantsAccounted
  <2>1. CASE connection.grant = g \/ g \in revoked
    BY <2>1
  <2>2. ASSUME NEW d \in Clients, connectionHandler[d].grant = g
        PROVE  connectionHandler'[d].grant = g
    BY <2>2 DEF Google!TypeOK, Google!Connection, Google!Handler, GoogleHandlerOK
  <2>3. QED
    BY <2>1, <2>2 DEF Google!GrantsAccounted
<1>6. Google!ConnectedIsValid'
  BY DEF Google!TypeOK, Google!Connection, Google!Handler, Google!ConnectedIsValid
<1>7. QED
  BY <1>1, <1>2, <1>3, <1>4, <1>5, <1>6

\* The grant that the provider issues is new.
LEMMA GoogleExchangePreserves ==
    ASSUME GoogleInv, NEW c \in Clients, Google!Exchange(c)
    PROVE  GoogleInv'
<1> USE GrantsAssumption DEF GoogleInv, Google!Exchange, Google!Finish, Google!NoHandler, Google!NoConnection
<1>1. Google!TypeOK'
  <2>1. connectionHandler' \in [Clients -> Google!Handler] /\ issued' \in 0..MaxGrants
    <3>1. CASE Google!Finish(c) /\ UNCHANGED issued
      BY <3>1, GoogleDefaults DEF Google!TypeOK, Google!Finish
    <3>2. CASE issued < MaxGrants /\ issued' = issued + 1
               /\ connectionHandler' = [connectionHandler EXCEPT ![c].pc = "write", ![c].grant = issued + 1]
      BY <3>2 DEF Google!TypeOK, Google!Handler
    <3>3. QED
      BY <3>1, <3>2
  <2>2. QED
    BY <2>1 DEF Google!TypeOK
<1>2. GoogleIssued'
  BY DEF Google!TypeOK, Google!Connection, Google!Refresh, GoogleIssued
<1>3. (\A d \in Clients : GoogleHandlerOK(d))'
  BY DEF Google!TypeOK, Google!Connection, Google!Handler, GoogleIssued, GoogleHandlerOK
<1>4. GoogleUnshared'
  BY DEF Google!TypeOK, Google!Connection, Google!Handler, GoogleIssued, GoogleHandlerOK,
       GoogleUnshared
<1>5. Google!GrantsAccounted'
  <2> SUFFICES ASSUME NEW g \in 1..issued' \ excused PROVE Google!GrantsAccounted!(g)'
    BY DEF Google!GrantsAccounted
  <2>1. CASE g = issued + 1
    BY <2>1 DEF Google!TypeOK, Google!Handler
  <2>2. CASE connection.grant = g \/ g \in revoked
    BY <2>2
  <2>3. ASSUME NEW d \in Clients, connectionHandler[d].grant = g, g # issued + 1
        PROVE  connectionHandler'[d].grant = g
    BY <2>3 DEF Google!TypeOK, Google!Connection, Google!Handler, GoogleHandlerOK
  <2>4. QED
    BY <2>1, <2>2, <2>3 DEF Google!GrantsAccounted, Google!TypeOK
<1>6. Google!ConnectedIsValid'
  BY SMTT(20) DEF Google!TypeOK, Google!Connection, Google!Handler, Google!ConnectedIsValid
<1>7. QED
  BY <1>1, <1>2, <1>3, <1>4, <1>5, <1>6

\* Whoever writes had read a document without tokens: what it writes over is excused.
LEMMA GoogleWritePreserves ==
    ASSUME GoogleInv, NEW c \in Clients, Google!Write(c)
    PROVE  GoogleInv'
<1> USE GrantsAssumption DEF GoogleInv, Google!Write, Google!Finish, Google!NoHandler, Google!NoConnection
<1>1. Google!TypeOK'
  <2>1. connectionHandler' \in [Clients -> Google!Handler]
    BY GoogleDefaults DEF Google!TypeOK, Google!Finish
  <2>2. connectionHandler[c].grant \in Google!Grants /\ connection.grant \in 0..MaxGrants
    BY DEF Google!TypeOK, Google!Connection, Google!Handler, GoogleIssued, GoogleHandlerOK,
         Google!Grants
  <2>3. connection' \in Google!Connection
    <3>1. [stored |-> TRUE, status |-> "connected", grant |-> connectionHandler[c].grant] \in Google!Connection
      BY <2>2 DEF Google!Connection, Google!Grants
    <3>2. QED
      BY <3>1 DEF Google!TypeOK
  <2>4. excused' \subseteq Google!Grants
    BY <2>2, GoogleUnseenAreGrants DEF Google!TypeOK
  <2>5. QED
    BY <2>1, <2>3, <2>4 DEF Google!TypeOK
<1>2. GoogleIssued'
  BY DEF Google!TypeOK, Google!Connection, Google!Handler, Google!Refresh, GoogleIssued,
       GoogleHandlerOK
<1>3. (\A d \in Clients : GoogleHandlerOK(d))'
  BY DEF Google!Unseen, Google!TypeOK, Google!Connection, Google!Handler, GoogleIssued,
       GoogleHandlerOK, GoogleUnshared
<1>4. GoogleUnshared'
  BY DEF Google!TypeOK, Google!Connection, Google!Handler, GoogleIssued, GoogleHandlerOK,
       GoogleUnshared
<1>5. Google!GrantsAccounted'
  <2> SUFFICES ASSUME NEW g \in 1..issued \ excused' PROVE Google!GrantsAccounted!(g)'
    BY DEF Google!GrantsAccounted
  <2>1. CASE connection.grant = g
    BY <2>1 DEF Google!TypeOK, Google!Handler, GoogleHandlerOK, Google!Unseen
  <2>2. CASE g \in revoked
    BY <2>2
  <2>3. CASE connectionHandler[c].grant = g
    BY <2>3 DEF Google!TypeOK, Google!Handler
  <2>4. ASSUME NEW d \in Clients, d # c, connectionHandler[d].grant = g
        PROVE  connectionHandler'[d].grant = g
    BY <2>4 DEF Google!TypeOK, Google!Handler
  <2>5. QED
    BY <2>1, <2>2, <2>3, <2>4 DEF Google!GrantsAccounted
<1>6. Google!ConnectedIsValid'
  BY DEF Google!TypeOK, Google!Connection, Google!Handler, GoogleHandlerOK, Google!ConnectedIsValid
<1>7. QED
  BY <1>1, <1>2, <1>3, <1>4, <1>5, <1>6

\* A grant that is revoked at the provider is about to be purged.
LEMMA GoogleRevokePreserves ==
    ASSUME GoogleInv, NEW c \in Clients, Google!Revoke(c)
    PROVE  GoogleInv'
<1> USE GrantsAssumption DEF GoogleInv, Google!Revoke
<1>1. Google!TypeOK'
  BY DEF Google!TypeOK, Google!Connection, Google!Handler, Google!Grants, GoogleIssued,
       GoogleHandlerOK
<1>2. GoogleIssued'
  BY DEF Google!TypeOK, Google!Connection, Google!Handler, GoogleIssued, GoogleHandlerOK
<1>3. (\A d \in Clients : GoogleHandlerOK(d))'
  BY DEF Google!TypeOK, Google!Connection, Google!Handler, GoogleIssued, GoogleHandlerOK,
       GoogleUnshared
<1>4. GoogleUnshared'
  BY DEF Google!TypeOK, Google!Connection, Google!Handler, GoogleIssued, GoogleHandlerOK,
       GoogleUnshared
<1>5. Google!GrantsAccounted'
  BY DEF Google!TypeOK, Google!Connection, Google!Handler, Google!GrantsAccounted
<1>6. Google!ConnectedIsValid'
  BY DEF Google!TypeOK, Google!Connection, Google!Handler, GoogleIssued, GoogleHandlerOK,
       Google!ConnectedIsValid
<1>7. QED
  BY <1>1, <1>2, <1>3, <1>4, <1>5, <1>6

\* What is purged was revoked, or is excused.
LEMMA GooglePurgePreserves ==
    ASSUME GoogleInv, NEW c \in Clients, Google!Purge(c)
    PROVE  GoogleInv'
<1> USE GrantsAssumption DEF GoogleInv, Google!Purge, Google!Finish, Google!NoHandler, Google!NoConnection
<1>1. Google!TypeOK'
  <2>1. connectionHandler' \in [Clients -> Google!Handler]
    BY GoogleDefaults DEF Google!TypeOK, Google!Finish
  <2>2. connection' \in Google!Connection
    <3>1. connection \in Google!Connection /\ 0 \in 0..MaxGrants
      BY DEF Google!TypeOK
    <3>2. [connection EXCEPT !.status = "disconnected", !.grant = 0] \in Google!Connection
      BY <3>1 DEF Google!Connection
    <3>3. QED
      BY <3>2
  <2>3. excused' \subseteq Google!Grants
    BY GoogleUnseenAreGrants DEF Google!TypeOK
  <2>4. QED
    BY <2>1, <2>2, <2>3 DEF Google!TypeOK
<1>2. GoogleIssued'
  BY DEF Google!TypeOK, Google!Connection, GoogleIssued
<1>3. (\A d \in Clients : GoogleHandlerOK(d))'
  BY DEF Google!Unseen, Google!TypeOK, Google!Connection, Google!Handler, GoogleIssued,
       GoogleHandlerOK
<1>4. GoogleUnshared'
  BY DEF Google!TypeOK, Google!Connection, Google!Handler, GoogleHandlerOK, GoogleUnshared
<1>5. Google!GrantsAccounted'
  BY DEF Google!Unseen, Google!TypeOK, Google!Connection, Google!Handler, GoogleIssued,
       GoogleHandlerOK, Google!GrantsAccounted
<1>6. Google!ConnectedIsValid'
  BY DEF Google!TypeOK, Google!Connection, Google!ConnectedIsValid
<1>7. QED
  BY <1>1, <1>2, <1>3, <1>4, <1>5, <1>6

\* The refresh lists, asks and gives up without a change to the document.
LEMMA GoogleAskPreserves ==
    ASSUME GoogleInv, Google!ListExpiring \/ Google!RefreshTokens \/ Google!RefreshFails
    PROVE  GoogleInv'
<1> USE GrantsAssumption DEF GoogleInv, Google!ListExpiring, Google!RefreshTokens, Google!RefreshFails, Google!OnlyRefresh, Google!NoRefresh
<1>1. Google!TypeOK'
  BY DEF Google!TypeOK, Google!Connection, Google!Refresh
<1>2. GoogleIssued'
  BY DEF Google!TypeOK, Google!Connection, Google!Refresh, GoogleIssued
<1>3. (\A d \in Clients : GoogleHandlerOK(d))'
  BY DEF Google!TypeOK, Google!Connection, Google!Refresh, GoogleIssued, GoogleHandlerOK
<1>4. GoogleUnshared' /\ Google!GrantsAccounted' /\ Google!ConnectedIsValid'
  BY DEF GoogleUnshared, Google!GrantsAccounted, Google!ConnectedIsValid
<1>5. QED
  BY <1>1, <1>2, <1>3, <1>4

\* The tokens that are stored belong to the grant the task had found; if the
\* document has another by now, that one is excused and this one revived.
LEMMA GoogleUpdateTokensPreserves ==
    ASSUME GoogleInv, Google!UpdateTokens
    PROVE  GoogleInv'
<1> USE GrantsAssumption DEF GoogleInv, Google!UpdateTokens, Google!OnlyRefresh, Google!NoRefresh
<1>1. Google!TypeOK'
  <2>1. refresh.grant \in Google!Grants /\ connection.grant \in 0..MaxGrants
    BY DEF Google!TypeOK, Google!Connection, Google!Refresh, Google!Grants, GoogleIssued
  <2>2. connection' \in Google!Connection /\ refresh' \in Google!Refresh
    BY <2>1, GoogleDefaults DEF Google!Connection, Google!Grants, Google!NoRefresh
  <2>3. excused' \subseteq Google!Grants /\ revived' \subseteq Google!Grants
    BY <2>1, GoogleUnseenAreGrants DEF Google!TypeOK
  <2>4. QED
    BY <2>2, <2>3 DEF Google!TypeOK
<1>2. GoogleIssued'
  BY DEF Google!TypeOK, Google!Connection, Google!Refresh, GoogleIssued
<1>3. (\A d \in Clients : GoogleHandlerOK(d))'
  BY DEF Google!Unseen, Google!TypeOK, Google!Connection, Google!Refresh, Google!Handler,
       GoogleIssued, GoogleHandlerOK
<1>4. GoogleUnshared'
  BY DEF GoogleUnshared
<1>5. Google!GrantsAccounted'
  BY DEF Google!Unseen, Google!TypeOK, Google!Connection, Google!Refresh, Google!GrantsAccounted
<1>6. Google!ConnectedIsValid'
  BY DEF Google!TypeOK, Google!Connection, Google!Refresh, GoogleIssued, Google!ConnectedIsValid
<1>7. QED
  BY <1>1, <1>2, <1>3, <1>4, <1>5, <1>6

\* What a handler held that is cut off is excused, or revived.
LEMMA GoogleCutPreserves ==
    ASSUME GoogleInv, NEW c \in Clients, Google!Cut(c)
    PROVE  GoogleInv'
<1> USE GrantsAssumption DEF GoogleInv, Google!Cut, Google!Finish, Google!NoHandler, Google!NoConnection
<1>1. Google!TypeOK'
  <2>1. connectionHandler' \in [Clients -> Google!Handler]
    BY GoogleDefaults DEF Google!TypeOK, Google!Finish
  <2>2. connectionHandler[c].grant \in 0..MaxGrants /\ connectionHandler[c].read.grant \in 0..MaxGrants
    BY DEF Google!TypeOK, Google!Connection, Google!Handler
  <2>3. ASSUME NEW x \in 0..MaxGrants PROVE {x} \ {0} \subseteq Google!Grants
    BY DEF Google!Grants
  <2>4. excused' \subseteq Google!Grants /\ revived' \subseteq Google!Grants
    BY <2>2, <2>3 DEF Google!TypeOK
  <2>5. QED
    BY <2>1, <2>4 DEF Google!TypeOK
<1>2. GoogleIssued'
  BY DEF Google!TypeOK, Google!Connection, GoogleIssued
<1>3. (\A d \in Clients : GoogleHandlerOK(d))'
  BY DEF Google!TypeOK, Google!Connection, Google!Handler, GoogleHandlerOK
<1>4. GoogleUnshared'
  BY DEF Google!TypeOK, Google!Connection, Google!Handler, GoogleHandlerOK, GoogleUnshared
<1>5. Google!GrantsAccounted'
  BY DEF Google!TypeOK, Google!Connection, Google!Handler, Google!GrantsAccounted
<1>6. Google!ConnectedIsValid'
  BY DEF Google!TypeOK, Google!Connection, Google!Handler, GoogleIssued, Google!ConnectedIsValid
<1>7. QED
  BY <1>1, <1>2, <1>3, <1>4, <1>5, <1>6

\* A step that changes nothing of the connection.
LEMMA GoogleStutterPreserves ==
    ASSUME GoogleInv, UNCHANGED connectionVars
    PROVE  GoogleInv'
BY DEF GoogleInv, connectionVars, Google!TypeOK, GoogleIssued, GoogleHandlerOK, GoogleUnshared,
     Google!GrantsAccounted, Google!ConnectedIsValid

\* Every step of the connection's requests and of the hourly task keeps the invariant.
LEMMA GoogleStep == GoogleInv /\ [Google!Next]_connectionVars => GoogleInv'
<1> SUFFICES ASSUME GoogleInv, [Google!Next]_connectionVars PROVE GoogleInv'
  OBVIOUS
<1>1. ASSUME NEW c \in Clients, Google!Callback(c) \/ Google!Disconnect(c) PROVE GoogleInv'
  BY <1>1, GoogleStartPreserves
<1>2. ASSUME NEW c \in Clients, Google!Exchange(c) PROVE GoogleInv'
  BY <1>2, GoogleExchangePreserves
<1>3. ASSUME NEW c \in Clients, Google!Write(c) PROVE GoogleInv'
  BY <1>3, GoogleWritePreserves
<1>4. ASSUME NEW c \in Clients, Google!Revoke(c) PROVE GoogleInv'
  BY <1>4, GoogleRevokePreserves
<1>5. ASSUME NEW c \in Clients, Google!Purge(c) PROVE GoogleInv'
  BY <1>5, GooglePurgePreserves
<1>6. ASSUME NEW c \in Clients, Google!Cut(c) PROVE GoogleInv'
  BY <1>6, GoogleCutPreserves
<1>7. CASE UNCHANGED connectionVars
  BY <1>7, GoogleStutterPreserves
<1>8. QED
  BY <1>1, <1>2, <1>3, <1>4, <1>5, <1>6, <1>7, GoogleAskPreserves, GoogleUpdateTokensPreserves
       DEF Google!Next

-----------------------------------------------------------------------------
\* Resumes: the routes of profile.py and the parse task.

\* What a request or its task may rely on.  A switch that nobody overtook finds
\* no master.
LibraryHandlerOK(r) ==
    LET q == resumeRequest[r]
    IN  /\ q.pc \in {"unset", "unset_all", "set"} => q.master
        /\ q.pc \in {"unset_all", "set", "reparse", "process", "skip"} => q.resume \in Resumes
        /\ Library!Switching(q) /\ ~q.overtaken => Library!Masters = {}

LibrarySingleMaster == ~crossedMasters => \A x, y \in Library!Masters : x = y

LibraryMasterOrReason == Library!Masters = {} => vacated \/ \E r \in Clients : Library!Switching(resumeRequest[r])

LibraryInv ==
    /\ Library!TypeOK
    /\ \A r \in Clients : LibraryHandlerOK(r)
    /\ LibrarySingleMaster
    /\ LibraryMasterOrReason
    /\ Library!StatusTells

\* The instance's count of a set is the library's.
LEMMA LibraryCountIsCardinality == ASSUME NEW S PROVE Library!Cardinality(S) = Cardinality(S)
BY DEF Library!Cardinality, Cardinality

\* The default records have their types, and a request that does nothing switches no master.
LEMMA LibraryDefaults ==
    /\ Library!NoResume \in Library!Resume
    /\ Library!NoRequest \in Library!Request
BY DEF Library!NoResume, Library!Resume, Library!Status, Library!NoRequest, Library!Request

\* No resume and no request.
LEMMA LibraryInit == Library!Init => LibraryInv
<1> SUFFICES ASSUME Library!Init PROVE LibraryInv
  OBVIOUS
<1>1. Library!TypeOK
  BY LibraryDefaults DEF Library!Init, Library!TypeOK
<1>2. Library!Stored = {} /\ Library!Masters = {}
  BY DEF Library!Init, Library!Stored, Library!Masters, Library!NoResume
<1>3. QED
  BY <1>1, <1>2 DEF Library!Init, LibraryInv, LibraryHandlerOK, Library!NoRequest,
       Library!Switching, LibrarySingleMaster, LibraryMasterOrReason,
                    Library!StatusTells

\* A handler that begins keeps the resumes as they are.
LEMMA LibraryBeginPreserves ==
    ASSUME LibraryInv, NEW r \in Clients, NEW q \in Library!Request, Library!Begin(r, q),
           UNCHANGED <<resume, crossedMasters, vacated, cutResumes>>,
           q.pc \in {"unset", "create", "unset_all", "reparse"},
           q.pc \in {"unset", "unset_all"} => q.master,
           q.pc = "create" => ~q.master,
           q.pc \in {"unset_all", "reparse"} => q.resume \in Resumes
    PROVE  LibraryInv'
<1> USE DEF LibraryInv, Library!Begin
<1>0. /\ resumeRequest'[r] = q
      /\ \A p \in Clients : p # r => resumeRequest'[p] = resumeRequest[p]
      /\ resumeRequest[r].pc = "idle"
      /\ Library!Stored' = Library!Stored /\ Library!Masters' = Library!Masters
  BY DEF Library!TypeOK, Library!Stored, Library!Masters
<1>1. Library!TypeOK'
  BY DEF Library!TypeOK
<1>2. (\A p \in Clients : LibraryHandlerOK(p))'
  BY <1>0 DEF LibraryHandlerOK, Library!Switching
<1>3. LibrarySingleMaster'
  BY <1>0 DEF LibrarySingleMaster
<1>4. LibraryMasterOrReason'
  BY <1>0 DEF LibraryMasterOrReason, Library!Switching
<1>5. Library!StatusTells'
  BY <1>0 DEF Library!StatusTells
<1>6. QED
  BY <1>1, <1>2, <1>3, <1>4, <1>5

\* upload_resume counts the versions; a master's upload clears the others first.
LEMMA LibraryUploadPreserves ==
    ASSUME LibraryInv, NEW r \in Clients, NEW master \in BOOLEAN, Library!Upload(r, master)
    PROVE  LibraryInv'
<1> DEFINE q == [Library!NoRequest EXCEPT !.pc = IF master THEN "unset" ELSE "create",
                                          !.version = Cardinality(Library!Stored) + 1, !.master = master]
<1>1. Cardinality(Library!Stored) + 1 \in Nat
  <2>1. IsFiniteSet(Library!Stored)
    BY ResumesAssumption, FS_Subset DEF Library!Stored
  <2>2. QED
    BY <2>1, FS_CardinalityType
<1>2. q \in Library!Request
  BY <1>1 DEF Library!Request, Library!NoRequest
<1>3. QED
  BY <1>2, LibraryCountIsCardinality, LibraryBeginPreserves DEF Library!Upload, Library!NoRequest

\* update_resume with is_master goes on to clear every master.
LEMMA LibraryMakeMasterPreserves ==
    ASSUME LibraryInv, NEW r \in Clients, NEW x \in Resumes, Library!MakeMaster(r, x)
    PROVE  LibraryInv'
<1> DEFINE q == [Library!NoRequest EXCEPT !.pc = "unset_all", !.resume = x, !.master = TRUE]
<1>1. q \in Library!Request
  BY DEF Library!Request, Library!NoRequest
<1>2. QED
  BY <1>1, LibraryBeginPreserves DEF Library!MakeMaster, Library!NoRequest

\* reparse_resume accepts a failed resume.
LEMMA LibraryReparsePreserves ==
    ASSUME LibraryInv, NEW r \in Clients, NEW x \in Resumes, Library!Reparse(r, x)
    PROVE  LibraryInv'
<1> DEFINE q == [Library!NoRequest EXCEPT !.pc = "reparse", !.resume = x]
<1>1. q \in Library!Request
  BY DEF Library!Request, Library!NoRequest
<1>2. QED
  BY <1>1, LibraryBeginPreserves DEF Library!Reparse, Library!NoRequest

\* After the update of all masters there is none, and the request is on its way
\* to set one.
LEMMA LibraryUnsetPreserves ==
    ASSUME LibraryInv, NEW r \in Clients, Library!Unset(r)
    PROVE  LibraryInv'
<1> USE DEF LibraryInv, Library!Unset, Library!Goto
<1>1. Library!TypeOK'
  <2>1. resume' \in [Resumes -> Library!Resume]
    BY DEF Library!TypeOK, Library!Resume
  <2>2. resumeRequest' \in [Clients -> Library!Request]
    BY DEF Library!TypeOK, Library!Request
  <2>3. QED
    BY <2>1, <2>2 DEF Library!TypeOK
<1>2. Library!Masters' = {} /\ Library!Stored' = Library!Stored
  BY DEF Library!TypeOK, Library!Stored, Library!Masters, Library!Resume
<1>3. (\A p \in Clients : LibraryHandlerOK(p))'
  BY <1>2 DEF Library!TypeOK, Library!Request, LibraryHandlerOK
<1>4. LibrarySingleMaster'
  BY <1>2 DEF LibrarySingleMaster
<1>5. LibraryMasterOrReason'
  <2>1. Library!Switching(resumeRequest'[r])
    BY DEF Library!TypeOK, Library!Request, LibraryHandlerOK, Library!Switching
  <2>2. QED
    BY <2>1 DEF LibraryMasterOrReason
<1>6. Library!StatusTells'
  BY <1>2 DEF Library!TypeOK, Library!Resume, Library!Request, Library!Stored, Library!StatusTells
<1>7. QED
  BY <1>1, <1>3, <1>4, <1>5, <1>6

\* Who overtakes leaves every other request where it is.
LEMMA LibraryOvertakeKeeps ==
    ASSUME Library!TypeOK, NEW r \in Clients, NEW next \in Library!Request, NEW master \in BOOLEAN,
           Library!Overtake(r, next, master)
    PROVE  /\ resumeRequest' \in [Clients -> Library!Request]
           /\ resumeRequest'[r] = next
           /\ \A q \in Clients \ {r} :
                /\ resumeRequest'[q].pc = resumeRequest[q].pc
                /\ resumeRequest'[q].master = resumeRequest[q].master
                /\ resumeRequest'[q].resume = resumeRequest[q].resume
                /\ Library!Switching(resumeRequest'[q]) <=> Library!Switching(resumeRequest[q])
                /\ resumeRequest'[q].overtaken =
                     (resumeRequest[q].overtaken \/ (master /\ Library!Switching(resumeRequest[q])))
BY DEF Library!TypeOK, Library!Request, Library!Overtake, Library!Switching

\* A new resume: a master is the only one, unless the request was overtaken.
LEMMA LibraryCreatePreserves ==
    ASSUME LibraryInv, NEW r \in Clients, Library!Create(r)
    PROVE  LibraryInv'
<1> PICK x \in Resumes :
      /\ resume[x].stored = "absent"
      /\ resume' = [resume EXCEPT ![x] =
            [stored |-> "present", version |-> resumeRequest[r].version,
             master |-> resumeRequest[r].master, parse |-> "pending"]]
      /\ Library!Overtake(r, [Library!NoRequest EXCEPT !.pc = "process", !.resume = x], resumeRequest[r].master)
      /\ crossedMasters' = (crossedMasters \/ resumeRequest[r].overtaken)
      /\ vacated' = (vacated /\ ~resumeRequest[r].master)
  BY DEF Library!Create
<1> USE DEF LibraryInv
<1> DEFINE next == [Library!NoRequest EXCEPT !.pc = "process", !.resume = x]
<1>0. /\ resumeRequest[r] \in Library!Request
      /\ resumeRequest[r].master \in BOOLEAN
      /\ next \in Library!Request
      /\ resumeRequest[r].pc = "create" /\ UNCHANGED cutResumes
  BY DEF Library!TypeOK, Library!Request, Library!NoRequest, Library!Create
<1>1. /\ resumeRequest' \in [Clients -> Library!Request]
      /\ resumeRequest'[r] = next
      /\ \A q \in Clients \ {r} :
           /\ resumeRequest'[q].pc = resumeRequest[q].pc
           /\ resumeRequest'[q].master = resumeRequest[q].master
           /\ resumeRequest'[q].resume = resumeRequest[q].resume
           /\ Library!Switching(resumeRequest'[q]) <=> Library!Switching(resumeRequest[q])
           /\ resumeRequest'[q].overtaken =
                (resumeRequest[q].overtaken \/ (resumeRequest[r].master /\ Library!Switching(resumeRequest[q])))
  BY <1>0, LibraryOvertakeKeeps
<1>2. Library!TypeOK'
  BY <1>0, <1>1 DEF Library!TypeOK, Library!Request, Library!Resume, Library!Status
<1>3. /\ Library!Stored' = Library!Stored \cup {x}
      /\ Library!Masters' = IF resumeRequest[r].master THEN Library!Masters \cup {x} ELSE Library!Masters
      /\ \A y \in Library!Stored : resume'[y] = resume[y]
  BY <1>0 DEF Library!TypeOK, Library!Resume, Library!Stored, Library!Masters
<1>4. resumeRequest'[r].pc = "process" /\ resumeRequest'[r].resume = x
  BY <1>1 DEF Library!NoRequest
<1>5. (\A p \in Clients : LibraryHandlerOK(p))'
  <2> SUFFICES ASSUME NEW p \in Clients PROVE LibraryHandlerOK(p)'
    OBVIOUS
  <2>1. CASE p = r
    BY <2>1, <1>4 DEF LibraryHandlerOK, Library!Switching
  <2>2. CASE p # r
    BY <2>2, <1>1, <1>3 DEF LibraryHandlerOK, Library!Switching
  <2>3. QED
    BY <2>1, <2>2
<1>6. LibrarySingleMaster'
  <2>1. CASE resumeRequest[r].master /\ ~crossedMasters'
    BY <2>1, <1>0, <1>3 DEF LibrarySingleMaster, LibraryHandlerOK, Library!Switching
  <2>2. CASE ~resumeRequest[r].master
    BY <2>2, <1>3 DEF LibrarySingleMaster
  <2>3. QED
    BY <2>1, <2>2 DEF LibrarySingleMaster
<1>7. LibraryMasterOrReason'
  BY <1>0, <1>1, <1>3 DEF LibraryMasterOrReason, Library!Switching
<1>8. Library!StatusTells'
  <2> SUFFICES ASSUME NEW y \in Library!Stored' \ cutResumes, resume'[y].parse \in {"pending", "processing"}
               PROVE  \E p \in Clients :
                        resumeRequest'[p].resume = y /\ resumeRequest'[p].pc \in {"process", "skip"}
    BY <1>0 DEF Library!StatusTells
  <2>1. CASE y = x
    BY <2>1, <1>4
  <2>2. CASE y \in Library!Stored
    BY <2>2, <1>0, <1>1, <1>3 DEF Library!StatusTells
  <2>3. QED
    BY <2>1, <2>2, <1>3
<1>9. QED
  BY <1>2, <1>5, <1>6, <1>7, <1>8

\* The second write of update_resume.
LEMMA LibrarySetMasterPreserves ==
    ASSUME LibraryInv, NEW r \in Clients, Library!SetMaster(r)
    PROVE  LibraryInv'
<1> DEFINE x == resumeRequest[r].resume
<1> USE DEF LibraryInv
<1>0. /\ resumeRequest[r] \in Library!Request /\ resumeRequest[r].pc = "set" /\ resumeRequest[r].master
      /\ x \in Resumes
      /\ UNCHANGED cutResumes
      /\ crossedMasters' = (crossedMasters \/ resumeRequest[r].overtaken)
      /\ vacated' = (x \notin Library!Stored)
  BY DEF Library!TypeOK, Library!SetMaster, LibraryHandlerOK
<1>1. CASE x \in Library!Stored
  <2>0. /\ Library!Overtake(r, Library!NoRequest, TRUE)
        /\ resume' = [resume EXCEPT ![x].master = TRUE]
    BY <1>1 DEF Library!SetMaster, Library!Update
  <2>1. /\ resumeRequest' \in [Clients -> Library!Request]
        /\ resumeRequest'[r] = Library!NoRequest
        /\ \A q \in Clients \ {r} :
             /\ resumeRequest'[q].pc = resumeRequest[q].pc
             /\ resumeRequest'[q].master = resumeRequest[q].master
             /\ resumeRequest'[q].resume = resumeRequest[q].resume
             /\ Library!Switching(resumeRequest'[q]) <=> Library!Switching(resumeRequest[q])
             /\ resumeRequest'[q].overtaken = (resumeRequest[q].overtaken \/ Library!Switching(resumeRequest[q]))
    BY <2>0, LibraryDefaults, LibraryOvertakeKeeps
  <2>2. Library!TypeOK'
    <3>1. resume' \in [Resumes -> Library!Resume]
      BY <1>0, <2>0 DEF Library!TypeOK, Library!Resume
    <3>2. QED
      BY <1>0, <2>1, <3>1 DEF Library!TypeOK, Library!Request
  <2>3. /\ Library!Stored' = Library!Stored
        /\ Library!Masters' = Library!Masters \cup {x}
        /\ \A y \in Library!Stored : resume'[y].parse = resume[y].parse
    BY <1>0, <1>1, <2>0 DEF Library!TypeOK, Library!Resume, Library!Stored, Library!Masters
  <2>4. (\A p \in Clients : LibraryHandlerOK(p))'
    <3> SUFFICES ASSUME NEW p \in Clients PROVE LibraryHandlerOK(p)'
      OBVIOUS
    <3>1. CASE p = r
      BY <2>1, <3>1 DEF LibraryHandlerOK, Library!Switching, Library!NoRequest
    <3>2. CASE p # r
      BY <2>1, <2>3, <3>2 DEF LibraryHandlerOK
    <3>3. QED
      BY <3>1, <3>2
  <2>5. LibrarySingleMaster'
    BY <1>0, <2>3 DEF LibrarySingleMaster, LibraryHandlerOK, Library!Switching
  <2>6. LibraryMasterOrReason'
    BY <2>3 DEF LibraryMasterOrReason
  <2>7. Library!StatusTells'
    BY <1>0, <2>1, <2>3 DEF Library!StatusTells
  <2>8. QED
    BY <2>2, <2>4, <2>5, <2>6, <2>7
<1>2. CASE x \notin Library!Stored
  <2>0. Library!Finish(r) /\ resume' = resume
    BY <1>2 DEF Library!SetMaster, Library!Update
  <2>1. Library!Stored' = Library!Stored /\ Library!Masters' = Library!Masters
    BY <2>0 DEF Library!Stored, Library!Masters
  <2>2. Library!TypeOK'
    BY <1>0, <2>0, LibraryDefaults DEF Library!TypeOK, Library!Finish
  <2>3. (\A p \in Clients : LibraryHandlerOK(p))'
    BY <2>0, <2>1 DEF Library!TypeOK, LibraryHandlerOK, Library!Switching, Library!Finish,
         Library!NoRequest
  <2>4. LibrarySingleMaster' /\ LibraryMasterOrReason'
    BY <1>0, <1>2, <2>1 DEF LibrarySingleMaster, LibraryMasterOrReason
  <2>5. Library!StatusTells'
    BY <1>0, <2>0, <2>1 DEF Library!TypeOK, Library!StatusTells, Library!Finish
  <2>6. QED
    BY <2>2, <2>3, <2>4, <2>5
<1>3. QED
  BY <1>1, <1>2

\* Giving the master up and deleting a resume.
LEMMA LibraryDropMasterPreserves ==
    ASSUME LibraryInv, NEW r \in Clients, NEW x \in Resumes, Library!DropMaster(r, x)
    PROVE  LibraryInv'
<1> USE DEF LibraryInv, Library!DropMaster
<1>1. Library!TypeOK'
  BY DEF Library!TypeOK, Library!Resume
<1>2. /\ Library!Stored' = Library!Stored
      /\ Library!Masters' = Library!Masters \ {x}
      /\ \A y \in Library!Stored : resume'[y].parse = resume[y].parse
  BY DEF Library!TypeOK, Library!Resume, Library!Stored, Library!Masters
<1>3. (\A p \in Clients : LibraryHandlerOK(p))'
  BY <1>2 DEF LibraryHandlerOK
<1>4. LibrarySingleMaster' /\ LibraryMasterOrReason'
  BY <1>2 DEF LibrarySingleMaster, LibraryMasterOrReason
<1>5. Library!StatusTells'
  BY <1>2 DEF Library!StatusTells
<1>6. QED
  BY <1>1, <1>3, <1>4, <1>5

\* A delete may take the master away, and says so in "vacated".
LEMMA LibraryDeletePreserves ==
    ASSUME LibraryInv, NEW r \in Clients, NEW x \in Resumes, Library!Delete(r, x)
    PROVE  LibraryInv'
<1> USE DEF LibraryInv, Library!Delete
<1>1. Library!TypeOK'
  BY DEF Library!TypeOK, Library!Resume, Library!NoResume, Library!Status
<1>2. /\ Library!Stored' = Library!Stored \ {x}
      /\ Library!Masters' = Library!Masters \ {x}
      /\ \A y \in Library!Stored \ {x} : resume'[y] = resume[y]
  BY DEF Library!TypeOK, Library!Resume, Library!Stored, Library!Masters, Library!NoResume
<1>3. (\A p \in Clients : LibraryHandlerOK(p))'
  BY <1>2 DEF LibraryHandlerOK
<1>4. LibrarySingleMaster' /\ LibraryMasterOrReason'
  BY <1>2 DEF LibrarySingleMaster, LibraryMasterOrReason
<1>5. Library!StatusTells'
  BY <1>2 DEF Library!StatusTells
<1>6. QED
  BY <1>1, <1>3, <1>4, <1>5

\* A write of the status, by a handler or a task that goes on at "pc".
LEMMA LibraryStatusPreserves ==
    ASSUME LibraryInv, NEW r \in Clients, NEW status \in Library!Status, NEW next \in Library!Request,
           resume' = Library!Update(resumeRequest[r].resume, "parse", status),
           resumeRequest' = [resumeRequest EXCEPT ![r] = next],
           resumeRequest[r].pc \in {"reparse", "process", "skip"},
           UNCHANGED <<crossedMasters, vacated, cutResumes>>,
           \/ next.pc \in {"process", "skip"} /\ next.resume = resumeRequest[r].resume
           \/ next.pc = "idle" /\ status \in {"skipped", "failed"}
    PROVE  LibraryInv'
<1> DEFINE x == resumeRequest[r].resume
<1> USE DEF LibraryInv
<1>0. x \in Resumes
  BY DEF LibraryHandlerOK
<1>1. resume' \in [Resumes -> Library!Resume]
  BY <1>0 DEF Library!TypeOK, Library!Resume, Library!Update
<1>2. /\ Library!Stored' = Library!Stored
      /\ Library!Masters' = Library!Masters
      /\ \A y \in Library!Stored : resume'[y].parse = IF y = x THEN status ELSE resume[y].parse
  BY <1>0 DEF Library!TypeOK, Library!Resume, Library!Stored, Library!Masters, Library!Update
<1>3. Library!TypeOK'
  BY <1>1 DEF Library!TypeOK
<1>4. /\ resumeRequest'[r] = next
      /\ \A p \in Clients : p # r => resumeRequest'[p] = resumeRequest[p]
  BY DEF Library!TypeOK
<1>5. (\A p \in Clients : LibraryHandlerOK(p))'
  BY <1>0, <1>2, <1>4 DEF LibraryHandlerOK, Library!Switching
<1>6. LibrarySingleMaster' /\ LibraryMasterOrReason'
  BY <1>2, <1>4 DEF LibrarySingleMaster, LibraryMasterOrReason, Library!Switching
<1>7. Library!StatusTells'
  <2> SUFFICES ASSUME NEW y \in Library!Stored \ cutResumes, resume'[y].parse \in {"pending", "processing"}
               PROVE  \E p \in Clients :
                        resumeRequest'[p].resume = y /\ resumeRequest'[p].pc \in {"process", "skip"}
    BY <1>2 DEF Library!StatusTells
  <2>1. CASE y = x
    BY <2>1, <1>2, <1>4
  <2>2. CASE y # x
    BY <2>2, <1>2, <1>4 DEF Library!StatusTells
  <2>3. QED
    BY <2>1, <2>2
<1>8. QED
  BY <1>3, <1>5, <1>6, <1>7

\* The steps of the background task, and of the request that queues it.
LEMMA LibraryTaskPreserves ==
    ASSUME LibraryInv, NEW r \in Clients, Library!Queue(r) \/ Library!Process(r) \/ Library!Skip(r)
    PROVE  LibraryInv'
<1>0. Library!TypeOK
  BY DEF LibraryInv
<1>1. CASE Library!Queue(r)
  <2>1. PICK next \in Library!Request : next = [resumeRequest[r] EXCEPT !.pc = "process"]
    BY <1>0 DEF Library!TypeOK, Library!Request
  <2>2. resumeRequest' = [resumeRequest EXCEPT ![r] = next]
    BY <1>1, <1>0, <2>1 DEF Library!Queue, Library!SetStatus, Library!Goto, Library!TypeOK
  <2>3. next.pc = "process" /\ next.resume = resumeRequest[r].resume
    BY <1>0, <2>1 DEF Library!TypeOK, Library!Request
  <2>4. QED
    BY <1>1, <2>2, <2>3, LibraryStatusPreserves DEF Library!Queue, Library!SetStatus, Library!Status
<1>2. CASE Library!Process(r)
  <2>1. PICK next \in Library!Request : next = [resumeRequest[r] EXCEPT !.pc = "skip"]
    BY <1>0 DEF Library!TypeOK, Library!Request
  <2>2. resumeRequest' = [resumeRequest EXCEPT ![r] = next]
    BY <1>2, <1>0, <2>1 DEF Library!Process, Library!SetStatus, Library!Goto, Library!TypeOK
  <2>3. next.pc = "skip" /\ next.resume = resumeRequest[r].resume
    BY <1>0, <2>1 DEF Library!TypeOK, Library!Request
  <2>4. QED
    BY <1>2, <2>2, <2>3, LibraryStatusPreserves DEF Library!Process, Library!SetStatus,
         Library!Status
<1>3. CASE Library!Skip(r)
  <2>1. Library!NoRequest.pc = "idle"
    BY DEF Library!NoRequest
  <2>2. QED
    BY <1>3, <2>1, LibraryDefaults, LibraryStatusPreserves DEF Library!Skip, Library!SetStatus,
         Library!Finish, Library!Status
<1>4. QED
  BY <1>1, <1>2, <1>3

\* A request that ends without a write, whose resume is cut off if it had a task.
LEMMA LibraryEndPreserves ==
    ASSUME LibraryInv, NEW R \in SUBSET Clients,
           resumeRequest' = [r \in Clients |-> IF r \in R THEN Library!NoRequest ELSE resumeRequest[r]],
           vacated' = (vacated \/ \E r \in R : Library!Switching(resumeRequest[r])),
           cutResumes' = cutResumes \cup {resumeRequest[r].resume : r \in
                                          {q \in R : resumeRequest[q].pc \in {"process", "skip"}}},
           UNCHANGED <<resume, crossedMasters>>
    PROVE  LibraryInv'
<1> USE DEF LibraryInv
<1>1. Library!TypeOK'
  BY LibraryDefaults DEF Library!TypeOK, LibraryHandlerOK
<1>2. Library!Stored' = Library!Stored /\ Library!Masters' = Library!Masters
  BY DEF Library!Stored, Library!Masters
<1>3. (\A p \in Clients : LibraryHandlerOK(p))'
  BY <1>2 DEF LibraryHandlerOK, Library!Switching, Library!NoRequest
<1>4. LibrarySingleMaster' /\ LibraryMasterOrReason'
  BY <1>2 DEF LibrarySingleMaster, LibraryMasterOrReason
<1>5. Library!StatusTells'
  BY <1>2 DEF Library!StatusTells
<1>6. QED
  BY <1>1, <1>3, <1>4, <1>5

\* A parse that raises marks its resume, or fails to and leaves it to "cut".
LEMMA LibraryTaskFailsPreserves ==
    ASSUME LibraryInv, NEW r \in Clients, Library!TaskFails(r)
    PROVE  LibraryInv'
<1>0. resumeRequest[r].pc \in {"process", "skip"} /\ Library!NoRequest.pc = "idle"
  BY DEF Library!TaskFails, Library!NoRequest
<1>1. CASE resume' = Library!Update(resumeRequest[r].resume, "parse", "failed") /\ UNCHANGED cutResumes
  BY <1>0, <1>1, LibraryDefaults, LibraryStatusPreserves DEF Library!TaskFails, Library!Finish,
       Library!Status
<1>2. CASE cutResumes' = cutResumes \cup {resumeRequest[r].resume} /\ UNCHANGED resume
  <2>1. resumeRequest' = [p \in Clients |-> IF p \in {r} THEN Library!NoRequest ELSE resumeRequest[p]]
    BY DEF LibraryInv, Library!TypeOK, Library!TaskFails, Library!Finish
  <2>2. ~ \E p \in {r} : Library!Switching(resumeRequest[p])
    BY <1>0 DEF Library!Switching
  <2>3. {resumeRequest[p].resume : p \in {q \in {r} : resumeRequest[q].pc \in {"process", "skip"}}}
          = {resumeRequest[r].resume}
    BY <1>0
  <2>4. vacated' = (vacated \/ \E p \in {r} : Library!Switching(resumeRequest[p]))
    BY <2>2 DEF LibraryInv, Library!TypeOK, Library!TaskFails
  <2>5. QED
    BY ZenonT(40), <1>2, <2>1, <2>3, <2>4, LibraryEndPreserves DEF Library!TaskFails
<1>3. QED
  BY <1>1, <1>2 DEF Library!TaskFails

\* Requests fail or the server restarts: a switch cut off accounts for a missing master.
LEMMA LibraryCutOffPreserves ==
    ASSUME LibraryInv, NEW R \in SUBSET Clients, Library!CutOff(R)
    PROVE  LibraryInv'
BY LibraryEndPreserves DEF Library!CutOff

\* A step that changes nothing of the resumes.
LEMMA LibraryStutterPreserves ==
    ASSUME LibraryInv, UNCHANGED resumeVars
    PROVE  LibraryInv'
BY DEF LibraryInv, resumeVars, Library!TypeOK, LibraryHandlerOK, Library!Switching,
     Library!Stored, Library!Masters, LibrarySingleMaster, LibraryMasterOrReason,
       Library!StatusTells

\* Every step of the resume requests and of the parse task keeps the invariant.
LEMMA LibraryStep == LibraryInv /\ [Library!Next]_resumeVars => LibraryInv'
<1> SUFFICES ASSUME LibraryInv, [Library!Next]_resumeVars PROVE LibraryInv'
  OBVIOUS
<1>1. ASSUME NEW r \in Clients,
             \/ \E master \in BOOLEAN : Library!Upload(r, master)
             \/ Library!Unset(r) \/ Library!Create(r) \/ Library!SetMaster(r)
      PROVE  LibraryInv'
  BY <1>1, LibraryUploadPreserves, LibraryUnsetPreserves, LibraryCreatePreserves,
       LibrarySetMasterPreserves
<1>2. ASSUME NEW r \in Clients, NEW x \in Resumes,
             Library!MakeMaster(r, x) \/ Library!DropMaster(r, x) \/ Library!Delete(r, x) \/ Library!Reparse(r, x)
      PROVE  LibraryInv'
  BY <1>2, LibraryMakeMasterPreserves, LibraryDropMasterPreserves, LibraryDeletePreserves,
       LibraryReparsePreserves
<1>3. ASSUME NEW r \in Clients, Library!Queue(r) \/ Library!Process(r) \/ Library!Skip(r) \/ Library!TaskFails(r)
      PROVE  LibraryInv'
  BY <1>3, LibraryTaskPreserves, LibraryTaskFailsPreserves
<1>4. ASSUME NEW r \in Clients, Library!CutOff({r}) PROVE LibraryInv'
  BY <1>4, LibraryCutOffPreserves
<1>5. CASE Library!CutOff(Clients)
  BY <1>5, LibraryCutOffPreserves
<1>6. CASE UNCHANGED resumeVars
  BY <1>6, LibraryStutterPreserves
<1>7. QED
  BY <1>1, <1>2, <1>3, <1>4, <1>5, <1>6 DEF Library!Next

\* The cardinality of OneMaster in terms of its members.
LEMMA LibraryOneMasterFollows == LibraryInv => Library!OneMaster
<1> SUFFICES ASSUME LibraryInv PROVE Library!OneMaster
  OBVIOUS
<1>1. ASSUME ~crossedMasters PROVE ~(Cardinality(Library!Masters) > 1)
  <2>1. CASE Library!Masters = {}
    BY <2>1, FS_EmptySet
  <2>2. ASSUME NEW x \in Library!Masters PROVE Cardinality(Library!Masters) = 1
    <3>1. Library!Masters = {x}
      BY <1>1 DEF LibraryInv, LibrarySingleMaster
    <3>2. QED
      BY <3>1, FS_Singleton
  <2>3. QED
    BY <2>1, <2>2
<1>2. QED
  BY <1>1, LibraryCountIsCardinality DEF Library!OneMaster, LibraryInv, LibraryMasterOrReason

-----------------------------------------------------------------------------
\* Scam reports: submit_report of scam_report_service.py.

ScamEnough(e) == Cardinality(Scam!ReportersOf(e)) >= BadgeThreshold

ScamDue(e) == ScamEnough(e) \/ Scam!Verified(e)

ScamApplying(e) == \E r \in Clients : request[r].entity = e /\ request[r].pc = "apply"

ScamOnTheWay(e) ==
    \E r \in Clients : request[r].entity = e /\ request[r].pc \in {"badge", "count", "apply"}

\* A request is about an entity and a reporter, and decides for a badge only if
\* it is due.
ScamHandlerOK(r) ==
    request[r].pc # "idle" =>
      /\ request[r].entity \in Entities
      /\ request[r].reporter \in Reporters
      /\ request[r].pc = "apply" => ScamDue(request[r].entity)

\* Only stored reports are marked, and a badge was due.
ScamMarksOK(e) ==
    /\ \A u \in Reporters : report[e][u].verified \/ report[e][u].flagged => report[e][u].stored
    /\ Scam!HasBadge(e) => ScamDue(e)

\* Each of the two reasons for a badge leads to it.
ScamSeen(e) ==
    /\ ScamEnough(e) => Scam!HasBadge(e) \/ ScamOnTheWay(e) \/ e \in owed
    /\ Scam!Verified(e) => Scam!HasBadge(e) \/ ScamApplying(e) \/ e \in owed

ScamInv ==
    /\ Scam!TypeOK
    /\ \A r \in Clients : ScamHandlerOK(r)
    /\ \A e \in Entities : ScamMarksOK(e)
    /\ \A e \in Entities : ScamSeen(e)

\* The instance's count of a set is the library's.
LEMMA ScamCountIsCardinality == ASSUME NEW S PROVE Scam!Cardinality(S) = Cardinality(S)
BY DEF Scam!Cardinality, Cardinality

\* The default records have their types.
LEMMA ScamDefaults ==
    Scam!NoReport \in Scam!Report /\ Scam!NoHandler \in Scam!Handler /\ Scam!NoHandler.pc = "idle"
BY DEF Scam!NoReport, Scam!Report, Scam!NoHandler, Scam!Handler

\* One report is replaced.
LEMMA ScamReplaceReport ==
    ASSUME report \in [Entities -> [Reporters -> Scam!Report]],
           NEW e \in Entities, NEW u \in Reporters, NEW next \in Scam!Report,
           report' = [report EXCEPT ![e] = [report[e] EXCEPT ![u] = next]]
    PROVE  /\ report' \in [Entities -> [Reporters -> Scam!Report]]
           /\ \A f \in Entities, v \in Reporters :
                report'[f][v] = IF f = e /\ v = u THEN next ELSE report[f][v]
<1>1. PICK row \in [Reporters -> Scam!Report] : row = [report[e] EXCEPT ![u] = next]
  OBVIOUS
<1>2. report' = [report EXCEPT ![e] = row]
  BY <1>1
<1>3. \A v \in Reporters : row[v] = IF v = u THEN next ELSE report[e][v]
  BY <1>1
<1>4. QED
  BY <1>2, <1>3

\* No report and no request.
LEMMA ScamInit == Scam!Init => ScamInv
<1> SUFFICES ASSUME Scam!Init PROVE ScamInv
  OBVIOUS
<1>1. Scam!TypeOK
  BY ScamDefaults DEF Scam!Init, Scam!TypeOK
<1>2. ASSUME NEW e \in Entities PROVE ScamMarksOK(e) /\ ScamSeen(e)
  <2>1. Scam!ReportersOf(e) = {} /\ ~Scam!Verified(e) /\ ~Scam!HasBadge(e)
    BY DEF Scam!Init, Scam!ReportersOf, Scam!Verified, Scam!HasBadge, Scam!NoReport
  <2>2. ~ScamEnough(e)
    BY <2>1, FS_EmptySet, ThresholdAssumption DEF ScamEnough
  <2>3. QED
    BY <2>1, <2>2 DEF Scam!Init, ScamMarksOK, ScamSeen, Scam!NoReport
<1>3. ASSUME NEW r \in Clients PROVE ScamHandlerOK(r)
  BY ScamDefaults DEF Scam!Init, ScamHandlerOK
<1>4. QED
  BY <1>1, <1>2, <1>3 DEF ScamInv

\* Reports are not taken away: what is due stays due.
LEMMA ScamDueStays ==
    ASSUME NEW e \in Entities,
           \A u \in Reporters : /\ report[e][u].stored => report'[e][u].stored
                                /\ report[e][u].verified => report'[e][u].verified
    PROVE  ScamDue(e) => ScamDue(e)'
<1>1. Scam!ReportersOf(e) \subseteq Scam!ReportersOf(e)'
  BY DEF Scam!ReportersOf
<1>2. IsFiniteSet(Scam!ReportersOf(e)')
  BY ReportersAssumption, FS_Subset DEF Scam!ReportersOf
<1>3. /\ Cardinality(Scam!ReportersOf(e)) <= Cardinality(Scam!ReportersOf(e)')
      /\ Cardinality(Scam!ReportersOf(e)) \in Nat
      /\ Cardinality(Scam!ReportersOf(e)') \in Nat
  BY <1>1, <1>2, FS_Subset, FS_CardinalityType
<1>4. ScamEnough(e) => ScamEnough(e)'
  BY <1>3, ThresholdAssumption DEF ScamEnough
<1>5. Scam!Verified(e) => Scam!Verified(e)'
  BY DEF Scam!Verified
<1>6. QED
  BY <1>4, <1>5 DEF ScamDue

\* What is due comes from a report.
LEMMA ScamDueIsReported ==
    ASSUME NEW e \in Entities, ScamMarksOK(e), ScamDue(e)
    PROVE  \E u \in Reporters : report[e][u].stored
<1>1. CASE ScamEnough(e)
  <2>1. Scam!ReportersOf(e) # {}
    BY <1>1, FS_EmptySet, ThresholdAssumption DEF ScamEnough
  <2>2. QED
    BY <2>1 DEF Scam!ReportersOf
<1>2. CASE Scam!Verified(e)
  BY <1>2 DEF Scam!Verified, ScamMarksOK
<1>3. QED
  BY <1>1, <1>2 DEF ScamDue

\* The operators of a step that leaves the reports alone.
LEMMA ScamSameReports ==
    ASSUME UNCHANGED report, NEW e \in Entities
    PROVE  /\ ScamEnough(e)' <=> ScamEnough(e)
           /\ Scam!Verified(e)' <=> Scam!Verified(e)
           /\ ScamDue(e)' <=> ScamDue(e)
           /\ Scam!HasBadge(e)' <=> Scam!HasBadge(e)
           /\ ScamMarksOK(e)' <=> ScamMarksOK(e)
BY DEF ScamEnough, Scam!ReportersOf, Scam!Verified, ScamDue, Scam!HasBadge, ScamMarksOK

\* submit_report goes on to its insert if the reporter has no report of the entity.
LEMMA ScamSubmitPreserves ==
    ASSUME ScamInv, NEW r \in Clients, NEW u \in Reporters, NEW e \in Entities, Scam!Submit(r, u, e)
    PROVE  ScamInv'
<1> USE DEF ScamInv, Scam!Submit
<1>1. /\ request[r].pc = "idle"
      /\ request'[r] = [pc |-> "insert", entity |-> e, reporter |-> u]
      /\ \A q \in Clients : q # r => request'[q] = request[q]
  BY DEF Scam!TypeOK
<1>2. Scam!TypeOK'
  BY DEF Scam!TypeOK, Scam!Handler
<1>3. (\A q \in Clients : ScamHandlerOK(q))'
  BY <1>1, ScamSameReports DEF ScamHandlerOK
<1>4. (\A f \in Entities : ScamMarksOK(f))'
  BY ScamSameReports
<1>5. (\A f \in Entities : ScamSeen(f))'
  <2> SUFFICES ASSUME NEW f \in Entities PROVE ScamSeen(f)'
    OBVIOUS
  <2>1. ScamOnTheWay(f) => ScamOnTheWay(f)'
    BY <1>1 DEF ScamOnTheWay
  <2>2. ScamApplying(f) => ScamApplying(f)'
    BY <1>1 DEF ScamApplying
  <2>3. QED
    BY <2>1, <2>2, ScamSameReports DEF ScamSeen
<1>6. QED
  BY <1>2, <1>3, <1>4, <1>5

\* A report that is stored has its request on the way to the badge.
LEMMA ScamInsertPreserves ==
    ASSUME ScamInv, NEW r \in Clients, Scam!Insert(r)
    PROVE  ScamInv'
<1> USE DEF ScamInv
<1>a. PICK e \in Entities, u \in Reporters : e = request[r].entity /\ u = request[r].reporter
  BY DEF Scam!Insert, ScamHandlerOK
<1>0. request[r].pc = "insert" /\ UNCHANGED owed
  BY DEF Scam!Insert
<1>1. CASE report[e][u].stored
  <2>0. UNCHANGED report /\ request' = [request EXCEPT ![r] = Scam!NoHandler]
    BY <1>1, <1>a DEF Scam!Insert, Scam!Finish
  <2>1. /\ request'[r].pc = "idle"
        /\ \A q \in Clients : q # r => request'[q] = request[q]
    BY <2>0, ScamDefaults DEF Scam!TypeOK
  <2>2. Scam!TypeOK'
    BY <1>0, <2>0, ScamDefaults DEF Scam!TypeOK
  <2>3. (\A q \in Clients : ScamHandlerOK(q))'
    BY <2>0, <2>1, ScamSameReports DEF ScamHandlerOK
  <2>4. ASSUME NEW f \in Entities PROVE ScamSeen(f)' /\ ScamMarksOK(f)'
    <3>1. (ScamOnTheWay(f) => ScamOnTheWay(f)') /\ (ScamApplying(f) => ScamApplying(f)')
      BY <1>0, <1>a, <2>1 DEF ScamOnTheWay, ScamApplying
    <3>2. QED
      BY <1>0, <2>0, <3>1, ScamSameReports DEF ScamSeen
  <2>5. QED
    BY <2>2, <2>3, <2>4
<1>2. CASE ~report[e][u].stored
  <2>0. /\ report' = [report EXCEPT ![e][u].stored = TRUE]
        /\ request' = [request EXCEPT ![r].pc = "badge"]
    BY <1>2, <1>a DEF Scam!Insert, Scam!Goto
  <2>t. report[e][u] \in Scam!Report
    BY DEF Scam!TypeOK
  <2>n. PICK next \in Scam!Report : next = [report[e][u] EXCEPT !.stored = TRUE]
    BY <2>t DEF Scam!Report
  <2>m. /\ next.stored = TRUE
        /\ next.verified = report[e][u].verified
        /\ next.flagged = report[e][u].flagged
    BY <2>t, <2>n DEF Scam!Report
  <2>r. report' = [report EXCEPT ![e] = [report[e] EXCEPT ![u] = next]]
    BY <2>0, <2>n
  <2>1. /\ request'[r].pc = "badge"
        /\ request'[r].entity = e /\ request'[r].reporter = u
        /\ \A q \in Clients : q # r => request'[q] = request[q]
    BY <1>a, <2>0 DEF Scam!TypeOK, Scam!Handler
  <2>2. Scam!TypeOK'
    <3>1. report' \in [Entities -> [Reporters -> Scam!Report]]
      BY <2>r, ScamReplaceReport DEF Scam!TypeOK
    <3>2. request' \in [Clients -> Scam!Handler]
      BY <2>0 DEF Scam!TypeOK, Scam!Handler
    <3>3. QED
      BY <1>0, <3>1, <3>2 DEF Scam!TypeOK
  <2>3. \A f \in Entities, v \in Reporters :
          /\ report'[f][v].stored = IF f = e /\ v = u THEN TRUE ELSE report[f][v].stored
          /\ report'[f][v].verified = report[f][v].verified
          /\ report'[f][v].flagged = report[f][v].flagged
    <3>1. \A f \in Entities, v \in Reporters :
            report'[f][v] = IF f = e /\ v = u THEN next ELSE report[f][v]
      BY <2>r, ScamReplaceReport DEF Scam!TypeOK
    <3>2. QED
      BY <2>m, <3>1
  <2>4. ASSUME NEW f \in Entities
        PROVE  /\ ScamDue(f) => ScamDue(f)'
               /\ Scam!Verified(f)' <=> Scam!Verified(f)
               /\ Scam!HasBadge(f)' <=> Scam!HasBadge(f)
               /\ f # e => (ScamEnough(f)' <=> ScamEnough(f))
    <3>1. ScamDue(f) => ScamDue(f)'
      BY <2>3, ScamDueStays
    <3>2. (Scam!Verified(f)' <=> Scam!Verified(f)) /\ (Scam!HasBadge(f)' <=> Scam!HasBadge(f))
      BY <2>3 DEF Scam!Verified, Scam!HasBadge
    <3>3. f # e => Scam!ReportersOf(f)' = Scam!ReportersOf(f)
      BY <2>3 DEF Scam!ReportersOf
    <3>4. QED
      BY <3>1, <3>2, <3>3 DEF ScamEnough
  <2>5. (\A q \in Clients : ScamHandlerOK(q))'
    BY <1>0, <1>a, <2>1, <2>4 DEF ScamHandlerOK
  <2>6. ASSUME NEW f \in Entities PROVE ScamMarksOK(f)'
    BY <2>3, <2>4 DEF ScamMarksOK
  <2>7. ASSUME NEW f \in Entities PROVE ScamSeen(f)'
    <3>1. (ScamOnTheWay(f) => ScamOnTheWay(f)') /\ (ScamApplying(f) => ScamApplying(f)')
      BY <1>0, <1>a, <2>1 DEF ScamOnTheWay, ScamApplying
    <3>2. CASE f = e
      <4>1. ScamOnTheWay(f)'
        BY <2>1, <3>2 DEF ScamOnTheWay
      <4>2. QED
        BY <1>0, <2>4, <3>1, <4>1 DEF ScamSeen
    <3>3. CASE f # e
      BY <1>0, <2>4, <3>1, <3>3 DEF ScamSeen
    <3>4. QED
      BY <3>2, <3>3
  <2>8. QED
    BY <2>2, <2>5, <2>6, <2>7
<1>3. QED
  BY <1>1, <1>2

\* A request that leaves its entity, or goes on to the badge.
LEMMA ScamLeavePreserves ==
    ASSUME ScamInv, NEW r \in Clients, NEW next \in Scam!Handler,
           request' = [request EXCEPT ![r] = next],
           request[r].pc \in {"badge", "count"},
           UNCHANGED report,
           owed' \subseteq owed,
           \A f \in owed \ owed' : f = request[r].entity /\ (Scam!HasBadge(f) \/ ~ScamDue(f)),
           \/ /\ next.pc \in {"count", "apply"}
              /\ next.entity = request[r].entity
              /\ next.reporter = request[r].reporter
              /\ next.pc = "apply" => ScamDue(next.entity)
           \/ /\ next.pc = "idle"
              /\ Scam!HasBadge(request[r].entity) \/ ~ScamEnough(request[r].entity)
    PROVE  ScamInv'
<1> USE DEF ScamInv
<1>1. /\ request'[r] = next
      /\ \A q \in Clients : q # r => request'[q] = request[q]
      /\ request[r].entity \in Entities
  BY DEF Scam!TypeOK, ScamHandlerOK
<1>2. Scam!TypeOK'
  BY DEF Scam!TypeOK
<1>3. (\A q \in Clients : ScamHandlerOK(q))'
  BY <1>1, ScamSameReports DEF ScamHandlerOK
<1>4. ASSUME NEW f \in Entities PROVE ScamMarksOK(f)'
  BY ScamSameReports
<1>5. ASSUME NEW f \in Entities PROVE ScamSeen(f)'
  <2>1. ScamApplying(f) => ScamApplying(f)'
    BY <1>1 DEF ScamApplying
  <2>2. ScamOnTheWay(f) => ScamOnTheWay(f)' \/ Scam!HasBadge(f) \/ ~ScamEnough(f)
    BY <1>1 DEF ScamOnTheWay
  <2>3. QED
    BY <2>1, <2>2, ScamSameReports DEF ScamSeen, ScamDue
<1>6. QED
  BY <1>2, <1>3, <1>4, <1>5

\* A request that finds the badge set has nothing left to do.
LEMMA ScamLookAtBadgePreserves ==
    ASSUME ScamInv, NEW r \in Clients, Scam!LookAtBadge(r)
    PROVE  ScamInv'
<1>1. CASE Scam!HasBadge(request[r].entity)
  BY <1>1, ScamDefaults, ScamLeavePreserves DEF Scam!LookAtBadge, Scam!Finish
<1>2. CASE ~Scam!HasBadge(request[r].entity)
  <2>1. PICK next \in Scam!Handler : next = [request[r] EXCEPT !.pc = "count"]
    BY DEF ScamInv, Scam!TypeOK, Scam!Handler
  <2>2. request' = [request EXCEPT ![r] = next]
    BY <1>2, <2>1 DEF ScamInv, Scam!TypeOK, Scam!LookAtBadge, Scam!Goto
  <2>3. next.pc = "count" /\ next.entity = request[r].entity /\ next.reporter = request[r].reporter
    BY <2>1 DEF ScamInv, Scam!TypeOK, Scam!Handler
  <2>4. QED
    BY <1>2, <2>2, <2>3, ScamLeavePreserves DEF Scam!LookAtBadge
<1>3. QED
  BY <1>1, <1>2

\* get_distinct_reporter_count, and whether the badge is due or was made up for.
LEMMA ScamCountPreserves ==
    ASSUME ScamInv, NEW r \in Clients, Scam!Count(r)
    PROVE  ScamInv'
<1>1. CASE ScamEnough(request[r].entity)
  <2>1. PICK next \in Scam!Handler : next = [request[r] EXCEPT !.pc = "apply"]
    BY DEF ScamInv, Scam!TypeOK, Scam!Handler
  <2>2. request' = [request EXCEPT ![r] = next] /\ UNCHANGED owed
    BY <1>1, <2>1, ScamCountIsCardinality DEF ScamInv, Scam!TypeOK, Scam!Count, Scam!Goto,
         ScamEnough
  <2>3. next.pc = "apply" /\ next.entity = request[r].entity /\ next.reporter = request[r].reporter
    BY <2>1 DEF ScamInv, Scam!TypeOK, Scam!Handler
  <2>4. QED
    BY <1>1, <2>2, <2>3, ScamLeavePreserves DEF Scam!Count, ScamDue
<1>2. CASE ~ScamEnough(request[r].entity)
  <2>1. Scam!Finish(r) /\ owed' = Scam!MadeUpFor(request[r].entity)
    BY <1>2, ScamCountIsCardinality DEF Scam!Count, ScamEnough
  <2>2. QED
    BY <1>2, <2>1, ScamDefaults, ScamLeavePreserves DEF Scam!Count, Scam!Finish, Scam!MadeUpFor,
         ScamDue
<1>3. QED
  BY <1>1, <1>2

\* The badge goes to every report of the entity, of which there is one.
LEMMA ScamApplyPreserves ==
    ASSUME ScamInv, NEW r \in Clients, Scam!Apply(r)
    PROVE  ScamInv'
<1> USE DEF ScamInv
<1>a. PICK e \in Entities : e = request[r].entity
  BY DEF Scam!Apply, ScamHandlerOK
<1>0. /\ request[r].pc = "apply" /\ ScamDue(e)
      /\ report' = [report EXCEPT ![e] =
            [u \in Reporters |-> [report[e][u] EXCEPT !.flagged = report[e][u].stored]]]
      /\ owed' = owed \ {e}
      /\ request' = [request EXCEPT ![r] = Scam!NoHandler]
  BY <1>a DEF Scam!Apply, ScamHandlerOK, Scam!Finish
<1>1. /\ request'[r].pc = "idle"
      /\ \A q \in Clients : q # r => request'[q] = request[q]
  BY <1>0, ScamDefaults DEF Scam!TypeOK
<1>2. Scam!TypeOK'
  <2>1. \A u \in Reporters : [report[e][u] EXCEPT !.flagged = report[e][u].stored] \in Scam!Report
    BY DEF Scam!TypeOK, Scam!Report
  <2>2. PICK row \in [Reporters -> Scam!Report] :
          row = [u \in Reporters |-> [report[e][u] EXCEPT !.flagged = report[e][u].stored]]
    BY <2>1
  <2>3. report' = [report EXCEPT ![e] = row]
    BY <1>0, <2>2
  <2>4. QED
    BY <1>0, <2>3, ScamDefaults DEF Scam!TypeOK
<1>3. \A f \in Entities, v \in Reporters :
        /\ report'[f][v].stored = report[f][v].stored
        /\ report'[f][v].verified = report[f][v].verified
        /\ report'[f][v].flagged = IF f = e THEN report[f][v].stored ELSE report[f][v].flagged
  BY <1>0 DEF Scam!TypeOK, Scam!Report
<1>4. ASSUME NEW f \in Entities
      PROVE  /\ ScamDue(f) => ScamDue(f)'
             /\ Scam!Verified(f)' <=> Scam!Verified(f)
             /\ ScamEnough(f)' <=> ScamEnough(f)
             /\ f # e => (Scam!HasBadge(f)' <=> Scam!HasBadge(f))
  <2>1. ScamDue(f) => ScamDue(f)'
    BY <1>3, ScamDueStays
  <2>2. (Scam!Verified(f)' <=> Scam!Verified(f)) /\ (f # e => (Scam!HasBadge(f)' <=> Scam!HasBadge(f)))
    BY <1>3 DEF Scam!Verified, Scam!HasBadge
  <2>3. Scam!ReportersOf(f)' = Scam!ReportersOf(f)
    BY <1>3 DEF Scam!ReportersOf
  <2>4. QED
    BY <2>1, <2>2, <2>3 DEF ScamEnough
<1>5. Scam!HasBadge(e)'
  <2>1. PICK u \in Reporters : report[e][u].stored
    BY <1>0, ScamDueIsReported
  <2>2. QED
    BY <1>3, <2>1 DEF Scam!HasBadge
<1>6. (\A q \in Clients : ScamHandlerOK(q))'
  BY <1>1, <1>4 DEF ScamHandlerOK
<1>7. ASSUME NEW f \in Entities PROVE ScamMarksOK(f)'
  BY <1>0, <1>3, <1>4 DEF ScamMarksOK
<1>8. ASSUME NEW f \in Entities PROVE ScamSeen(f)'
  <2>1. CASE f = e
    <3>1. Scam!HasBadge(f)'
      BY <1>5, <2>1
    <3>2. QED
      BY <3>1 DEF ScamSeen
  <2>2. CASE f # e
    <3>1. (ScamOnTheWay(f) => ScamOnTheWay(f)') /\ (ScamApplying(f) => ScamApplying(f)')
      BY <1>1, <1>a, <2>2 DEF ScamOnTheWay, ScamApplying
    <3>2. QED
      BY <1>0, <1>4, <2>2, <3>1 DEF ScamSeen
  <2>3. QED
    BY <2>1, <2>2
<1>9. QED
  BY <1>2, <1>6, <1>7, <1>8

\* A verified report has its request on the way to apply the badge.
LEMMA ScamVerifyPreserves ==
    ASSUME ScamInv, NEW r \in Clients, NEW u \in Reporters, NEW e \in Entities, Scam!Verify(r, u, e)
    PROVE  ScamInv'
<1> USE DEF ScamInv
<1>0. /\ request[r].pc = "idle" /\ report[e][u].stored /\ UNCHANGED owed
      /\ report' = [report EXCEPT ![e][u].verified = TRUE]
      /\ request' = [request EXCEPT ![r] = [pc |-> "apply", entity |-> e, reporter |-> u]]
  BY DEF Scam!Verify
<1>t. report[e][u] \in Scam!Report
  BY DEF Scam!TypeOK
<1>n. PICK next \in Scam!Report : next = [report[e][u] EXCEPT !.verified = TRUE]
  BY <1>t DEF Scam!Report
<1>m. /\ next.verified = TRUE
      /\ next.stored = report[e][u].stored
      /\ next.flagged = report[e][u].flagged
  BY <1>t, <1>n DEF Scam!Report
<1>r. report' = [report EXCEPT ![e] = [report[e] EXCEPT ![u] = next]]
  BY <1>0, <1>n
<1>1. /\ request'[r] = [pc |-> "apply", entity |-> e, reporter |-> u]
      /\ \A q \in Clients : q # r => request'[q] = request[q]
  BY <1>0 DEF Scam!TypeOK
<1>2. Scam!TypeOK'
  <2>1. report' \in [Entities -> [Reporters -> Scam!Report]]
    BY <1>r, ScamReplaceReport DEF Scam!TypeOK
  <2>2. request' \in [Clients -> Scam!Handler]
    BY <1>0 DEF Scam!TypeOK, Scam!Handler
  <2>3. QED
    BY <1>0, <2>1, <2>2 DEF Scam!TypeOK
<1>3. \A f \in Entities, v \in Reporters :
        /\ report'[f][v].stored = report[f][v].stored
        /\ report'[f][v].verified = IF f = e /\ v = u THEN TRUE ELSE report[f][v].verified
        /\ report'[f][v].flagged = report[f][v].flagged
  <2>1. \A f \in Entities, v \in Reporters :
          report'[f][v] = IF f = e /\ v = u THEN next ELSE report[f][v]
    BY <1>r, ScamReplaceReport DEF Scam!TypeOK
  <2>2. QED
    BY <1>m, <2>1
<1>4. ASSUME NEW f \in Entities
      PROVE  /\ ScamDue(f) => ScamDue(f)'
             /\ f # e => (Scam!Verified(f)' <=> Scam!Verified(f))
             /\ ScamEnough(f)' <=> ScamEnough(f)
             /\ Scam!HasBadge(f)' <=> Scam!HasBadge(f)
  <2>1. ScamDue(f) => ScamDue(f)'
    BY <1>3, ScamDueStays
  <2>2. (f # e => (Scam!Verified(f)' <=> Scam!Verified(f))) /\ (Scam!HasBadge(f)' <=> Scam!HasBadge(f))
    BY <1>3 DEF Scam!Verified, Scam!HasBadge
  <2>3. Scam!ReportersOf(f)' = Scam!ReportersOf(f)
    BY <1>3 DEF Scam!ReportersOf
  <2>4. QED
    BY <2>1, <2>2, <2>3 DEF ScamEnough
<1>5. Scam!Verified(e)' /\ ScamDue(e)'
  BY <1>3 DEF Scam!Verified, ScamDue
<1>6. (\A q \in Clients : ScamHandlerOK(q))'
  BY <1>1, <1>4, <1>5 DEF ScamHandlerOK
<1>7. ASSUME NEW f \in Entities PROVE ScamMarksOK(f)'
  BY <1>0, <1>3, <1>4 DEF ScamMarksOK
<1>8. ASSUME NEW f \in Entities PROVE ScamSeen(f)'
  <2>1. (ScamOnTheWay(f) => ScamOnTheWay(f)') /\ (ScamApplying(f) => ScamApplying(f)')
    BY <1>0, <1>1 DEF ScamOnTheWay, ScamApplying
  <2>2. CASE f = e
    <3>1. ScamOnTheWay(f)' /\ ScamApplying(f)'
      BY <1>1, <2>2 DEF ScamOnTheWay, ScamApplying
    <3>2. QED
      BY <3>1 DEF ScamSeen
  <2>3. CASE f # e
    BY <1>0, <1>4, <2>1, <2>3 DEF ScamSeen
  <2>4. QED
    BY <2>2, <2>3
<1>9. QED
  BY <1>2, <1>6, <1>7, <1>8

\* What was cut off after its report was stored, or verified, is owed.
LEMMA ScamCutOffPreserves ==
    ASSUME ScamInv, NEW R \in SUBSET Clients, Scam!CutOff(R)
    PROVE  ScamInv'
<1> USE DEF ScamInv, Scam!CutOff
<1>1. \A q \in Clients : request'[q] = IF q \in R THEN Scam!NoHandler ELSE request[q]
  OBVIOUS
<1>2. Scam!TypeOK'
  BY ScamDefaults DEF Scam!TypeOK, ScamHandlerOK
<1>3. (\A q \in Clients : ScamHandlerOK(q))'
  BY <1>1, ScamDefaults, ScamSameReports DEF ScamHandlerOK
<1>4. ASSUME NEW f \in Entities PROVE ScamMarksOK(f)'
  BY ScamSameReports
<1>5. ASSUME NEW f \in Entities PROVE ScamSeen(f)'
  <2>1. ScamOnTheWay(f) => ScamOnTheWay(f)' \/ f \in owed'
    BY <1>1 DEF ScamOnTheWay
  <2>2. ScamApplying(f) => ScamApplying(f)' \/ f \in owed'
    BY <1>1 DEF ScamApplying
  <2>3. QED
    BY <2>1, <2>2, ScamSameReports DEF ScamSeen
<1>6. QED
  BY <1>2, <1>3, <1>4, <1>5

\* A step that changes nothing of the reports.
LEMMA ScamStutterPreserves ==
    ASSUME ScamInv, UNCHANGED scamVars
    PROVE  ScamInv'
BY DEF ScamInv, scamVars, Scam!TypeOK, ScamHandlerOK, ScamMarksOK, ScamSeen, ScamDue, ScamEnough,
     Scam!ReportersOf, Scam!HasBadge, Scam!Verified,
       ScamOnTheWay, ScamApplying

\* Every step of the report requests keeps the invariant.
LEMMA ScamStep == ScamInv /\ [Scam!Next]_scamVars => ScamInv'
<1> SUFFICES ASSUME ScamInv, [Scam!Next]_scamVars PROVE ScamInv'
  OBVIOUS
<1>1. ASSUME NEW r \in Clients, NEW u \in Reporters, NEW e \in Entities,
             Scam!Submit(r, u, e) \/ Scam!Verify(r, u, e)
      PROVE  ScamInv'
  BY <1>1, ScamSubmitPreserves, ScamVerifyPreserves
<1>2. ASSUME NEW r \in Clients, Scam!Insert(r) \/ Scam!LookAtBadge(r) \/ Scam!Count(r) \/ Scam!Apply(r)
      PROVE  ScamInv'
  BY <1>2, ScamInsertPreserves, ScamLookAtBadgePreserves, ScamCountPreserves, ScamApplyPreserves
<1>3. ASSUME NEW r \in Clients, Scam!CutOff({r}) PROVE ScamInv'
  BY <1>3, ScamCutOffPreserves
<1>4. CASE Scam!CutOff(Clients)
  BY <1>4, ScamCutOffPreserves
<1>5. CASE UNCHANGED scamVars
  BY <1>5, ScamStutterPreserves
<1>6. QED
  BY <1>1, <1>2, <1>3, <1>4, <1>5 DEF Scam!Next

\* The invariant tells who has a badge or is about to get one.
LEMMA ScamBadgeWhenDueFollows == ScamInv => Scam!BadgeWhenDue
<1> SUFFICES ASSUME ScamInv, NEW e \in Entities
             PROVE  /\ Scam!HasBadge(e) => ScamDue(e)
                    /\ ScamDue(e) => Scam!HasBadge(e) \/ ScamOnTheWay(e) \/ e \in owed
  BY ScamCountIsCardinality DEF Scam!BadgeWhenDue, ScamDue, ScamEnough, ScamOnTheWay
<1>1. ScamApplying(e) => ScamOnTheWay(e)
  BY DEF ScamApplying, ScamOnTheWay
<1>2. QED
  BY <1>1 DEF ScamInv, ScamMarksOK, ScamSeen, ScamDue

-----------------------------------------------------------------------------
\* Jobs: add_job_manually and delete_job of jobs.py.

\* What a cascade removes and something may bring back.
CascadeSwept == {"document", "message", "interview", "embedding"}

\* Is r there only as a stray?
CascadeTold(j, r) ==
    (IF r = "embedding" THEN embedding[j] ELSE r \in children[j]) => r \in stray[j]

CascadePassed(c, r) == cascadeHandler[c].pc \in Cascade!Removals /\ Cascade!Place(cascadeHandler[c].pc) > Cascade!Place(r)

\* A job is added before its application and removed after it, and what a
\* cascade has passed is gone or stray.
CascadeHandlerOK(c) ==
    /\ cascadeHandler[c].pc # "idle" => cascadeHandler[c].job \in Jobs
    /\ cascadeHandler[c].pc = "insert" => cascadeHandler[c].kind \in Cascade!Kinds
    /\ cascadeHandler[c].pc = "add" => /\ job[cascadeHandler[c].job] = "present"
                                       /\ application[cascadeHandler[c].job] = "absent"
    /\ cascadeHandler[c].pc \in Cascade!Removals => application[cascadeHandler[c].job] # "absent"
    /\ cascadeHandler[c].pc \in {"embedding", "job"} => application[cascadeHandler[c].job] = "deleted"
    /\ \A r \in CascadeSwept : CascadePassed(c, r) => CascadeTold(cascadeHandler[c].job, r)

\* A job is added by one request.
CascadeAddedOnce(c, d) ==
    c # d /\ cascadeHandler[c].pc = "add" /\ cascadeHandler[d].pc = "add" => cascadeHandler[c].job # cascadeHandler[d].job

CascadeJobOK(j) ==
    /\ job[j] = "deleted" => application[j] = "deleted"
    /\ job[j] = "absent" => application[j] = "absent"
    /\ job[j] = "present" /\ application[j] # "present" =>
         \/ j \in cutJobs \cup detached
         \/ \E c \in Clients : cascadeHandler[c].job = j /\ Cascade!HalfWay(c)
    /\ application[j] = "deleted" /\ j \notin detached =>
         \A r \in CascadeSwept \ {"embedding"} : CascadeTold(j, r)
    /\ job[j] = "deleted" => CascadeTold(j, "embedding")

CascadeInv ==
    /\ Cascade!TypeOK
    /\ \A c \in Clients : CascadeHandlerOK(c)
    /\ \A c, d \in Clients : CascadeAddedOnce(c, d)
    /\ \A j \in Jobs : CascadeJobOK(j)

\* The order of the removals.
LEMMA CascadeOrder ==
    /\ Cascade!Removals = {"document", "message", "interview", "application", "embedding", "job"}
    /\ Cascade!Place("document") = 1 /\ Cascade!Place("message") = 2 /\ Cascade!Place("interview") = 3
    /\ Cascade!Place("application") = 4 /\ Cascade!Place("embedding") = 5 /\ Cascade!Place("job") = 6
    /\ Cascade!Cascade[1] = "document" /\ Cascade!Cascade[2] = "message" /\ Cascade!Cascade[3] = "interview"
    /\ Cascade!Cascade[4] = "application" /\ Cascade!Cascade[5] = "embedding" /\ Cascade!Cascade[6] = "job"
<1>1. /\ Cascade!Cascade[1] = "document" /\ Cascade!Cascade[2] = "message" /\ Cascade!Cascade[3] = "interview"
      /\ Cascade!Cascade[4] = "application" /\ Cascade!Cascade[5] = "embedding" /\ Cascade!Cascade[6] = "job"
  BY DEF Cascade!Cascade
<1>2. 1..6 = {1, 2, 3, 4, 5, 6}
  OBVIOUS
<1>3. Cascade!Removals = {"document", "message", "interview", "application", "embedding", "job"}
  BY <1>1, <1>2 DEF Cascade!Removals
<1>4. ASSUME NEW n \in 1..6 PROVE Cascade!Place(Cascade!Cascade[n]) = n
  <2>1. \A i \in 1..6 : Cascade!Cascade[i] = Cascade!Cascade[n] => i = n
    BY <1>1, <1>2
  <2>2. Cascade!Place(Cascade!Cascade[n]) \in 1..6 /\ Cascade!Cascade[Cascade!Place(Cascade!Cascade[n])] = Cascade!Cascade[n]
    BY DEF Cascade!Place
  <2>3. QED
    BY <2>1, <2>2
<1>5. QED
  BY <1>1, <1>2, <1>3, <1>4

\* The idle handler has its type and is at no removal.
LEMMA CascadeDefaults ==
    /\ Cascade!NoHandler \in Cascade!Handler /\ Cascade!NoHandler.pc = "idle"
BY DEF Cascade!NoHandler, Cascade!Handler

\* No jobs yet, and nobody at work.
LEMMA CascadeInit == Cascade!Init => CascadeInv
<1> SUFFICES ASSUME Cascade!Init PROVE CascadeInv
  OBVIOUS
<1>1. Cascade!TypeOK
  BY CascadeDefaults DEF Cascade!Init, Cascade!TypeOK, Cascade!Presence
<1>2. ASSUME NEW c \in Clients PROVE cascadeHandler[c].pc = "idle"
  BY CascadeDefaults DEF Cascade!Init
<1>3. ASSUME NEW c \in Clients PROVE CascadeHandlerOK(c)
  BY <1>2, CascadeOrder DEF CascadeHandlerOK, CascadePassed
<1>4. ASSUME NEW c \in Clients, NEW d \in Clients PROVE CascadeAddedOnce(c, d)
  BY <1>2 DEF CascadeAddedOnce
<1>5. ASSUME NEW j \in Jobs PROVE CascadeJobOK(j)
  BY DEF Cascade!Init, CascadeJobOK
<1>6. QED
  BY <1>1, <1>3, <1>4, <1>5 DEF CascadeInv

\* A step that leaves jobs and applications alone, in which the requests of C
\* go on, and which brings nothing back that a cascade has passed but as a stray.
LEMMA CascadeSweepStep ==
    ASSUME CascadeInv, Cascade!TypeOK', NEW C \in SUBSET Clients,
           UNCHANGED <<job, application, detached>>,
           cutJobs \subseteq cutJobs',
           \A d \in Clients \ C : cascadeHandler'[d] = cascadeHandler[d],
           \A d \in C : CascadeHandlerOK(d)' /\ cascadeHandler'[d].pc # "add",
           \A d \in C : Cascade!HalfWay(d) =>
              \/ cascadeHandler[d].job \in cutJobs'
              \/ cascadeHandler'[d].job = cascadeHandler[d].job /\ Cascade!HalfWay(d)',
           \A j \in Jobs, r \in CascadeSwept : CascadeTold(j, r) => CascadeTold(j, r)' \/ ~Cascade!TooLate(j, r)
    PROVE  CascadeInv'
<1> USE DEF CascadeInv
<1>1. ASSUME NEW d \in Clients PROVE CascadeHandlerOK(d)'
  <2>1. CASE d \in C
    BY <2>1
  <2>2. CASE d \notin C
    <3>1. cascadeHandler'[d] = cascadeHandler[d]
      BY <2>2
    <3>2. PICK h : h = cascadeHandler[d]
      OBVIOUS
    <3>3. ASSUME NEW r \in CascadeSwept, CascadePassed(d, r) PROVE CascadeTold(h.job, r)'
      <4>1. h.job \in Jobs /\ CascadeTold(h.job, r)
        BY <3>2, <3>3, CascadeOrder DEF CascadeHandlerOK, CascadePassed
      <4>2. Cascade!TooLate(h.job, r)
        BY <3>2, <3>3 DEF CascadePassed, Cascade!TooLate
      <4>3. QED
        BY <4>1, <4>2
    <3>4. ASSUME NEW r \in CascadeSwept, CascadePassed(d, r)' PROVE CascadeTold(h.job, r)'
      <4>1. CascadePassed(d, r)
        BY <3>1, <3>4 DEF CascadePassed
      <4>2. QED
        BY <3>3, <4>1
    <3>5. /\ h.pc # "idle" => h.job \in Jobs
          /\ h.pc = "insert" => h.kind \in Cascade!Kinds
          /\ h.pc = "add" => job[h.job] = "present" /\ application[h.job] = "absent"
          /\ h.pc \in Cascade!Removals => application[h.job] # "absent"
          /\ h.pc \in {"embedding", "job"} => application[h.job] = "deleted"
      BY <3>2 DEF CascadeHandlerOK
    <3>6. cascadeHandler'[d] = h
      BY <3>1, <3>2
    <3>7. QED
      BY <3>4, <3>5, <3>6 DEF CascadeHandlerOK
  <2>3. QED
    BY <2>1, <2>2
<1>2. ASSUME NEW c \in Clients, NEW d \in Clients PROVE CascadeAddedOnce(c, d)'
  BY DEF CascadeAddedOnce
<1>3. ASSUME NEW j \in Jobs PROVE CascadeJobOK(j)'
  <2>1. ASSUME NEW c \in Clients, cascadeHandler[c].job = j, Cascade!HalfWay(c)
        PROVE  j \in cutJobs' \/ \E d \in Clients : cascadeHandler'[d].job = j /\ Cascade!HalfWay(d)'
    <3>1. CASE c \in C
      BY <2>1, <3>1
    <3>2. CASE c \notin C
      BY <2>1, <3>2 DEF Cascade!HalfWay
    <3>3. QED
      BY <3>1, <3>2
  <2>2. job[j] = "present" /\ application[j] # "present" =>
          j \in cutJobs' \cup detached \/ \E d \in Clients : cascadeHandler'[d].job = j /\ Cascade!HalfWay(d)'
    BY <2>1 DEF CascadeJobOK
  <2>3. ASSUME application[j] = "deleted", j \notin detached, NEW r \in CascadeSwept \ {"embedding"}
        PROVE  CascadeTold(j, r)'
    <3>1. CascadeTold(j, r) /\ Cascade!TooLate(j, r)
      BY <2>3 DEF CascadeJobOK, Cascade!TooLate
    <3>2. QED
      BY <3>1
  <2>4. ASSUME job[j] = "deleted" PROVE CascadeTold(j, "embedding")'
    <3>1. CascadeTold(j, "embedding") /\ Cascade!TooLate(j, "embedding") /\ "embedding" \in CascadeSwept
      BY <2>4 DEF CascadeJobOK, Cascade!TooLate, CascadeSwept
    <3>2. QED
      BY <3>1
  <2>5. QED
    BY <2>2, <2>3, <2>4 DEF CascadeJobOK
<1>4. QED
  BY <1>1, <1>2, <1>3

\* A step of SweepStep's kind by one request.
LEMMA CascadeRequestStep ==
    ASSUME CascadeInv, NEW c \in Clients, NEW h \in Cascade!Handler, cascadeHandler' = [cascadeHandler EXCEPT ![c] = h],
           Cascade!TypeOK', UNCHANGED <<job, application, detached>>, cutJobs \subseteq cutJobs',
           CascadeHandlerOK(c)', h.pc # "add",
           Cascade!HalfWay(c) => cascadeHandler[c].job \in cutJobs' \/ (h.job = cascadeHandler[c].job /\ h.pc \in {"embedding", "job"}),
           \A j \in Jobs, r \in CascadeSwept : CascadeTold(j, r) => CascadeTold(j, r)' \/ ~Cascade!TooLate(j, r)
    PROVE  CascadeInv'
<1>1. cascadeHandler'[c] = h /\ \A d \in Clients : d # c => cascadeHandler'[d] = cascadeHandler[d]
  BY DEF CascadeInv, Cascade!TypeOK
<1>2. Cascade!HalfWay(c) => cascadeHandler[c].job \in cutJobs' \/ (cascadeHandler'[c].job = cascadeHandler[c].job /\ Cascade!HalfWay(c)')
  BY <1>1 DEF Cascade!HalfWay
<1>3. {c} \in SUBSET Clients
  OBVIOUS
<1>4. \A d \in Clients \ {c} : cascadeHandler'[d] = cascadeHandler[d]
  BY <1>1
<1>5. \A d \in {c} : CascadeHandlerOK(d)' /\ cascadeHandler'[d].pc # "add"
  BY <1>1
<1>6. \A d \in {c} : Cascade!HalfWay(d) => cascadeHandler[d].job \in cutJobs' \/ (cascadeHandler'[d].job = cascadeHandler[d].job /\ Cascade!HalfWay(d)')
  BY <1>2
<1>7. QED
  BY <1>3, <1>4, <1>5, <1>6, CascadeSweepStep

\* Nothing that is stored changes.
LEMMA CascadeSameStored ==
    ASSUME UNCHANGED <<children, embedding, stray>>
    PROVE  \A j \in Jobs, r \in CascadeSwept : CascadeTold(j, r)' <=> CascadeTold(j, r)
BY DEF CascadeTold

\* A route that creates a child of a job first reads the application.
LEMMA CascadeCreatePreserves ==
    ASSUME CascadeInv, NEW c \in Clients, NEW j \in Jobs, NEW kind \in Cascade!Kinds, Cascade!Create(c, j, kind) PROVE CascadeInv'
<1>1. PICK h \in Cascade!Handler : h = [pc |-> "insert", job |-> j, kind |-> kind]
  BY DEF Cascade!Handler
<1>2. h.pc = "insert" /\ h.job = j /\ h.kind = kind
  BY <1>1
<1>3. /\ cascadeHandler' = [cascadeHandler EXCEPT ![c] = h] /\ cascadeHandler[c].pc = "idle"
      /\ UNCHANGED <<job, application, children, embedding, indexing, stray, detached, cutJobs>>
  BY <1>1 DEF Cascade!Create, Cascade!Accept, Cascade!Idle
<1>4. cascadeHandler'[c] = h /\ Cascade!TypeOK'
  BY <1>3 DEF CascadeInv, Cascade!TypeOK
<1>5. CascadeHandlerOK(c)'
  BY <1>2, <1>4, CascadeOrder DEF CascadeHandlerOK, CascadePassed
<1>6. \A i \in Jobs, r \in CascadeSwept : CascadeTold(i, r) => CascadeTold(i, r)' \/ ~Cascade!TooLate(i, r)
  BY <1>3, CascadeSameStored
<1>7. ~Cascade!HalfWay(c)
  BY <1>3 DEF Cascade!HalfWay
<1>8. QED
  BY <1>2, <1>3, <1>4, <1>5, <1>6, <1>7, CascadeRequestStep

\* delete_job starts its cascade at the documents.
LEMMA CascadeDeleteJobPreserves ==
    ASSUME CascadeInv, NEW c \in Clients, NEW j \in Jobs, Cascade!DeleteJob(c, j) PROVE CascadeInv'
<1>1. PICK h \in Cascade!Handler : h = [pc |-> "document", job |-> j, kind |-> "none"]
  BY CascadeOrder DEF Cascade!Handler
<1>2. h.pc = "document" /\ h.job = j
  BY <1>1
<1>3. /\ cascadeHandler' = [cascadeHandler EXCEPT ![c] = h] /\ cascadeHandler[c].pc = "idle"
      /\ UNCHANGED <<job, application, children, embedding, indexing, stray, detached, cutJobs>>
      /\ application[j] = "present"
  BY <1>1, CascadeOrder DEF Cascade!DeleteJob, Cascade!Accept, Cascade!Idle
<1>4. cascadeHandler'[c] = h /\ Cascade!TypeOK'
  BY <1>3 DEF CascadeInv, Cascade!TypeOK
<1>5. CascadeHandlerOK(c)'
  <2>1. \A r \in CascadeSwept : ~CascadePassed(c, r)'
    BY <1>2, <1>4, CascadeOrder DEF CascadePassed, CascadeSwept
  <2>2. QED
    BY <1>2, <1>3, <1>4, <2>1 DEF CascadeHandlerOK
<1>6. \A i \in Jobs, r \in CascadeSwept : CascadeTold(i, r) => CascadeTold(i, r)' \/ ~Cascade!TooLate(i, r)
  BY <1>3, CascadeSameStored
<1>7. ~Cascade!HalfWay(c)
  BY <1>3 DEF Cascade!HalfWay
<1>8. QED
  BY <1>2, <1>3, <1>4, <1>5, <1>6, <1>7, CascadeRequestStep

\* A call of the database raises, half way through a cascade or not.
LEMMA CascadeFailsPreserves ==
    ASSUME CascadeInv, NEW c \in Clients, Cascade!Fails(c)
    PROVE  CascadeInv'
<1>1. /\ cascadeHandler' = [cascadeHandler EXCEPT ![c] = Cascade!NoHandler] /\ cascadeHandler[c].job \in Jobs
      /\ cutJobs' = IF Cascade!HalfWay(c) THEN cutJobs \cup {cascadeHandler[c].job} ELSE cutJobs
      /\ UNCHANGED <<job, application, children, embedding, indexing, stray, detached>>
  BY DEF Cascade!Fails, Cascade!Finish, CascadeInv, CascadeHandlerOK
<1>2. cascadeHandler'[c] = Cascade!NoHandler /\ Cascade!TypeOK'
  BY <1>1, CascadeDefaults DEF CascadeInv, Cascade!TypeOK
<1>3. CascadeHandlerOK(c)'
  BY <1>2, CascadeDefaults, CascadeOrder DEF CascadeHandlerOK, CascadePassed
<1>4. \A i \in Jobs, r \in CascadeSwept : CascadeTold(i, r) => CascadeTold(i, r)' \/ ~Cascade!TooLate(i, r)
  BY <1>1, CascadeSameStored
<1>5. cutJobs \subseteq cutJobs' /\ (Cascade!HalfWay(c) => cascadeHandler[c].job \in cutJobs')
  BY <1>1
<1>6. QED
  BY <1>1, <1>2, <1>3, <1>4, <1>5, CascadeDefaults, CascadeRequestStep

\* What is inserted after a cascade has passed is a stray.
LEMMA CascadeInsertPreserves ==
    ASSUME CascadeInv, NEW c \in Clients, Cascade!Insert(c)
    PROVE  CascadeInv'
<1>1. PICK j \in Jobs, kind \in Cascade!Kinds : j = cascadeHandler[c].job /\ kind = cascadeHandler[c].kind
  BY DEF Cascade!Insert, CascadeInv, CascadeHandlerOK
<1>2. /\ cascadeHandler' = [cascadeHandler EXCEPT ![c] = Cascade!NoHandler] /\ cascadeHandler[c].pc = "insert"
      /\ children' = [children EXCEPT ![j] = @ \cup {kind}]
      /\ stray' = IF kind \in Cascade!Removals /\ Cascade!TooLate(j, kind)
                  THEN [stray EXCEPT ![j] = @ \cup {kind}] ELSE stray
      /\ UNCHANGED <<job, application, embedding, indexing, detached, cutJobs>>
  BY <1>1 DEF Cascade!Insert, Cascade!Finish
<1>3. Cascade!TypeOK'
  <2>1. children' \in [Jobs -> SUBSET Cascade!Kinds] /\ stray' \in [Jobs -> SUBSET (Cascade!Kinds \cup {"embedding"})]
    BY <1>2 DEF CascadeInv, Cascade!TypeOK
  <2>2. cascadeHandler' \in [Clients -> Cascade!Handler]
    BY <1>2, CascadeDefaults DEF CascadeInv, Cascade!TypeOK
  <2>3. QED
    BY <1>2, <2>1, <2>2 DEF CascadeInv, Cascade!TypeOK
<1>4. cascadeHandler'[c] = Cascade!NoHandler
  BY <1>2 DEF CascadeInv, Cascade!TypeOK
<1>5. CascadeHandlerOK(c)'
  BY <1>4, CascadeDefaults, CascadeOrder DEF CascadeHandlerOK, CascadePassed
<1>6. ASSUME NEW i \in Jobs, NEW r \in CascadeSwept, CascadeTold(i, r)
      PROVE  CascadeTold(i, r)' \/ ~Cascade!TooLate(i, r)
  <2>1. /\ children'[i] = IF i = j THEN children[i] \cup {kind} ELSE children[i]
        /\ i = j /\ kind \in Cascade!Removals /\ Cascade!TooLate(j, kind) => stray'[i] = stray[i] \cup {kind}
        /\ stray[i] \subseteq stray'[i]
    BY <1>2 DEF CascadeInv, Cascade!TypeOK
  <2>2. CASE i = j /\ r = kind
    <3>1. kind \in Cascade!Removals
      BY <2>2, CascadeOrder DEF CascadeSwept
    <3>2. QED
      BY <2>1, <2>2, <3>1 DEF CascadeTold
  <2>3. CASE i # j \/ r # kind
    BY <1>2, <1>6, <2>1, <2>3 DEF CascadeTold
  <2>4. QED
    BY <2>2, <2>3
<1>7. ~Cascade!HalfWay(c)
  BY <1>2 DEF Cascade!HalfWay
<1>8. QED
  BY <1>2, <1>3, <1>5, <1>6, <1>7, CascadeDefaults, CascadeRequestStep

\* A child deleted by its own route is one less to remove.
LEMMA CascadeDeleteChildPreserves ==
    ASSUME CascadeInv, NEW c \in Clients, NEW j \in Jobs, NEW kind \in Cascade!Kinds, Cascade!DeleteChild(c, j, kind)
    PROVE  CascadeInv'
<1>1. /\ cascadeHandler' = [cascadeHandler EXCEPT ![c] = cascadeHandler[c]] /\ cascadeHandler[c] \in Cascade!Handler
      /\ cascadeHandler[c].pc = "idle"
      /\ children' = [children EXCEPT ![j] = @ \ {kind}]
      /\ stray' = [stray EXCEPT ![j] = @ \ {kind}]
      /\ UNCHANGED <<job, application, embedding, indexing, cascadeHandler, detached, cutJobs>>
  BY DEF Cascade!DeleteChild, Cascade!Idle, CascadeInv, Cascade!TypeOK
<1>2. Cascade!TypeOK'
  BY <1>1 DEF CascadeInv, Cascade!TypeOK
<1>3. CascadeHandlerOK(c)'
  BY <1>1, CascadeOrder DEF CascadeHandlerOK, CascadePassed
<1>4. ASSUME NEW i \in Jobs, NEW r \in CascadeSwept, CascadeTold(i, r) PROVE CascadeTold(i, r)'
  <2>1. /\ children'[i] = IF i = j THEN children[i] \ {kind} ELSE children[i]
        /\ stray'[i] = IF i = j THEN stray[i] \ {kind} ELSE stray[i]
    BY <1>1 DEF CascadeInv, Cascade!TypeOK
  <2>2. kind # "embedding"
    BY DEF Cascade!Kinds
  <2>3. QED
    BY <1>1, <1>4, <2>1, <2>2 DEF CascadeTold
<1>5. ~Cascade!HalfWay(c)
  BY <1>1 DEF Cascade!HalfWay
<1>6. QED
  BY <1>1, <1>2, <1>3, <1>4, <1>5, CascadeRequestStep

\* The handler of a cascade after its next removal.
LEMMA CascadeContinued ==
    ASSUME NEW h \in Cascade!Handler, h.pc \in {"document", "message", "interview", "application", "embedding"},
           NEW next, next = [h EXCEPT !.pc = Cascade!Cascade[Cascade!Place(@) + 1]]
    PROVE  /\ next \in Cascade!Handler /\ next.job = h.job
           /\ next.pc \in {"message", "interview", "application", "embedding", "job"}
           /\ Cascade!Place(next.pc) = Cascade!Place(h.pc) + 1
<1>1. /\ Cascade!Cascade[Cascade!Place(h.pc) + 1] \in {"message", "interview", "application", "embedding", "job"}
      /\ Cascade!Place(Cascade!Cascade[Cascade!Place(h.pc) + 1]) = Cascade!Place(h.pc) + 1
  BY CascadeOrder
<1>2. /\ next.pc = Cascade!Cascade[Cascade!Place(h.pc) + 1] /\ next.job = h.job
      /\ next \in Cascade!Handler
  <2>1. Cascade!Cascade[Cascade!Place(h.pc) + 1] \in Cascade!Removals
    BY <1>1, CascadeOrder
  <2>2. QED
    BY <2>1 DEF Cascade!Handler
<1>3. QED
  BY <1>1, <1>2

\* A cascade removes r of its job, or leaves it as a stray, and goes on.
LEMMA CascadeRemovePreserves ==
    ASSUME CascadeInv, NEW c \in Clients, NEW r \in CascadeSwept, cascadeHandler[c].pc = r, Cascade!Continue(c), Cascade!TypeOK',
           NEW j \in Jobs, j = cascadeHandler[c].job,
           UNCHANGED <<job, application, detached, cutJobs>>,
           CascadeTold(j, r)',
           \A i \in Jobs, q \in CascadeSwept : CascadeTold(i, q) => CascadeTold(i, q)'
    PROVE  CascadeInv'
<1> USE DEF CascadeInv
<1>1. cascadeHandler[c] \in Cascade!Handler /\ cascadeHandler[c].pc \in {"document", "message", "interview", "application", "embedding"}
  BY DEF Cascade!TypeOK, CascadeSwept
<1>2. PICK h : h = [cascadeHandler[c] EXCEPT !.pc = Cascade!Cascade[Cascade!Place(@) + 1]]
  OBVIOUS
<1>3. /\ h \in Cascade!Handler /\ h.job = cascadeHandler[c].job
      /\ h.pc \in {"message", "interview", "application", "embedding", "job"}
      /\ Cascade!Place(h.pc) = Cascade!Place(r) + 1
  BY <1>1, <1>2, CascadeContinued
<1>4. cascadeHandler' = [cascadeHandler EXCEPT ![c] = h]
  BY <1>2 DEF Cascade!Continue, Cascade!TypeOK
<1>5. cascadeHandler'[c] = h
  BY <1>4 DEF Cascade!TypeOK
<1>6. h.pc \in {"embedding", "job"} => r = "embedding"
  BY <1>3, CascadeOrder DEF CascadeSwept
<1>7. CascadeHandlerOK(c)'
  <2>1. ASSUME NEW q \in CascadeSwept, CascadePassed(c, q)' PROVE CascadeTold(j, q)'
    <3>1. Cascade!Place(q) <= Cascade!Place(r) /\ Cascade!Place(q) \in Nat /\ Cascade!Place(r) \in Nat
      BY <1>3, <1>5, <2>1, CascadeOrder DEF CascadePassed, CascadeSwept
    <3>2. CASE Cascade!Place(q) = Cascade!Place(r)
      BY <3>2, CascadeOrder DEF CascadeSwept
    <3>3. CASE Cascade!Place(q) < Cascade!Place(r)
      <4>1. CascadePassed(c, q)
        BY <3>3, CascadeOrder DEF CascadePassed, CascadeSwept
      <4>2. CascadeTold(j, q)
        BY <4>1 DEF CascadeHandlerOK
      <4>3. QED
        BY <4>2
    <3>4. QED
      BY <3>1, <3>2, <3>3
  <2>2. /\ j \in Jobs /\ application[j] # "absent"
        /\ r = "embedding" => application[j] = "deleted"
    BY <1>1, CascadeOrder DEF CascadeHandlerOK
  <2>3. QED
    BY <1>3, <1>5, <1>6, <2>1, <2>2 DEF CascadeHandlerOK
<1>8. Cascade!HalfWay(c) => h.pc \in {"embedding", "job"}
  <2>1. Cascade!HalfWay(c) => r = "embedding"
    BY DEF Cascade!HalfWay, CascadeSwept
  <2>2. QED
    BY <1>3, <2>1, CascadeOrder
<1>9. QED
  BY <1>3, <1>4, <1>7, <1>8, CascadeRequestStep

\* The cascade removes all children of one kind and goes on.
LEMMA CascadeRemoveChildrenPreserves ==
    ASSUME CascadeInv, NEW c \in Clients, Cascade!RemoveChildren(c)
    PROVE  CascadeInv'
<1>1. PICK j \in Jobs, r \in {"document", "message", "interview"} : j = cascadeHandler[c].job /\ r = cascadeHandler[c].pc
  BY CascadeOrder DEF Cascade!RemoveChildren, CascadeInv, CascadeHandlerOK
<1>2. /\ children' = [children EXCEPT ![j] = @ \ {r}]
      /\ stray' = [stray EXCEPT ![j] = @ \ {r}]
      /\ UNCHANGED <<job, application, embedding, indexing, detached, cutJobs>>
      /\ Cascade!Continue(c)
  BY <1>1 DEF Cascade!RemoveChildren
<1>3. cascadeHandler' \in [Clients -> Cascade!Handler]
  <2>1. PICK h : h = [cascadeHandler[c] EXCEPT !.pc = Cascade!Cascade[Cascade!Place(@) + 1]]
    OBVIOUS
  <2>2. cascadeHandler[c] \in Cascade!Handler
    BY DEF CascadeInv, Cascade!TypeOK
  <2>3. h \in Cascade!Handler
    BY <1>1, <2>1, <2>2, CascadeContinued
  <2>4. cascadeHandler' = [cascadeHandler EXCEPT ![c] = h]
    BY <1>2, <2>1 DEF Cascade!Continue, CascadeInv, Cascade!TypeOK
  <2>5. QED
    BY <2>3, <2>4 DEF CascadeInv, Cascade!TypeOK
<1>4. Cascade!TypeOK'
  BY <1>2, <1>3 DEF CascadeInv, Cascade!TypeOK
<1>5. ASSUME NEW i \in Jobs PROVE /\ children'[i] = IF i = j THEN children[i] \ {r} ELSE children[i]
                                  /\ stray'[i] = IF i = j THEN stray[i] \ {r} ELSE stray[i]
  BY <1>2 DEF CascadeInv, Cascade!TypeOK
<1>6. ASSUME NEW i \in Jobs, NEW q \in CascadeSwept, CascadeTold(i, q) PROVE CascadeTold(i, q)'
  BY <1>2, <1>5, <1>6 DEF CascadeTold
<1>7. CascadeTold(j, r)'
  BY <1>5 DEF CascadeTold
<1>8. r \in CascadeSwept
  BY DEF CascadeSwept
<1>9. QED
  BY <1>1, <1>2, <1>4, <1>6, <1>7, <1>8, CascadeRemovePreserves

\* The cascade removes the embedding and goes on to the job.
LEMMA CascadeRemoveEmbeddingPreserves ==
    ASSUME CascadeInv, NEW c \in Clients, Cascade!RemoveEmbedding(c)
    PROVE  CascadeInv'
<1>1. PICK j \in Jobs : j = cascadeHandler[c].job /\ cascadeHandler[c].pc = "embedding"
  BY CascadeOrder DEF Cascade!RemoveEmbedding, CascadeInv, CascadeHandlerOK
<1>2. /\ \/ /\ embedding' = [embedding EXCEPT ![j] = FALSE]
            /\ stray' = [stray EXCEPT ![j] = @ \ {"embedding"}]
         \/ /\ stray' = [stray EXCEPT ![j] = @ \cup {"embedding"}]
            /\ UNCHANGED embedding
      /\ UNCHANGED <<job, application, children, indexing, detached, cutJobs>>
      /\ Cascade!Continue(c)
  BY <1>1 DEF Cascade!RemoveEmbedding
<1>3. cascadeHandler' \in [Clients -> Cascade!Handler]
  <2>1. PICK h : h = [cascadeHandler[c] EXCEPT !.pc = Cascade!Cascade[Cascade!Place(@) + 1]]
    OBVIOUS
  <2>2. cascadeHandler[c] \in Cascade!Handler
    BY DEF CascadeInv, Cascade!TypeOK
  <2>3. h \in Cascade!Handler
    BY <1>1, <2>1, <2>2, CascadeContinued
  <2>4. cascadeHandler' = [cascadeHandler EXCEPT ![c] = h]
    BY <1>2, <2>1 DEF Cascade!Continue, CascadeInv, Cascade!TypeOK
  <2>5. QED
    BY <2>3, <2>4 DEF CascadeInv, Cascade!TypeOK
<1>4. Cascade!TypeOK'
  <2>1. embedding' \in [Jobs -> BOOLEAN] /\ stray' \in [Jobs -> SUBSET (Cascade!Kinds \cup {"embedding"})]
    BY ZenonT(40), <1>2 DEF CascadeInv, Cascade!TypeOK
  <2>2. QED
    BY <1>2, <1>3, <2>1 DEF CascadeInv, Cascade!TypeOK
<1>5. /\ \A i \in Jobs, q \in CascadeSwept : CascadeTold(i, q) => CascadeTold(i, q)'
      /\ CascadeTold(j, "embedding")'
  <2>1. CASE /\ embedding' = [embedding EXCEPT ![j] = FALSE]
             /\ stray' = [stray EXCEPT ![j] = @ \ {"embedding"}]
    <3>1. ASSUME NEW i \in Jobs
          PROVE  /\ IF i = j THEN embedding'[i] = FALSE ELSE embedding'[i] = embedding[i]
                 /\ stray'[i] = IF i = j THEN stray[i] \ {"embedding"} ELSE stray[i]
      BY <2>1 DEF CascadeInv, Cascade!TypeOK
    <3>2. ASSUME NEW i \in Jobs, NEW q \in CascadeSwept, CascadeTold(i, q) PROVE CascadeTold(i, q)'
      BY <1>2, <3>1, <3>2 DEF CascadeTold
    <3>3. QED
      BY <3>1, <3>2 DEF CascadeTold
  <2>2. CASE stray' = [stray EXCEPT ![j] = @ \cup {"embedding"}] /\ UNCHANGED embedding
    <3>1. ASSUME NEW i \in Jobs
          PROVE  stray'[i] = IF i = j THEN stray[i] \cup {"embedding"} ELSE stray[i]
      BY <2>2 DEF CascadeInv, Cascade!TypeOK
    <3>2. ASSUME NEW i \in Jobs, NEW q \in CascadeSwept, CascadeTold(i, q) PROVE CascadeTold(i, q)'
      BY <1>2, <2>2, <3>1, <3>2 DEF CascadeTold
    <3>3. QED
      BY <3>1, <3>2 DEF CascadeTold
  <2>3. QED
    BY <1>2, <2>1, <2>2
<1>6. "embedding" \in CascadeSwept
  BY DEF CascadeSwept
<1>7. QED
  BY <1>1, <1>2, <1>4, <1>5, <1>6, CascadeRemovePreserves

\* The indexing stores after the removal only a stray.
LEMMA CascadeIndexReadsPreserves ==
    ASSUME CascadeInv, NEW j \in Jobs, Cascade!IndexReads(j)
    PROVE  CascadeInv'
<1>1. UNCHANGED <<job, application, children, embedding, cascadeHandler, stray, detached, cutJobs>>
  BY DEF Cascade!IndexReads
<1>2. Cascade!TypeOK'
  BY DEF Cascade!IndexReads, CascadeInv, Cascade!TypeOK
<1>3. \A i \in Jobs, r \in CascadeSwept : CascadeTold(i, r) => CascadeTold(i, r)' \/ ~Cascade!TooLate(i, r)
  BY <1>1, CascadeSameStored
<1>4. PICK C \in SUBSET Clients : C = {}
  OBVIOUS
<1>5. QED
  BY <1>1, <1>2, <1>3, <1>4, CascadeSweepStep

\* The task that indexes a job stores its embedding, late or not.
LEMMA CascadeIndexStoresPreserves ==
    ASSUME CascadeInv, NEW j \in Jobs, Cascade!IndexStores(j)
    PROVE  CascadeInv'
<1>1. PICK stored \in BOOLEAN :
        /\ embedding' = [embedding EXCEPT ![j] = stored]
        /\ stray' = IF stored /\ Cascade!TooLate(j, "embedding")
                    THEN [stray EXCEPT ![j] = @ \cup {"embedding"}] ELSE stray
  BY DEF Cascade!IndexStores
<1>2. UNCHANGED <<job, application, children, cascadeHandler, detached, cutJobs>>
  BY DEF Cascade!IndexStores
<1>3. Cascade!TypeOK'
  <2>1. embedding' \in [Jobs -> BOOLEAN]
    BY <1>1 DEF CascadeInv, Cascade!TypeOK
  <2>2. stray' \in [Jobs -> SUBSET (Cascade!Kinds \cup {"embedding"})]
    BY <1>1 DEF CascadeInv, Cascade!TypeOK
  <2>3. indexing' \in [Jobs -> {"none", "queued", "read"}]
    BY DEF Cascade!IndexStores, CascadeInv, Cascade!TypeOK
  <2>4. QED
    BY <1>2, <2>1, <2>2, <2>3 DEF CascadeInv, Cascade!TypeOK
<1>4. ASSUME NEW i \in Jobs, NEW r \in CascadeSwept, CascadeTold(i, r)
      PROVE  CascadeTold(i, r)' \/ ~Cascade!TooLate(i, r)
  <2>1. stray[i] \subseteq stray'[i]
    BY <1>1 DEF CascadeInv, Cascade!TypeOK
  <2>2. CASE r # "embedding"
    BY <1>2, <1>4, <2>1, <2>2 DEF CascadeTold
  <2>3. CASE r = "embedding" /\ i # j
    BY <1>1, <1>4, <2>1, <2>3 DEF CascadeTold, CascadeInv, Cascade!TypeOK
  <2>4. CASE r = "embedding" /\ i = j
    <3>1. CASE stored /\ Cascade!TooLate(j, "embedding")
      <4>1. "embedding" \in stray'[j]
        BY <1>1, <3>1 DEF CascadeInv, Cascade!TypeOK
      <4>2. QED
        BY <2>4, <4>1 DEF CascadeTold
    <3>2. CASE ~stored
      <4>1. ~embedding'[j]
        BY <1>1, <3>2 DEF CascadeInv, Cascade!TypeOK
      <4>2. QED
        BY <2>4, <4>1 DEF CascadeTold
    <3>3. CASE ~Cascade!TooLate(j, "embedding")
      BY <2>4, <3>3
    <3>4. QED
      BY <3>1, <3>2, <3>3
  <2>5. QED
    BY <2>2, <2>3, <2>4
<1>5. PICK C \in SUBSET Clients : C = {}
  OBVIOUS
<1>6. QED
  BY <1>2, <1>3, <1>4, <1>5, CascadeSweepStep

\* A restart cuts every request off; the jobs half way are in "cutJobs".
LEMMA CascadeCrashPreserves == ASSUME CascadeInv, Cascade!Crash PROVE CascadeInv'
<1>1. /\ \A d \in Clients : cascadeHandler'[d] = Cascade!NoHandler
      /\ cutJobs' = cutJobs \cup {cascadeHandler[c].job : c \in {d \in Clients : Cascade!HalfWay(d)}}
      /\ UNCHANGED <<job, application, children, embedding, stray, detached>>
  BY DEF Cascade!Crash
<1>2. ASSUME NEW d \in Clients, Cascade!HalfWay(d)
      PROVE  cascadeHandler[d].job \in cutJobs' /\ cascadeHandler[d].job \in Jobs
  BY <1>1, <1>2 DEF Cascade!HalfWay, CascadeInv, CascadeHandlerOK
<1>3. Cascade!TypeOK'
  <2>1. cutJobs' \subseteq Jobs
    BY <1>1, <1>2 DEF CascadeInv, Cascade!TypeOK
  <2>2. cascadeHandler' \in [Clients -> Cascade!Handler]
    BY CascadeDefaults DEF Cascade!Crash
  <2>3. indexing' \in [Jobs -> {"none", "queued", "read"}]
    BY DEF Cascade!Crash
  <2>4. QED
    BY <1>1, <2>1, <2>2, <2>3 DEF CascadeInv, Cascade!TypeOK
<1>4. \A d \in Clients : CascadeHandlerOK(d)' /\ cascadeHandler'[d].pc # "add"
  BY <1>1, CascadeDefaults, CascadeOrder DEF CascadeHandlerOK, CascadePassed
<1>5. \A i \in Jobs, r \in CascadeSwept : CascadeTold(i, r) => CascadeTold(i, r)' \/ ~Cascade!TooLate(i, r)
  BY <1>1, CascadeSameStored
<1>6. PICK C \in SUBSET Clients : C = Clients
  OBVIOUS
<1>7. cutJobs \subseteq cutJobs'
  BY <1>1
<1>8. QED
  BY <1>1, <1>2, <1>3, <1>4, <1>5, <1>6, <1>7, CascadeSweepStep


\* A step of one request that adds or removes j or its application: nobody
\* else adds j, and a cascade on j still finds its application removed.
LEMMA CascadePairStep ==
    ASSUME CascadeInv, Cascade!TypeOK', NEW c \in Clients, NEW j \in Jobs,
           NEW h \in Cascade!Handler, cascadeHandler' = [cascadeHandler EXCEPT ![c] = h],
           UNCHANGED <<children, embedding, stray>>,
           \A i \in Jobs : i # j => job'[i] = job[i] /\ application'[i] = application[i],
           cutJobs' = cutJobs, detached \subseteq detached',
           \A d \in Clients \ {c} : cascadeHandler[d].pc = "add" => cascadeHandler[d].job # j,
           \A d \in Clients \ {c} : cascadeHandler[d].pc \in Cascade!Removals /\ cascadeHandler[d].job = j =>
              application'[j] # "absent" /\ (application[j] = "deleted" => application'[j] = "deleted"),
           CascadeHandlerOK(c)', CascadeJobOK(j)', h.pc = "add" => h.job = j,
           Cascade!HalfWay(c) => cascadeHandler[c].job = j
    PROVE  CascadeInv'
<1> USE DEF CascadeInv
<1>1. cascadeHandler'[c] = h /\ \A d \in Clients : d # c => cascadeHandler'[d] = cascadeHandler[d]
  BY DEF Cascade!TypeOK
<1>2. \A i \in Jobs, r \in CascadeSwept : CascadeTold(i, r)' <=> CascadeTold(i, r)
  BY CascadeSameStored
<1>3. ASSUME NEW d \in Clients, d # c PROVE CascadeHandlerOK(d)'
  <2>1. PICK g : g = cascadeHandler[d]
    OBVIOUS
  <2>2. cascadeHandler'[d] = g
    BY <1>1, <1>3, <2>1
  <2>3. ASSUME NEW r \in CascadeSwept, CascadePassed(d, r)' PROVE CascadeTold(g.job, r)'
    <3>1. CascadePassed(d, r)
      BY <2>1, <2>2, <2>3 DEF CascadePassed
    <3>2. g.job \in Jobs /\ CascadeTold(g.job, r)
      BY <2>1, <3>1, CascadeOrder DEF CascadeHandlerOK, CascadePassed
    <3>3. QED
      BY <1>2, <3>2
  <2>4. /\ g.pc # "idle" => g.job \in Jobs
        /\ g.pc = "insert" => g.kind \in Cascade!Kinds
        /\ g.pc = "add" => job[g.job] = "present" /\ application[g.job] = "absent"
        /\ g.pc \in Cascade!Removals => application[g.job] # "absent"
        /\ g.pc \in {"embedding", "job"} => application[g.job] = "deleted"
    BY <2>1 DEF CascadeHandlerOK
  <2>5. g.pc = "add" => job'[g.job] = "present" /\ application'[g.job] = "absent"
    BY <1>3, <2>1, <2>4
  <2>6. g.pc \in Cascade!Removals => application'[g.job] # "absent"
    BY <1>3, <2>1, <2>4, CascadeOrder
  <2>7. g.pc \in {"embedding", "job"} => application'[g.job] = "deleted"
    BY <1>3, <2>1, <2>4, CascadeOrder
  <2>8. QED
    BY <2>2, <2>3, <2>4, <2>5, <2>6, <2>7 DEF CascadeHandlerOK
<1>4. ASSUME NEW a \in Clients, NEW d \in Clients PROVE CascadeAddedOnce(a, d)'
  <2>1. CASE a # c /\ d # c
    BY <1>1, <2>1 DEF CascadeAddedOnce
  <2>2. CASE a = c \/ d = c
    BY <1>1, <2>2 DEF CascadeAddedOnce
  <2>3. QED
    BY <2>1, <2>2
<1>5. ASSUME NEW i \in Jobs, i # j PROVE CascadeJobOK(i)'
  <2>1. job'[i] = job[i] /\ application'[i] = application[i]
    BY <1>5
  <2>2. ASSUME NEW d \in Clients, cascadeHandler[d].job = i, Cascade!HalfWay(d)
        PROVE  cascadeHandler'[d].job = i /\ Cascade!HalfWay(d)'
    <3>1. d # c
      BY <1>5, <2>2
    <3>2. QED
      BY <1>1, <2>2, <3>1 DEF Cascade!HalfWay
  <2>3. job'[i] = "present" /\ application'[i] # "present" =>
          i \in (cutJobs \cup detached)' \/ \E d \in Clients : cascadeHandler'[d].job = i /\ Cascade!HalfWay(d)'
    BY <2>1, <2>2 DEF CascadeJobOK
  <2>4. ASSUME application'[i] = "deleted", i \notin detached', NEW r \in CascadeSwept \ {"embedding"}
        PROVE  CascadeTold(i, r)'
    BY <1>2, <2>1, <2>4 DEF CascadeJobOK
  <2>5. job'[i] = "deleted" => CascadeTold(i, "embedding")'
    <3>1. "embedding" \in CascadeSwept
      BY DEF CascadeSwept
    <3>2. QED
      BY <1>2, <2>1, <3>1 DEF CascadeJobOK
  <2>6. QED
    BY <2>1, <2>3, <2>4, <2>5 DEF CascadeJobOK
<1>6. QED
  BY <1>3, <1>4, <1>5

\* add_job_manually inserts the job; its application is to come.
LEMMA CascadeAddJobPreserves ==
    ASSUME CascadeInv, NEW c \in Clients, NEW j \in Jobs, Cascade!AddJob(c, j)
    PROVE  CascadeInv'
<1>1. PICK h \in Cascade!Handler : h = [pc |-> "add", job |-> j, kind |-> "none"]
  BY DEF Cascade!Handler
<1>2. h.pc = "add" /\ h.job = j
  BY <1>1
<1>3. /\ cascadeHandler' = [cascadeHandler EXCEPT ![c] = h] /\ cascadeHandler[c].pc = "idle"
      /\ job[j] = "absent" /\ job' = [job EXCEPT ![j] = "present"]
      /\ UNCHANGED <<application, children, embedding, indexing, stray, detached, cutJobs>>
  BY <1>1 DEF Cascade!AddJob, Cascade!Accept, Cascade!Idle
<1>4. /\ cascadeHandler'[c] = h /\ job'[j] = "present"
      /\ \A i \in Jobs : i # j => job'[i] = job[i]
  BY <1>3 DEF CascadeInv, Cascade!TypeOK
<1>5. Cascade!TypeOK'
  BY <1>3 DEF CascadeInv, Cascade!TypeOK, Cascade!Presence
<1>6. application[j] = "absent"
  BY <1>3 DEF CascadeInv, CascadeJobOK
<1>7. CascadeHandlerOK(c)'
  BY <1>2, <1>3, <1>4, <1>6, CascadeOrder DEF CascadeHandlerOK, CascadePassed
<1>8. CascadeJobOK(j)'
  <2>1. cascadeHandler'[c].job = j /\ Cascade!HalfWay(c)'
    BY <1>2, <1>4 DEF Cascade!HalfWay
  <2>2. QED
    BY <1>3, <1>4, <1>6, <2>1 DEF CascadeJobOK
<1>9. \A d \in Clients \ {c} : cascadeHandler[d].pc = "add" => cascadeHandler[d].job # j
  BY <1>3 DEF CascadeInv, CascadeHandlerOK
<1>10. \A d \in Clients \ {c} : ~(cascadeHandler[d].pc \in Cascade!Removals /\ cascadeHandler[d].job = j)
  BY <1>6 DEF CascadeInv, CascadeHandlerOK
<1>11. ~Cascade!HalfWay(c)
  BY <1>3 DEF Cascade!HalfWay
<1>12. QED
  BY <1>2, <1>3, <1>4, <1>5, <1>7, <1>8, <1>9, <1>10, <1>11, CascadePairStep

\* add_job_manually inserts the application and is done.
LEMMA CascadeAddApplicationPreserves ==
    ASSUME CascadeInv, NEW c \in Clients, Cascade!AddApplication(c)
    PROVE  CascadeInv'
<1>1. PICK j \in Jobs : j = cascadeHandler[c].job /\ cascadeHandler[c].pc = "add"
  BY DEF Cascade!AddApplication, CascadeInv, CascadeHandlerOK
<1>2. /\ cascadeHandler' = [cascadeHandler EXCEPT ![c] = Cascade!NoHandler]
      /\ application' = [application EXCEPT ![j] = "present"]
      /\ UNCHANGED <<job, children, embedding, stray, detached, cutJobs>>
  BY <1>1 DEF Cascade!AddApplication, Cascade!Finish
<1>3. Cascade!TypeOK'
  <2>1. indexing' \in [Jobs -> {"none", "queued", "read"}]
    BY DEF Cascade!AddApplication, CascadeInv, Cascade!TypeOK
  <2>2. application' \in [Jobs -> Cascade!Presence] /\ cascadeHandler' \in [Clients -> Cascade!Handler]
    BY <1>2, CascadeDefaults DEF CascadeInv, Cascade!TypeOK, Cascade!Presence
  <2>3. QED
    BY <1>2, <2>1, <2>2 DEF CascadeInv, Cascade!TypeOK
<1>4. /\ cascadeHandler'[c] = Cascade!NoHandler /\ application'[j] = "present"
      /\ \A i \in Jobs : i # j => application'[i] = application[i]
  BY <1>2 DEF CascadeInv, Cascade!TypeOK
<1>5. job[j] = "present" /\ application[j] = "absent"
  BY <1>1 DEF CascadeInv, CascadeHandlerOK
<1>6. CascadeHandlerOK(c)'
  BY <1>4, CascadeDefaults, CascadeOrder DEF CascadeHandlerOK, CascadePassed
<1>7. CascadeJobOK(j)'
  BY <1>2, <1>4, <1>5 DEF CascadeJobOK
<1>8. \A d \in Clients \ {c} : cascadeHandler[d].pc = "add" => cascadeHandler[d].job # j
  BY <1>1 DEF CascadeInv, CascadeAddedOnce
<1>9. \A d \in Clients \ {c} : ~(cascadeHandler[d].pc \in Cascade!Removals /\ cascadeHandler[d].job = j)
  BY <1>5 DEF CascadeInv, CascadeHandlerOK
<1>10. QED
  BY <1>1, <1>2, <1>3, <1>4, <1>6, <1>7, <1>8, <1>9, CascadeDefaults, CascadePairStep

\* DELETE /applications deletes the application and nothing else: its job is detached.
LEMMA CascadeDeleteApplicationPreserves ==
    ASSUME CascadeInv, NEW c \in Clients, NEW j \in Jobs, Cascade!DeleteApplication(c, j) PROVE CascadeInv'
<1>1. /\ cascadeHandler' = [cascadeHandler EXCEPT ![c] = cascadeHandler[c]] /\ cascadeHandler[c] \in Cascade!Handler
      /\ cascadeHandler[c].pc = "idle" /\ application[j] = "present"
      /\ application' = [application EXCEPT ![j] = "deleted"]
      /\ detached' = detached \cup {j}
      /\ UNCHANGED <<job, children, embedding, indexing, cascadeHandler, stray, cutJobs>>
  BY DEF Cascade!DeleteApplication, Cascade!Idle, CascadeInv, Cascade!TypeOK
<1>2. Cascade!TypeOK'
  BY <1>1 DEF CascadeInv, Cascade!TypeOK, Cascade!Presence
<1>3. application'[j] = "deleted" /\ \A i \in Jobs : i # j => application'[i] = application[i]
  BY <1>1 DEF CascadeInv, Cascade!TypeOK
<1>4. CascadeHandlerOK(c)'
  BY <1>1, CascadeOrder DEF CascadeHandlerOK, CascadePassed
<1>5. CascadeJobOK(j)'
  <2>1. job[j] = "deleted" => CascadeTold(j, "embedding")'
    BY <1>1 DEF CascadeInv, CascadeJobOK
  <2>2. job[j] # "absent"
    BY <1>1 DEF CascadeInv, CascadeJobOK
  <2>3. QED
    BY <1>1, <1>3, <2>1, <2>2 DEF CascadeJobOK
<1>6. \A d \in Clients \ {c} : cascadeHandler[d].pc = "add" => cascadeHandler[d].job # j
  BY <1>1 DEF CascadeInv, CascadeHandlerOK
<1>7. ~Cascade!HalfWay(c)
  BY <1>1 DEF Cascade!HalfWay
<1>8. QED
  BY <1>1, <1>2, <1>3, <1>4, <1>5, <1>6, <1>7, CascadePairStep

\* The cascade removes the application; embedding and job are still to go.
LEMMA CascadeRemoveApplicationPreserves ==
    ASSUME CascadeInv, NEW c \in Clients, Cascade!RemoveApplication(c)
    PROVE  CascadeInv'
<1>1. PICK j \in Jobs : j = cascadeHandler[c].job /\ cascadeHandler[c].pc = "application"
  BY CascadeOrder DEF Cascade!RemoveApplication, CascadeInv, CascadeHandlerOK
<1>2. PICK h : h = [cascadeHandler[c] EXCEPT !.pc = Cascade!Cascade[Cascade!Place(@) + 1]]
  OBVIOUS
<1>3. /\ h \in Cascade!Handler /\ h.job = j /\ h.pc = "embedding"
  <2>1. cascadeHandler[c] \in Cascade!Handler
    BY DEF CascadeInv, Cascade!TypeOK
  <2>2. h \in Cascade!Handler /\ h.job = j /\ h.pc = Cascade!Cascade[Cascade!Place("application") + 1]
    BY <1>1, <1>2, <2>1, CascadeContinued DEF Cascade!Handler
  <2>3. QED
    BY <2>2, CascadeOrder
<1>4. /\ cascadeHandler' = [cascadeHandler EXCEPT ![c] = h]
      /\ application' = [application EXCEPT ![j] = "deleted"]
      /\ UNCHANGED <<job, children, embedding, indexing, stray, detached, cutJobs>>
  BY <1>1, <1>2 DEF Cascade!RemoveApplication, Cascade!Continue, CascadeInv, Cascade!TypeOK
<1>5. Cascade!TypeOK'
  BY <1>3, <1>4 DEF CascadeInv, Cascade!TypeOK, Cascade!Presence
<1>6. /\ cascadeHandler'[c] = h /\ application'[j] = "deleted"
      /\ \A i \in Jobs : i # j => application'[i] = application[i]
  BY <1>4 DEF CascadeInv, Cascade!TypeOK
<1>7. application[j] # "absent"
  BY <1>1, CascadeOrder DEF CascadeInv, CascadeHandlerOK
<1>8. \A r \in CascadeSwept \ {"embedding"} : CascadeTold(j, r)'
  <2>1. \A r \in CascadeSwept \ {"embedding"} : CascadePassed(c, r)
    BY <1>1, CascadeOrder DEF CascadePassed, CascadeSwept
  <2>2. \A r \in CascadeSwept \ {"embedding"} : CascadeTold(j, r)
    BY <1>1, <2>1 DEF CascadeInv, CascadeHandlerOK
  <2>3. QED
    BY <1>4, <2>2, CascadeSameStored
<1>9. CascadeHandlerOK(c)'
  <2>1. ASSUME NEW r \in CascadeSwept, CascadePassed(c, r)' PROVE r \in CascadeSwept \ {"embedding"}
    BY <1>3, <1>6, <2>1, CascadeOrder DEF CascadePassed, CascadeSwept
  <2>2. QED
    BY <1>3, <1>6, <1>8, <2>1, CascadeOrder DEF CascadeHandlerOK
<1>10. CascadeJobOK(j)'
  <2>1. cascadeHandler'[c].job = j /\ Cascade!HalfWay(c)'
    BY <1>3, <1>6 DEF Cascade!HalfWay
  <2>2. job[j] = "deleted" => CascadeTold(j, "embedding")'
    <3>1. "embedding" \in CascadeSwept
      BY DEF CascadeSwept
    <3>2. QED
      BY <1>4, <3>1, CascadeSameStored DEF CascadeInv, CascadeJobOK
  <2>3. job[j] # "absent"
    BY <1>7 DEF CascadeInv, CascadeJobOK
  <2>4. QED
    BY <1>4, <1>6, <1>8, <2>1, <2>2, <2>3 DEF CascadeJobOK
<1>11. \A d \in Clients \ {c} : cascadeHandler[d].pc = "add" => cascadeHandler[d].job # j
  BY <1>7 DEF CascadeInv, CascadeHandlerOK
<1>12. ~Cascade!HalfWay(c)
  BY <1>1 DEF Cascade!HalfWay
<1>13. QED
  BY <1>3, <1>4, <1>5, <1>6, <1>9, <1>10, <1>11, <1>12, CascadePairStep

\* The cascade ends with the job itself.
LEMMA CascadeRemoveJobPreserves ==
    ASSUME CascadeInv, NEW c \in Clients, Cascade!RemoveJob(c)
    PROVE  CascadeInv'
<1>1. PICK j \in Jobs : j = cascadeHandler[c].job /\ cascadeHandler[c].pc = "job"
  BY CascadeOrder DEF Cascade!RemoveJob, CascadeInv, CascadeHandlerOK
<1>2. /\ cascadeHandler' = [cascadeHandler EXCEPT ![c] = Cascade!NoHandler]
      /\ job' = [job EXCEPT ![j] = "deleted"]
      /\ UNCHANGED <<application, children, embedding, indexing, stray, detached, cutJobs>>
  BY <1>1 DEF Cascade!RemoveJob, Cascade!Finish
<1>3. Cascade!TypeOK'
  BY <1>2, CascadeDefaults DEF CascadeInv, Cascade!TypeOK, Cascade!Presence
<1>4. /\ cascadeHandler'[c] = Cascade!NoHandler /\ job'[j] = "deleted"
      /\ \A i \in Jobs : i # j => job'[i] = job[i]
  BY <1>2 DEF CascadeInv, Cascade!TypeOK
<1>5. application[j] = "deleted"
  BY <1>1 DEF CascadeInv, CascadeHandlerOK
<1>6. \A r \in CascadeSwept : CascadeTold(j, r)'
  <2>1. \A r \in CascadeSwept : CascadePassed(c, r)
    BY <1>1, CascadeOrder DEF CascadePassed, CascadeSwept
  <2>2. \A r \in CascadeSwept : CascadeTold(j, r)
    BY <1>1, <2>1 DEF CascadeInv, CascadeHandlerOK
  <2>3. QED
    BY <1>2, <2>2, CascadeSameStored
<1>7. CascadeHandlerOK(c)'
  BY <1>4, CascadeDefaults, CascadeOrder DEF CascadeHandlerOK, CascadePassed
<1>8. CascadeJobOK(j)'
  BY <1>2, <1>4, <1>5, <1>6 DEF CascadeJobOK, CascadeSwept
<1>9. \A d \in Clients \ {c} : cascadeHandler[d].pc = "add" => cascadeHandler[d].job # j
  BY <1>5 DEF CascadeInv, CascadeHandlerOK
<1>10. QED
  BY <1>1, <1>2, <1>3, <1>4, <1>5, <1>7, <1>8, <1>9, CascadeDefaults, CascadePairStep

\* A step that changes nothing of the jobs.
LEMMA CascadeStutterPreserves == ASSUME CascadeInv, UNCHANGED cascadeVars PROVE CascadeInv'
<1>1. Cascade!TypeOK'
  BY DEF cascadeVars, CascadeInv, Cascade!TypeOK
<1>2. \A i \in Jobs, r \in CascadeSwept : CascadeTold(i, r) => CascadeTold(i, r)' \/ ~Cascade!TooLate(i, r)
  BY CascadeSameStored DEF cascadeVars
<1>3. PICK C \in SUBSET Clients : C = {}
  OBVIOUS
<1>4. QED
  BY <1>1, <1>2, <1>3, CascadeSweepStep DEF cascadeVars

\* Every step of the job and application routes keeps the invariant.
LEMMA CascadeStep == CascadeInv /\ [Cascade!Next]_cascadeVars => CascadeInv'
<1> SUFFICES ASSUME CascadeInv, [Cascade!Next]_cascadeVars PROVE CascadeInv'
  OBVIOUS
<1>1. ASSUME NEW c \in Clients, Cascade!UserStep(c) PROVE CascadeInv'
  BY <1>1, CascadeAddJobPreserves, CascadeDeleteJobPreserves, CascadeDeleteApplicationPreserves,
       CascadeCreatePreserves,
     CascadeDeleteChildPreserves DEF Cascade!UserStep
<1>2. ASSUME NEW c \in Clients, Cascade!ServerStep(c) PROVE CascadeInv'
  BY <1>2, CascadeAddApplicationPreserves, CascadeInsertPreserves, CascadeRemoveChildrenPreserves,
     CascadeRemoveApplicationPreserves, CascadeRemoveEmbeddingPreserves, CascadeRemoveJobPreserves DEF Cascade!ServerStep
<1>3. ASSUME NEW j \in Jobs, Cascade!IndexReads(j) \/ Cascade!IndexStores(j) PROVE CascadeInv'
  BY <1>3, CascadeIndexReadsPreserves, CascadeIndexStoresPreserves
<1>4. QED
  BY <1>1, <1>2, <1>3, CascadeFailsPreserves, CascadeCrashPreserves, CascadeStutterPreserves
       DEF Cascade!Next

\* The invariant tells that jobs are paired and nothing is left behind.
LEMMA CascadeFollows == CascadeInv => Cascade!JobsArePaired /\ Cascade!NothingLeftBehind
<1> SUFFICES ASSUME CascadeInv PROVE Cascade!JobsArePaired /\ Cascade!NothingLeftBehind
  OBVIOUS
<1>1. Cascade!JobsArePaired
  BY DEF CascadeInv, Cascade!TypeOK, Cascade!Presence, CascadeJobOK, Cascade!JobsArePaired
<1>2. ASSUME NEW j \in Jobs \ detached, application[j] = "deleted"
      PROVE  children[j] \ {"mock_session"} \subseteq stray[j]
  <2>1. \A r \in CascadeSwept \ {"embedding"} : CascadeTold(j, r)
    BY <1>2 DEF CascadeInv, CascadeJobOK
  <2>2. children[j] \subseteq Cascade!Kinds
    BY DEF CascadeInv, Cascade!TypeOK
  <2>3. QED
    BY <2>1, <2>2 DEF CascadeSwept, Cascade!Kinds, CascadeTold
<1>3. ASSUME NEW j \in Jobs \ detached, job[j] = "deleted", embedding[j]
      PROVE  "embedding" \in stray[j]
  BY <1>3 DEF CascadeInv, CascadeJobOK, CascadeTold
<1>4. QED
  BY <1>1, <1>2, <1>3 DEF Cascade!NothingLeftBehind

-----------------------------------------------------------------------------
\* Daily activity: check_and_update_streak and record_action of streak_service.py.

\* The streak of a day, from that of the day before.
ActivityAfter(A, d, before) ==
    LET longer == before.streak + 1
        banked == before.freezes + 1
    IN  IF d \notin A THEN [before EXCEPT !.gap = TRUE]
        ELSE IF ~before.gap THEN
          [streak  |-> longer,
           freezes |-> IF longer % FreezeEarnInterval = 0 /\ banked <= MaxBankedFreezes
                       THEN banked ELSE before.freezes,
           gap     |-> FALSE]
        ELSE IF before.freezes > 0 THEN
          [before EXCEPT !.freezes = @ - 1, !.gap = FALSE]
        ELSE [streak |-> 0, freezes |-> 0, gap |-> FALSE]

ActivityStart == [streak |-> 0, freezes |-> 0, gap |-> TRUE]

ActivityStandings(A, m, f) == f = [d \in 0..m |-> IF d = 0 THEN ActivityStart ELSE ActivityAfter(A, d, f[d - 1])]

ActivityStanding == [streak : Nat, freezes : 0..MaxBankedFreezes, gap : BOOLEAN]

\* What a day makes of the standing before it, by cases.
LEMMA ActivityAfterIs ==
    ASSUME NEW A, NEW d, NEW b \in ActivityStanding
    PROVE  /\ ActivityAfter(A, d, b) \in ActivityStanding
           /\ d \notin A => /\ ActivityAfter(A, d, b).gap /\ ActivityAfter(A, d, b).streak = b.streak
                            /\ ActivityAfter(A, d, b).freezes = b.freezes
           /\ d \in A => ~ActivityAfter(A, d, b).gap
           /\ d \in A /\ ~b.gap =>
                /\ ActivityAfter(A, d, b).streak = b.streak + 1
                /\ ActivityAfter(A, d, b).freezes =
                     IF (b.streak + 1) % FreezeEarnInterval = 0 /\ b.freezes + 1 <= MaxBankedFreezes
                     THEN b.freezes + 1 ELSE b.freezes
           /\ d \in A /\ b.gap =>
                /\ ActivityAfter(A, d, b).streak = IF b.freezes > 0 THEN b.streak ELSE 0
                /\ ActivityAfter(A, d, b).freezes = IF b.freezes > 0 THEN b.freezes - 1 ELSE 0
<1>1. b.streak \in Nat /\ b.freezes \in 0..MaxBankedFreezes /\ b.gap \in BOOLEAN
  BY DEF ActivityStanding
<1>2. CASE d \notin A
  <2>1. ActivityAfter(A, d, b) = [b EXCEPT !.gap = TRUE]
    BY <1>2 DEF ActivityAfter
  <2>2. QED
    BY <1>1, <1>2, <2>1 DEF ActivityStanding
<1>3. CASE d \in A /\ ~b.gap
  <2>1. PICK f : f = IF (b.streak + 1) % FreezeEarnInterval = 0 /\ b.freezes + 1 <= MaxBankedFreezes
                     THEN b.freezes + 1 ELSE b.freezes
    OBVIOUS
  <2>2. ActivityAfter(A, d, b) = [streak |-> b.streak + 1, freezes |-> f, gap |-> FALSE]
    BY <1>3, <2>1 DEF ActivityAfter
  <2>3. f \in 0..MaxBankedFreezes
    BY <1>1, <2>1, BankedAssumption
  <2>4. QED
    BY <1>1, <1>3, <2>1, <2>2, <2>3 DEF ActivityStanding
<1>4. CASE d \in A /\ b.gap
  <2>1. CASE b.freezes > 0
    <3>1. ActivityAfter(A, d, b) = [b EXCEPT !.freezes = b.freezes - 1, !.gap = FALSE]
      BY <1>4, <2>1 DEF ActivityAfter
    <3>2. b.freezes - 1 \in 0..MaxBankedFreezes
      BY <1>1, <2>1, BankedAssumption
    <3>3. QED
      BY <1>1, <1>4, <2>1, <3>1, <3>2 DEF ActivityStanding
  <2>2. CASE ~(b.freezes > 0)
    <3>1. ActivityAfter(A, d, b) = [streak |-> 0, freezes |-> 0, gap |-> FALSE]
      BY <1>4, <2>2 DEF ActivityAfter
    <3>2. QED
      BY <1>1, <1>4, <2>2, <3>1, BankedAssumption DEF ActivityStanding
  <2>3. QED
    BY <2>1, <2>2
<1>5. QED
  BY <1>1, <1>2, <1>3, <1>4

\* The standing before the first day.
LEMMA ActivityStartIs ==
    ActivityStart \in ActivityStanding /\ ActivityStart.streak = 0 /\ ActivityStart.freezes = 0 /\ ActivityStart.gap
BY BankedAssumption DEF ActivityStart, ActivityStanding

\* The standings of the first k days exist: by the smallest k without them.
LEMMA ActivityStandingsExist == ASSUME NEW A, NEW k \in Nat PROVE \E f : ActivityStandings(A, k, f)
<1> DEFINE P(m) == \E f : ActivityStandings(A, m, f)
           Bad == {m \in Nat : ~P(m)}
<1>1. P(0)
  <2>1. PICK f : f = [d \in 0..0 |-> ActivityStart]
    OBVIOUS
  <2>2. ASSUME NEW d \in 0..0
        PROVE  ActivityStart = IF d = 0 THEN ActivityStart ELSE ActivityAfter(A, d, f[d - 1])
    OBVIOUS
  <2>3. ActivityStandings(A, 0, f)
    BY <2>1, <2>2 DEF ActivityStandings
  <2>4. QED
    BY <2>3
<1>2. ASSUME NEW m \in Nat, m # 0, P(m - 1) PROVE P(m)
  <2>1. PICK g : ActivityStandings(A, m - 1, g)
    BY <1>2
  <2>2. PICK f : f = [d \in 0..m |-> IF d = m THEN ActivityAfter(A, m, g[m - 1]) ELSE g[d]]
    OBVIOUS
  <2>3. f[m] = ActivityAfter(A, m, g[m - 1]) /\ \A d \in 0..m - 1 : f[d] = g[d]
    BY <1>2, <2>2
  <2>4. ASSUME NEW d \in 0..m
        PROVE  f[d] = IF d = 0 THEN ActivityStart ELSE ActivityAfter(A, d, f[d - 1])
    <3>1. CASE d = m
      <4>1. m - 1 \in 0..m - 1 /\ f[m - 1] = g[m - 1]
        BY <1>2, <2>3
      <4>2. QED
        BY <1>2, <2>3, <3>1, <4>1
    <3>2. CASE d # m
      <4>1. d \in 0..m - 1 /\ f[d] = g[d]
        BY <1>2, <2>3, <3>2
      <4>2. g[d] = IF d = 0 THEN ActivityStart ELSE ActivityAfter(A, d, g[d - 1])
        BY <2>1, <4>1 DEF ActivityStandings
      <4>3. d # 0 => d - 1 \in 0..m - 1 /\ f[d - 1] = g[d - 1]
        BY <1>2, <2>3, <3>2
      <4>4. QED
        BY <4>1, <4>2, <4>3
    <3>3. QED
      BY <3>1, <3>2
  <2>5. f = [d \in 0..m |-> f[d]]
    BY <2>2
  <2>6. ActivityStandings(A, m, f)
    BY <2>4, <2>5 DEF ActivityStandings
  <2>7. QED
    BY <2>6
<1>3. Bad = {}
  <2>1. SUFFICES ASSUME Bad # {} PROVE FALSE
    OBVIOUS
  <2>2. PICK m \in Bad : \A n \in Bad : m <= n
    <3>1. Bad \subseteq Nat
      OBVIOUS
    <3>2. QED
      BY <2>1, <3>1, MinNat
  <2>3. m # 0 /\ m \in Nat /\ ~P(m)
    BY <1>1, <2>2
  <2>4. m - 1 \in Nat /\ m - 1 \notin Bad
    BY <2>2, <2>3
  <2>5. P(m - 1)
    BY <2>4
  <2>6. QED
    BY <1>2, <2>3, <2>5
<1>4. QED
  BY <1>3

\* The rules, a day at a time.
LEMMA ActivityRulesUnfold ==
    ASSUME NEW A
    PROVE  /\ Activity!Rules(A)[0] = ActivityStart
           /\ \A d \in 1..MaxDay : Activity!Rules(A)[d] = ActivityAfter(A, d, Activity!Rules(A)[d - 1])
           /\ \A d \in 0..MaxDay : Activity!Rules(A)[d] \in ActivityStanding
<1> DEFINE R == CHOOSE f : ActivityStandings(A, MaxDay, f)
<1>1. ActivityStandings(A, MaxDay, R)
  BY ActivityStandingsExist, DaysAssumption
<1>2. Activity!Rules(A) = R
  BY Zenon DEF Activity!Rules, ActivityStandings, ActivityAfter, ActivityStart
<1> HIDE DEF R
<1>3. R[0] = ActivityStart /\ \A d \in 1..MaxDay : R[d] = ActivityAfter(A, d, R[d - 1])
  <2>1. ASSUME NEW d \in 0..MaxDay
        PROVE  R[d] = IF d = 0 THEN ActivityStart ELSE ActivityAfter(A, d, R[d - 1])
    BY <1>1 DEF ActivityStandings
  <2>2. 0 \in 0..MaxDay /\ \A d \in 1..MaxDay : d \in 0..MaxDay /\ d # 0
    BY DaysAssumption
  <2>3. QED
    BY <2>1, <2>2
<1> DEFINE Bad == {d \in 0..MaxDay : R[d] \notin ActivityStanding}
<1>4. Bad = {}
  <2>1. SUFFICES ASSUME Bad # {} PROVE FALSE
    OBVIOUS
  <2>2. PICK m \in Bad : \A n \in Bad : m <= n
    <3>1. Bad \subseteq Nat
      OBVIOUS
    <3>2. QED
      BY <2>1, <3>1, MinNat
  <2>3. m # 0 /\ m \in 0..MaxDay /\ R[m] \notin ActivityStanding
    BY <1>3, <2>2, ActivityStartIs
  <2>4. m \in 1..MaxDay /\ m - 1 \in 0..MaxDay /\ m - 1 \notin Bad
    BY <2>2, <2>3, DaysAssumption
  <2>5. R[m - 1] \in ActivityStanding
    BY <2>4
  <2>6. QED
    BY <1>3, <2>3, <2>4, <2>5, ActivityAfterIs
<1>5. QED
  BY <1>2, <1>3, <1>4

\* Days without entries leave streak and freezes as they are.
LEMMA ActivityGap ==
    ASSUME NEW A, NEW e \in 0..MaxDay, NEW k \in 0..MaxDay, e < k, \A x \in e + 1..k : x \notin A
    PROVE  /\ Activity!Rules(A)[k].gap
           /\ Activity!Rules(A)[k].streak = Activity!Rules(A)[e].streak
           /\ Activity!Rules(A)[k].freezes = Activity!Rules(A)[e].freezes
<1> DEFINE Same(x) == /\ Activity!Rules(A)[x].gap
                      /\ Activity!Rules(A)[x].streak = Activity!Rules(A)[e].streak
                      /\ Activity!Rules(A)[x].freezes = Activity!Rules(A)[e].freezes
           Bad == {x \in e + 1..k : ~Same(x)}
<1>1. Bad = {}
  <2>1. SUFFICES ASSUME Bad # {} PROVE FALSE
    OBVIOUS
  <2>2. PICK m \in Bad : \A n \in Bad : m <= n
    <3>1. Bad \subseteq Nat
      BY DaysAssumption
    <3>2. QED
      BY <2>1, <3>1, MinNat
  <2>3. m \in 1..MaxDay /\ m - 1 \in 0..MaxDay /\ m \in e + 1..k /\ ~Same(m)
    BY <2>2, DaysAssumption
  <2>4. Activity!Rules(A)[m] = ActivityAfter(A, m, Activity!Rules(A)[m - 1]) /\ Activity!Rules(A)[m - 1] \in ActivityStanding
    BY <2>3, ActivityRulesUnfold
  <2>5. m \notin A
    BY <2>3
  <2>6. /\ Activity!Rules(A)[m].gap
        /\ Activity!Rules(A)[m].streak = Activity!Rules(A)[m - 1].streak
        /\ Activity!Rules(A)[m].freezes = Activity!Rules(A)[m - 1].freezes
    BY <2>4, <2>5, ActivityAfterIs
  <2>7. CASE m - 1 = e
    BY <2>3, <2>6, <2>7
  <2>8. CASE m - 1 # e
    <3>1. m - 1 \in e + 1..k /\ m - 1 \notin Bad
      BY <2>2, <2>3, <2>8, DaysAssumption
    <3>2. Same(m - 1)
      BY <3>1
    <3>3. QED
      BY <2>3, <2>6, <3>2
  <2>9. QED
    BY <2>7, <2>8
<1>2. k \in e + 1..k
  BY DaysAssumption
<1>3. QED
  BY <1>1, <1>2

\* What check_and_update_streak makes of a day.
ActivityDue(d) ==
    LET yesterday == IF d > 1 THEN activity[d - 1] ELSE Activity!NoActivity
    IN  IF yesterday.actions > 0 THEN Activity!Continued(Activity!NoActivity, yesterday)
        ELSE Activity!Missed(Activity!NoActivity, Activity!LatestBefore(d - 1))

ActivityAsDue(mine, d) == mine.streak = ActivityDue(d).streak /\ mine.freezes = ActivityDue(d).freezes

ActivityBlurred == overwritten \cup rechecked

\* A copy under way has no bonus that its document could not have; and before a
\* midnight that crosses a request, the copies are of today and as due.
ActivityHandlerOK(c) ==
    LET h == activityHandler[c]
    IN  /\ h.pc \in {"check", "save", "append"} => h.mine.stored
        /\ h.pc \in {"check", "save"} => h.mine.actions = 0
        /\ h.pc = "check" /\ h.day \notin checked \cup ActivityBlurred => h.mine.bonuses = 0
        /\ h.pc = "save" /\ h.day \notin checked \cup ActivityBlurred => h.mine.bonuses <= 1
        /\ h.pc = "append" =>
             /\ h.day \notin ActivityBlurred => h.mine.bonuses <= 1
             /\ h.day \notin checked \cup ActivityBlurred => h.mine.bonuses = 0
        /\ ~crossedMidnight =>
             /\ h.pc \in {"insert", "check", "save", "append"} => h.day = today
             /\ h.pc = "insert" => h.phase = "check"
             /\ h.pc = "record" => activity[today].stored /\ ActivityAsDue(activity[today], today)
             /\ h.pc \in {"save", "append"} => ActivityAsDue(h.mine, today)

ActivityDayOK(d) ==
    /\ ~activity[d].stored => activity[d].actions = 0 /\ activity[d].bonuses = 0
    /\ d \notin overwritten => activity[d].actions = recorded[d]
    /\ d \notin ActivityBlurred => activity[d].bonuses <= 1
    /\ d \notin checked \cup ActivityBlurred => activity[d].bonuses = 0
    /\ ~crossedMidnight =>
         /\ d > today => ~activity[d].stored
         /\ activity[d].actions > 0 => ActivityAsDue(activity[d], d)

ActivityInv ==
    /\ Activity!TypeOK
    /\ \A c \in Clients : ActivityHandlerOK(c)
    /\ \A d \in Activity!Days : ActivityDayOK(d)

\* The default records have their types.
LEMMA ActivityDefaults ==
    /\ Activity!NoActivity \in Activity!Activity /\ ~Activity!NoActivity.stored /\ Activity!NoActivity.actions = 0
    /\ Activity!NoActivity.streak = 0 /\ Activity!NoActivity.freezes = 0 /\ Activity!NoActivity.bonuses = 0
    /\ Activity!NoHandler \in Activity!Handler /\ Activity!NoHandler.pc = "idle"
<1>1. /\ Activity!NoActivity \in Activity!Activity /\ ~Activity!NoActivity.stored /\ Activity!NoActivity.actions = 0
      /\ Activity!NoActivity.streak = 0 /\ Activity!NoActivity.freezes = 0 /\ Activity!NoActivity.bonuses = 0
  BY DEF Activity!NoActivity, Activity!Activity
<1>2. 1 \in Activity!Days
  BY DaysAssumption DEF Activity!Days
<1>3. Activity!NoHandler \in Activity!Handler /\ Activity!NoHandler.pc = "idle"
  BY <1>1, <1>2 DEF Activity!NoHandler, Activity!Handler
<1>4. QED
  BY <1>1, <1>3

\* A day that follows one with entries, and one that does not.
LEMMA ActivityContinuedIs ==
    ASSUME NEW mine \in Activity!Activity, NEW y \in Activity!Activity
    PROVE  /\ Activity!Continued(mine, y) \in Activity!Activity
           /\ Activity!Continued(mine, y).stored = mine.stored /\ Activity!Continued(mine, y).actions = mine.actions
           /\ Activity!Continued(mine, y).bonuses \in {mine.bonuses, mine.bonuses + 1}
           /\ Activity!Continued(mine, y).streak = y.streak + 1
           /\ Activity!Continued(mine, y).freezes = IF (y.streak + 1) % FreezeEarnInterval = 0
                                                    THEN Activity!Smaller(y.freezes + 1, MaxBankedFreezes)
                                                    ELSE y.freezes
<1>1. y.streak \in Nat /\ y.freezes \in Nat /\ mine.bonuses \in Nat
  BY DEF Activity!Activity
<1>2. PICK f : f = IF (y.streak + 1) % FreezeEarnInterval = 0
                   THEN Activity!Smaller(y.freezes + 1, MaxBankedFreezes) ELSE y.freezes
  OBVIOUS
<1>3. f \in Nat
  BY <1>1, <1>2, BankedAssumption DEF Activity!Smaller
<1>4. PICK b \in Nat : /\ b \in {mine.bonuses, mine.bonuses + 1}
                       /\ b = IF y.streak + 1 \in StreakMilestones THEN mine.bonuses + 1 ELSE mine.bonuses
  BY <1>1
<1>5. Activity!Continued(mine, y) = [mine EXCEPT !.streak = y.streak + 1, !.freezes = f, !.bonuses = b]
  BY <1>2, <1>4 DEF Activity!Continued, Activity!Activity
<1>6. PICK new : new = [mine EXCEPT !.streak = y.streak + 1, !.freezes = f, !.bonuses = b]
  OBVIOUS
<1>7. /\ new \in Activity!Activity /\ new.stored = mine.stored /\ new.actions = mine.actions
      /\ new.bonuses = b /\ new.streak = y.streak + 1 /\ new.freezes = f
  <2>1. PICK n \in Nat : n = y.streak + 1
    BY <1>1
  <2>2. new = [mine EXCEPT !.streak = n, !.freezes = f, !.bonuses = b]
    BY <1>6, <2>1
  <2>3. new \in Activity!Activity
    BY <1>3, <2>2 DEF Activity!Activity
  <2>4. /\ new.stored = mine.stored /\ new.actions = mine.actions
        /\ new.bonuses = b /\ new.streak = n /\ new.freezes = f
    BY <2>2 DEF Activity!Activity
  <2>5. QED
    BY <2>1, <2>3, <2>4
<1>8. Activity!Continued(mine, y) = new
  BY <1>5, <1>6
<1>9. QED
  BY <1>2, <1>4, <1>7, <1>8

\* What a missed day makes of a document.
LEMMA ActivityMissedIs ==
    ASSUME NEW mine \in Activity!Activity, NEW p \in Activity!Activity
    PROVE  /\ Activity!Missed(mine, p) \in Activity!Activity
           /\ Activity!Missed(mine, p).stored = mine.stored /\ Activity!Missed(mine, p).actions = mine.actions
           /\ Activity!Missed(mine, p).bonuses = mine.bonuses
           /\ Activity!Missed(mine, p).streak = IF p.freezes > 0 THEN p.streak ELSE 0
           /\ Activity!Missed(mine, p).freezes = IF p.freezes > 0 THEN p.freezes - 1 ELSE 0
<1>1. p.streak \in Nat /\ p.freezes \in Nat
  BY DEF Activity!Activity
<1>2. CASE p.freezes > 0
  <2>1. p.freezes - 1 \in Nat
    BY <1>1, <1>2
  <2>2. QED
    BY <1>1, <1>2, <2>1 DEF Activity!Missed, Activity!Activity
<1>3. CASE ~(p.freezes > 0)
  BY <1>1, <1>3 DEF Activity!Missed, Activity!Activity
<1>4. QED
  BY <1>2, <1>3

\* Every set of days, but the empty one, has a last day.
LEMMA ActivityLastDay ==
    ASSUME NEW S, S \subseteq Activity!Days, S # {}
    PROVE  \E m \in S : \A x \in S : x <= m
<1> DEFINE T == {MaxDay - x : x \in S}
<1>1. T \subseteq Nat /\ T # {} /\ S \subseteq Nat
  <2>1. \A x \in S : x \in 1..MaxDay
    BY DEF Activity!Days
  <2>2. \A x \in S : MaxDay - x \in Nat /\ x \in Nat
    BY <2>1, DaysAssumption
  <2>3. QED
    BY <2>2
<1>2. PICK t \in T : \A n \in T : t <= n
  BY <1>1, MinNat
<1>3. PICK m \in S : t = MaxDay - m
  BY <1>2
<1>4. ASSUME NEW x \in S PROVE x <= m
  <2>1. MaxDay - m <= MaxDay - x
    BY <1>2, <1>3
  <2>2. m \in Nat /\ x \in Nat
    BY <1>1
  <2>3. QED
    BY <2>1, <2>2, DaysAssumption
<1>5. QED
  BY <1>4

\* What find_many(date < k, sort -date, limit 1) returns.
LEMMA ActivityLatestIs ==
    ASSUME NEW k, NEW e \in Activity!Days, e < k, activity[e].stored,
           \A x \in Activity!Days : x < k /\ activity[x].stored => x <= e
    PROVE  Activity!LatestBefore(k) = activity[e]
<1> DEFINE earlier == {x \in Activity!Days : x < k /\ activity[x].stored}
<1>1. e \in earlier /\ \A x \in earlier : x <= e
  OBVIOUS
<1>2. Activity!Days \subseteq Nat
  BY DEF Activity!Days
<1>3. \A m \in earlier : (\A x \in earlier : x <= m) => m = e
  BY <1>1, <1>2
<1>4. (CHOOSE m \in earlier : \A x \in earlier : x <= m) = e
  <2>1. \E m \in earlier : \A x \in earlier : x <= m
    BY <1>1
  <2>2. QED
    BY <1>3, <2>1
<1>5. Activity!LatestBefore(k) = IF earlier = {} THEN Activity!NoActivity
                                 ELSE activity[CHOOSE m \in earlier : \A x \in earlier : x <= m]
  BY DEF Activity!LatestBefore
<1>6. QED
  BY <1>1, <1>4, <1>5

\* Without a document before the day there is none to pay with a freeze.
LEMMA ActivityLatestIsNone ==
    ASSUME NEW k, \A x \in Activity!Days : x < k => ~activity[x].stored
    PROVE  Activity!LatestBefore(k) = Activity!NoActivity
<1>1. {x \in Activity!Days : x < k /\ activity[x].stored} = {}
  OBVIOUS
<1>2. QED
  BY <1>1 DEF Activity!LatestBefore

\* A day's standing is the one due if the days before have theirs.
LEMMA ActivityDueTellsRules ==
    ASSUME activity \in [Activity!Days -> Activity!Activity], NEW A, NEW d \in Activity!Days, d \in A,
           \A e \in Activity!Days : e < d /\ e \in A =>
              /\ activity[e].stored /\ activity[e].actions > 0
              /\ activity[e].streak = Activity!Rules(A)[e].streak
              /\ activity[e].freezes = Activity!Rules(A)[e].freezes,
           \A e \in Activity!Days : e < d /\ e \notin A => ~activity[e].stored /\ activity[e].actions = 0
    PROVE  ActivityDue(d).streak = Activity!Rules(A)[d].streak /\ ActivityDue(d).freezes = Activity!Rules(A)[d].freezes
<1>0. d \in 1..MaxDay /\ d - 1 \in 0..MaxDay /\ MaxDay \in Nat
  BY DaysAssumption DEF Activity!Days
<1>1. Activity!Rules(A)[d] = ActivityAfter(A, d, Activity!Rules(A)[d - 1]) /\ Activity!Rules(A)[d - 1] \in ActivityStanding
  BY <1>0, ActivityRulesUnfold
<1>2. PICK b \in ActivityStanding : b = Activity!Rules(A)[d - 1]
  BY <1>1
<1>3. b.streak \in Nat /\ b.freezes \in Nat /\ b.freezes <= MaxBankedFreezes
  BY BankedAssumption DEF ActivityStanding
<1>4. CASE d > 1 /\ d - 1 \in A
  <2>1. PICK y \in Activity!Activity : y = activity[d - 1]
    BY <1>0, <1>4 DEF Activity!Days
  <2>2. y.actions > 0 /\ y.streak = b.streak /\ y.freezes = b.freezes
    BY <1>0, <1>2, <1>4, <2>1 DEF Activity!Days
  <2>3. ~b.gap
    <3>1. PICK k \in 1..MaxDay : k = d - 1 /\ k - 1 \in 0..MaxDay
      BY <1>0, <1>4
    <3>2. Activity!Rules(A)[k] = ActivityAfter(A, k, Activity!Rules(A)[k - 1]) /\ Activity!Rules(A)[k - 1] \in ActivityStanding
      BY <3>1, ActivityRulesUnfold
    <3>3. k \in A /\ b = Activity!Rules(A)[k]
      BY <1>2, <1>4, <3>1
    <3>4. QED
      BY <3>2, <3>3, ActivityAfterIs
  <2>4. ActivityDue(d) = Activity!Continued(Activity!NoActivity, y)
    BY <1>4, <2>1, <2>2 DEF ActivityDue
  <2>5. ActivityDue(d).streak = y.streak + 1 /\ ActivityDue(d).freezes = IF (y.streak + 1) % FreezeEarnInterval = 0
                                                   THEN Activity!Smaller(y.freezes + 1, MaxBankedFreezes)
                                                   ELSE y.freezes
    BY SMTT(20), <2>4, ActivityContinuedIs, ActivityDefaults
  <2>6. /\ Activity!Rules(A)[d].streak = b.streak + 1
        /\ Activity!Rules(A)[d].freezes =
             IF (b.streak + 1) % FreezeEarnInterval = 0 /\ b.freezes + 1 <= MaxBankedFreezes
             THEN b.freezes + 1 ELSE b.freezes
    BY <1>1, <1>2, <2>3, ActivityAfterIs
  <2>7. Activity!Smaller(b.freezes + 1, MaxBankedFreezes) =
          IF b.freezes + 1 <= MaxBankedFreezes THEN b.freezes + 1 ELSE b.freezes
    BY <1>3, BankedAssumption DEF Activity!Smaller
  <2>8. QED
    BY <2>2, <2>5, <2>6, <2>7
<1>5. ASSUME b.gap, NEW p \in Activity!Activity, p.streak = b.streak \/ p.freezes = 0, p.freezes = b.freezes,
             ActivityDue(d) = Activity!Missed(Activity!NoActivity, p)
      PROVE  ActivityDue(d).streak = Activity!Rules(A)[d].streak /\ ActivityDue(d).freezes = Activity!Rules(A)[d].freezes
  <2>1. /\ ActivityDue(d).streak = IF p.freezes > 0 THEN p.streak ELSE 0
        /\ ActivityDue(d).freezes = IF p.freezes > 0 THEN p.freezes - 1 ELSE 0
    <3>1. /\ Activity!Missed(Activity!NoActivity, p).streak = IF p.freezes > 0 THEN p.streak ELSE 0
          /\ Activity!Missed(Activity!NoActivity, p).freezes = IF p.freezes > 0 THEN p.freezes - 1 ELSE 0
      BY ActivityMissedIs, ActivityDefaults
    <3>2. QED
      BY <1>5, <3>1
  <2>2. /\ Activity!Rules(A)[d].streak = IF b.freezes > 0 THEN b.streak ELSE 0
        /\ Activity!Rules(A)[d].freezes = IF b.freezes > 0 THEN b.freezes - 1 ELSE 0
    BY <1>1, <1>2, <1>5, ActivityAfterIs
  <2>3. QED
    BY <1>5, <2>1, <2>2
<1>6. CASE d = 1
  <2>1. b = ActivityStart
    BY <1>2, <1>6, ActivityRulesUnfold
  <2>2. Activity!LatestBefore(d - 1) = Activity!NoActivity
    <3>1. \A x \in Activity!Days : ~(x < d - 1)
      BY <1>6 DEF Activity!Days
    <3>2. QED
      BY <3>1, ActivityLatestIsNone
  <2>3. ActivityDue(d) = Activity!Missed(Activity!NoActivity, Activity!NoActivity)
    BY <1>6, <2>2, ActivityDefaults DEF ActivityDue
  <2>4. QED
    BY <1>5, <2>1, <2>3, ActivityStartIs, ActivityDefaults
<1>7. CASE d > 1 /\ d - 1 \notin A
  <2>1. PICK y \in Activity!Activity : y = activity[d - 1]
    BY <1>0, <1>7 DEF Activity!Days
  <2>2. y.actions = 0
    BY <1>0, <1>7, <2>1 DEF Activity!Days
  <2>3. ActivityDue(d) = Activity!Missed(Activity!NoActivity, Activity!LatestBefore(d - 1))
    BY <1>7, <2>1, <2>2 DEF ActivityDue
  <2> DEFINE S == {e \in Activity!Days : e < d - 1 /\ e \in A}
  <2>4. CASE S = {}
    <3>1. \A x \in Activity!Days : x < d - 1 => ~activity[x].stored
      <4>1. ASSUME NEW x \in Activity!Days, x < d - 1 PROVE x < d /\ x \notin A
        BY <1>0, <2>4, <4>1 DEF Activity!Days
      <4>2. QED
        BY <4>1
    <3>2. Activity!LatestBefore(d - 1) = Activity!NoActivity
      BY <3>1, ActivityLatestIsNone
    <3>3. /\ Activity!Rules(A)[d - 1].gap /\ Activity!Rules(A)[d - 1].streak = Activity!Rules(A)[0].streak
          /\ Activity!Rules(A)[d - 1].freezes = Activity!Rules(A)[0].freezes
      <4>1. ASSUME NEW x \in 0 + 1..d - 1 PROVE x \notin A
        <5>1. x \in Activity!Days /\ (x = d - 1 \/ x < d - 1)
          BY <1>0 DEF Activity!Days
        <5>2. QED
          BY <1>7, <2>4, <5>1
      <4>2. 0 \in 0..MaxDay /\ 0 < d - 1
        BY <1>0, <1>7
      <4>3. QED
        BY <1>0, <4>1, <4>2, ActivityGap
    <3>4. b.gap /\ b.freezes = 0
      BY <1>2, <3>3, ActivityRulesUnfold, ActivityStartIs
    <3>5. QED
      BY <1>5, <2>3, <3>2, <3>4, ActivityDefaults
  <2>5. CASE S # {}
    <3>1. PICK e \in S : \A x \in S : x <= e
      <4>1. S \subseteq Activity!Days
        OBVIOUS
      <4>2. QED
        BY <2>5, <4>1, ActivityLastDay
    <3>2. /\ e \in Activity!Days /\ e < d - 1 /\ e \in A /\ e < d /\ e \in 0..MaxDay
      BY <1>0, <3>1 DEF Activity!Days
    <3>3. PICK p \in Activity!Activity : p = activity[e]
      BY <3>2
    <3>4. p.stored /\ p.streak = Activity!Rules(A)[e].streak /\ p.freezes = Activity!Rules(A)[e].freezes
      BY <3>2, <3>3
    <3>5. ASSUME NEW x \in Activity!Days, x < d - 1, activity[x].stored PROVE x <= e
      <4>1. x < d
        BY <1>0, <3>5 DEF Activity!Days
      <4>2. x \in A
        BY <3>5, <4>1
      <4>3. QED
        BY <3>1, <3>5, <4>2
    <3>6. Activity!LatestBefore(d - 1) = p
      BY <3>2, <3>3, <3>4, <3>5, ActivityLatestIs
    <3>7. /\ Activity!Rules(A)[d - 1].gap /\ Activity!Rules(A)[d - 1].streak = Activity!Rules(A)[e].streak
          /\ Activity!Rules(A)[d - 1].freezes = Activity!Rules(A)[e].freezes
      <4>1. ASSUME NEW x \in e + 1..d - 1 PROVE x \notin A
        <5>1. x \in Activity!Days /\ (x = d - 1 \/ x < d - 1) /\ ~(x <= e)
          BY <1>0, <3>2 DEF Activity!Days
        <5>2. QED
          BY <1>7, <3>1, <5>1
      <4>2. QED
        BY <1>0, <3>2, <4>1, ActivityGap
    <3>8. QED
      BY <1>2, <1>5, <2>3, <3>4, <3>6, <3>7
  <2>6. QED
    BY <2>4, <2>5
<1>8. QED
  BY <1>0, <1>4, <1>6, <1>7

\* The days before do not change, so what is due does not.
LEMMA ActivityDueKept ==
    ASSUME activity \in [Activity!Days -> Activity!Activity], NEW d \in Activity!Days,
           \A e \in Activity!Days : e < d => activity'[e] = activity[e]
    PROVE  ActivityDue(d)' = ActivityDue(d)
<1>0. d \in 1..MaxDay /\ MaxDay \in Nat /\ Activity!Days \subseteq Nat
  BY DaysAssumption DEF Activity!Days
<1>1. Activity!LatestBefore(d - 1)' = Activity!LatestBefore(d - 1)
  <2> DEFINE S == {x \in Activity!Days : x < d - 1 /\ activity[x].stored}
             T == {x \in Activity!Days : x < d - 1 /\ activity'[x].stored}
  <2>1. S = T
    <3>1. ASSUME NEW x \in Activity!Days, x < d - 1 PROVE activity'[x] = activity[x]
      BY <1>0, <3>1
    <3>2. QED
      BY <3>1
  <2>2. PICK m : m = CHOOSE e \in S : \A x \in S : x <= e
    OBVIOUS
  <2>3. /\ Activity!LatestBefore(d - 1) = IF S = {} THEN Activity!NoActivity ELSE activity[m]
        /\ Activity!LatestBefore(d - 1)' = IF T = {} THEN Activity!NoActivity ELSE activity'[m]
    <3>1. Activity!LatestBefore(d - 1) = IF S = {} THEN Activity!NoActivity ELSE activity[m]
      BY <2>2 DEF Activity!LatestBefore
    <3>2. m = CHOOSE e \in T : \A x \in T : x <= e
      BY <2>1, <2>2
    <3>3. Activity!LatestBefore(d - 1)' = IF T = {} THEN Activity!NoActivity ELSE activity'[m]
      BY <3>2 DEF Activity!LatestBefore
    <3>4. QED
      BY <3>1, <3>3
  <2>4. CASE S = {}
    BY <2>1, <2>3, <2>4
  <2>5. CASE S # {}
    <3>1. S \subseteq Activity!Days
      OBVIOUS
    <3>2. \E e \in S : \A x \in S : x <= e
      BY <2>5, <3>1, ActivityLastDay
    <3>3. m \in S
      BY <2>2, <3>2
    <3>4. m \in Activity!Days /\ m < d
      BY <1>0, <3>3
    <3>5. QED
      BY <2>1, <2>3, <2>5, <3>4
  <2>6. QED
    BY <2>4, <2>5
<1>2. d > 1 => activity'[d - 1] = activity[d - 1]
  BY <1>0 DEF Activity!Days
<1>3. QED
  BY <1>1, <1>2 DEF ActivityDue

\* The document of a day on which no two requests overlapped.
LEMMA ActivityQuietIs ==
    ASSUME NEW A, NEW d \in Activity!Days
    PROVE  /\ Activity!QuietDay(A, d) \in Activity!Activity
           /\ d \in A => /\ Activity!QuietDay(A, d).stored /\ Activity!QuietDay(A, d).actions = 1
                         /\ Activity!QuietDay(A, d).streak = Activity!Rules(A)[d].streak
                         /\ Activity!QuietDay(A, d).freezes = Activity!Rules(A)[d].freezes
                         /\ Activity!QuietDay(A, d).bonuses \in 0..1
           /\ d \notin A => Activity!QuietDay(A, d) = Activity!NoActivity
<1>1. CASE d \in A
  <2>1. d \in 0..MaxDay
    BY DEF Activity!Days
  <2>2. Activity!Rules(A)[d].streak \in Nat /\ Activity!Rules(A)[d].freezes \in Nat
    BY <2>1, ActivityRulesUnfold, BankedAssumption DEF ActivityStanding
  <2>3. PICK b \in 0..1 : b = IF d - 1 \in A /\ Activity!Rules(A)[d].streak \in StreakMilestones THEN 1 ELSE 0
    OBVIOUS
  <2>4. Activity!QuietDay(A, d) = [stored |-> TRUE, actions |-> 1, streak |-> Activity!Rules(A)[d].streak,
                                   freezes |-> Activity!Rules(A)[d].freezes, bonuses |-> b]
    BY <1>1, <2>3 DEF Activity!QuietDay
  <2>5. QED
    BY <1>1, <2>2, <2>4 DEF Activity!Activity
<1>2. CASE d \notin A
  BY <1>2, ActivityDefaults DEF Activity!QuietDay
<1>3. QED
  BY <1>1, <1>2

\* A past of quiet days follows the rules.
LEMMA ActivityInit == Activity!Init => ActivityInv
<1> SUFFICES ASSUME Activity!Init PROVE ActivityInv
  OBVIOUS
<1>1. PICK A \in SUBSET (1..FirstDay - 1) :
        /\ activity = [d \in Activity!Days |-> Activity!QuietDay(A, d)]
        /\ recorded = [d \in Activity!Days |-> IF d \in A THEN 1 ELSE 0]
        /\ checked = A
  BY DEF Activity!Init
<1>2. /\ today = FirstDay /\ activityHandler = [c \in Clients |-> Activity!NoHandler] /\ overwritten = {}
      /\ rechecked = {} /\ crossedMidnight = FALSE
  BY DEF Activity!Init
<1>3. A \subseteq Activity!Days /\ FirstDay \in Activity!Days /\ \A d \in A : d < FirstDay
  BY DaysAssumption DEF Activity!Days
<1>4. activity \in [Activity!Days -> Activity!Activity]
  BY <1>1, ActivityQuietIs
<1>5. Activity!TypeOK
  <2>1. recorded \in [Activity!Days -> Nat]
    BY <1>1
  <2>2. QED
    BY <1>1, <1>2, <1>3, <1>4, <2>1, ActivityDefaults DEF Activity!TypeOK
<1>6. \A c \in Clients : ActivityHandlerOK(c)
  BY <1>2, ActivityDefaults DEF ActivityHandlerOK
<1>7. ASSUME NEW d \in Activity!Days
      PROVE  /\ d \in A => /\ activity[d].stored /\ activity[d].actions = 1
                           /\ activity[d].streak = Activity!Rules(A)[d].streak
                           /\ activity[d].freezes = Activity!Rules(A)[d].freezes
                           /\ activity[d].bonuses \in 0..1 /\ recorded[d] = 1
             /\ d \notin A => activity[d] = Activity!NoActivity /\ recorded[d] = 0
  BY <1>1, ActivityQuietIs
<1>8. ASSUME NEW d \in Activity!Days PROVE ActivityDayOK(d)
  <2>1. CASE d \notin A
    BY <1>7, <2>1, ActivityDefaults DEF ActivityDayOK
  <2>2. CASE d \in A
    <3>1. ActivityDue(d).streak = Activity!Rules(A)[d].streak /\ ActivityDue(d).freezes = Activity!Rules(A)[d].freezes
      <4>1. \A e \in Activity!Days : e < d /\ e \in A =>
              /\ activity[e].stored /\ activity[e].actions > 0
              /\ activity[e].streak = Activity!Rules(A)[e].streak
              /\ activity[e].freezes = Activity!Rules(A)[e].freezes
        BY <1>7
      <4>2. \A e \in Activity!Days : e < d /\ e \notin A => ~activity[e].stored /\ activity[e].actions = 0
        BY <1>7, ActivityDefaults
      <4>3. QED
        BY <1>4, <2>2, <4>1, <4>2, ActivityDueTellsRules
    <3>2. ActivityAsDue(activity[d], d)
      BY <1>7, <2>2, <3>1 DEF ActivityAsDue
    <3>3. ~(d > today)
      BY <1>2, <1>3, <2>2, DaysAssumption DEF Activity!Days
    <3>4. d \in checked
      BY <1>1, <2>2
    <3>5. QED
      BY <1>7, <2>2, <3>2, <3>3, <3>4 DEF ActivityDayOK
  <2>3. QED
    BY <2>1, <2>2
<1>9. QED
  BY <1>5, <1>6, <1>8 DEF ActivityInv

\* A step of requests that leave the documents alone.
LEMMA ActivityHandlerStep ==
    ASSUME ActivityInv, activityHandler' \in [Clients -> Activity!Handler],
           UNCHANGED <<today, activity, recorded, overwritten, checked, rechecked, crossedMidnight>>,
           \A c \in Clients : activityHandler'[c] = activityHandler[c] \/ ActivityHandlerOK(c)'
    PROVE  ActivityInv'
<1> USE DEF ActivityInv
<1>1. Activity!TypeOK'
  BY DEF Activity!TypeOK
<1>2. ASSUME NEW d \in Activity!Days PROVE ActivityDue(d)' = ActivityDue(d)
  BY ActivityDueKept DEF Activity!TypeOK
<1>3. PICK t \in Activity!Days : t = today
  BY DEF Activity!TypeOK
<1>4. ASSUME NEW c \in Clients PROVE ActivityHandlerOK(c)'
  <2>1. CASE activityHandler'[c] = activityHandler[c]
    <3>1. PICK h : h = activityHandler[c] /\ h = activityHandler'[c]
      BY <2>1
    <3>2. ~crossedMidnight =>
              /\ h.pc \in {"insert", "check", "save", "append"} => h.day = t
              /\ h.pc = "insert" => h.phase = "check"
              /\ h.pc = "record" => activity[t].stored /\ ActivityAsDue(activity[t], t)
              /\ h.pc \in {"save", "append"} => ActivityAsDue(h.mine, t)
      BY <1>3, <3>1 DEF ActivityHandlerOK
    <3>3. ~crossedMidnight' =>
              /\ h.pc = "record" => activity'[t].stored /\ ActivityAsDue(activity[t], t)'
              /\ h.pc \in {"save", "append"} => ActivityAsDue(h.mine, t)'
      BY <1>2, <3>2 DEF ActivityAsDue
    <3>4. today' = t
      BY <1>3
    <3>5. /\ h.pc \in {"check", "save", "append"} => h.mine.stored
          /\ h.pc \in {"check", "save"} => h.mine.actions = 0
          /\ h.pc = "check" /\ h.day \notin (checked \cup ActivityBlurred)' => h.mine.bonuses = 0
          /\ h.pc = "save" /\ h.day \notin (checked \cup ActivityBlurred)' => h.mine.bonuses <= 1
          /\ h.pc = "append" =>
               /\ h.day \notin ActivityBlurred' => h.mine.bonuses <= 1
               /\ h.day \notin (checked \cup ActivityBlurred)' => h.mine.bonuses = 0
      BY <3>1 DEF ActivityHandlerOK, ActivityBlurred
    <3>6. ~crossedMidnight' =>
              /\ h.pc \in {"insert", "check", "save", "append"} => h.day = today'
              /\ h.pc = "insert" => h.phase = "check"
              /\ h.pc = "record" => activity'[today'].stored /\ ActivityAsDue(activity[today], today)'
              /\ h.pc \in {"save", "append"} => ActivityAsDue(h.mine, today)'
      BY <3>2, <3>3, <3>4 DEF ActivityAsDue
    <3>7. QED
      BY <3>1, <3>5, <3>6 DEF ActivityHandlerOK
  <2>2. QED
    BY <2>1
<1>5. ASSUME NEW d \in Activity!Days PROVE ActivityDayOK(d)'
  <2>1. ActivityAsDue(activity[d], d) => ActivityAsDue(activity[d], d)'
    BY <1>2 DEF ActivityAsDue
  <2>2. QED
    BY <2>1 DEF ActivityDayOK, ActivityBlurred
<1>6. QED
  BY <1>1, <1>4, <1>5 DEF Activity!Days

\* What is due up to today is not changed by a document of today.
LEMMA ActivityStoreDue ==
    ASSUME Activity!TypeOK, ~crossedMidnight, NEW t \in Activity!Days, t = today, NEW new \in Activity!Activity,
           activity' = [activity EXCEPT ![t] = new],
           NEW d \in Activity!Days, d <= t
    PROVE  ActivityDue(d)' = ActivityDue(d)
<1>1. ASSUME NEW e \in Activity!Days, e < d PROVE activity'[e] = activity[e]
  BY <1>1 DEF Activity!TypeOK, Activity!Days
<1>2. QED
  BY <1>1, ActivityDueKept DEF Activity!TypeOK

\* A step that stores a document of a day and moves on its own request only.
LEMMA ActivityStoreStep ==
    ASSUME ActivityInv, Activity!TypeOK', NEW c \in Clients, NEW t \in Activity!Days, NEW new \in Activity!Activity,
           activity' = [activity EXCEPT ![t] = new], new.stored,
           UNCHANGED <<today, crossedMidnight>>,
           checked \subseteq checked', checked' \subseteq checked \cup {t},
           overwritten \subseteq overwritten', rechecked \subseteq rechecked',
           \A d \in Activity!Days : d # t => recorded'[d] = recorded[d],
           \A d \in Clients : d # c => activityHandler'[d] = activityHandler[d],
           ActivityHandlerOK(c)',
           t \notin overwritten' => new.actions = recorded'[t],
           t \notin ActivityBlurred' => new.bonuses <= 1,
           t \notin (checked \cup ActivityBlurred)' => new.bonuses = 0,
           ~crossedMidnight =>
               /\ t = today
               /\ new.actions > 0 => ActivityAsDue(new, t)
               /\ activity[t].stored => ActivityAsDue(new, t)
    PROVE  ActivityInv'
<1> USE DEF ActivityInv
<1>1. activity'[t] = new /\ \A d \in Activity!Days : d # t => activity'[d] = activity[d]
  BY DEF Activity!TypeOK
<1>2. ~crossedMidnight => \A d \in Activity!Days : d <= t => ActivityDue(d)' = ActivityDue(d)
  BY ActivityStoreDue
<1>3. Activity!Days \subseteq Nat /\ t <= t
  BY DEF Activity!Days
<1>4. ASSUME NEW d \in Clients, d # c PROVE ActivityHandlerOK(d)'
  <2>1. PICK h : h = activityHandler[d] /\ h = activityHandler'[d]
    BY <1>4
  <2>2. /\ h.pc \in {"check", "save", "append"} => h.mine.stored
        /\ h.pc \in {"check", "save"} => h.mine.actions = 0
        /\ h.pc = "check" /\ h.day \notin (checked \cup ActivityBlurred)' => h.mine.bonuses = 0
        /\ h.pc = "save" /\ h.day \notin (checked \cup ActivityBlurred)' => h.mine.bonuses <= 1
        /\ h.pc = "append" =>
             /\ h.day \notin ActivityBlurred' => h.mine.bonuses <= 1
             /\ h.day \notin (checked \cup ActivityBlurred)' => h.mine.bonuses = 0
    BY <2>1 DEF ActivityHandlerOK, ActivityBlurred
  <2>3. ASSUME ~crossedMidnight
        PROVE  /\ h.pc \in {"insert", "check", "save", "append"} => h.day = today'
               /\ h.pc = "insert" => h.phase = "check"
               /\ h.pc = "record" => activity'[today'].stored /\ ActivityAsDue(activity[today], today)'
               /\ h.pc \in {"save", "append"} => ActivityAsDue(h.mine, today)'
    <3>1. /\ h.pc \in {"insert", "check", "save", "append"} => h.day = t
          /\ h.pc = "insert" => h.phase = "check"
          /\ h.pc = "record" => activity[t].stored
          /\ h.pc \in {"save", "append"} => ActivityAsDue(h.mine, t)
      BY ZenonT(40), <2>1, <2>3 DEF ActivityHandlerOK
    <3>2. today' = t /\ ActivityDue(t)' = ActivityDue(t)
      BY <1>2, <1>3, <2>3
    <3>3. ActivityDue(today)' = ActivityDue(t)
      BY <3>2 DEF ActivityDue
    <3>4. h.pc = "record" => activity'[today'].stored /\ ActivityAsDue(activity[today], today)'
      <4>1. CASE h.pc = "record"
        <5>1. ActivityAsDue(new, t)
          BY <2>3, <3>1, <4>1
        <5>2. QED
          BY <1>1, <3>2, <3>3, <5>1 DEF ActivityAsDue
      <4>2. QED
        BY <4>1
    <3>5. h.pc \in {"save", "append"} => ActivityAsDue(h.mine, today)'
      BY <3>1, <3>3 DEF ActivityAsDue
    <3>6. QED
      BY <3>1, <3>2, <3>4, <3>5
  <2>4. ~crossedMidnight' => ~crossedMidnight
    OBVIOUS
  <2>5. QED
    BY <2>1, <2>2, <2>3, <2>4 DEF ActivityHandlerOK
<1>5. ASSUME NEW d \in Activity!Days PROVE ActivityDayOK(d)'
  <2>1. CASE d = t
    <3>1. ASSUME ~crossedMidnight, new.actions > 0 PROVE ActivityAsDue(activity[t], t)'
      BY <1>1, <1>2, <1>3, <3>1 DEF ActivityAsDue
    <3>2. ~crossedMidnight => ~(t > today)
      BY <1>3
    <3>3. QED
      BY <1>1, <2>1, <3>1, <3>2 DEF ActivityDayOK
  <2>2. CASE d # t
    <3>1. ASSUME ~crossedMidnight, activity[d].actions > 0 PROVE ActivityAsDue(activity[d], d)'
      <4>1. ActivityAsDue(activity[d], d) /\ activity[d].stored
        BY <3>1 DEF ActivityDayOK
      <4>2. ~(d > today) /\ today = t
        BY <3>1, <4>1 DEF ActivityDayOK
      <4>3. d <= t
        BY <1>3, <4>2
      <4>4. ActivityDue(d)' = ActivityDue(d)
        BY <1>2, <3>1, <4>3
      <4>5. QED
        BY <1>1, <2>2, <4>1, <4>4 DEF ActivityAsDue
    <3>2. /\ d \notin overwritten' => d \notin overwritten
          /\ d \notin ActivityBlurred' => d \notin ActivityBlurred
          /\ d \notin (checked \cup ActivityBlurred)' => d \notin checked \cup ActivityBlurred
      BY <2>2 DEF ActivityBlurred
    <3>3. activity'[d] = activity[d] /\ recorded'[d] = recorded[d]
      BY <1>1, <2>2
    <3>4. QED
      BY <3>1, <3>2, <3>3 DEF ActivityDayOK
  <2>3. QED
    BY <2>1, <2>2
<1>6. \A d \in Activity!Days : ActivityDayOK(d)'
  BY <1>5
<1>7. QED
  BY <1>4, <1>6 DEF Activity!Days

\* get_or_create_today reads the document, if there is one.
LEMMA ActivityOpenStep ==
    ASSUME ActivityInv, NEW c \in Clients, NEW phase \in {"check", "record"}, Activity!Open(c, phase),
           UNCHANGED <<today, activity, recorded, overwritten, checked, rechecked, crossedMidnight>>,
           ~crossedMidnight /\ phase = "record" => activity[today].stored /\ ActivityAsDue(activity[today], today)
    PROVE  ActivityInv'
<1> USE DEF ActivityInv
<1>1. PICK t \in Activity!Days, mine \in Activity!Activity : t = today /\ mine = activity[today]
  BY DEF Activity!TypeOK
<1>2. mine.stored \in BOOLEAN /\ mine.actions \in Nat /\ mine.bonuses \in Nat
  BY DEF Activity!Activity
<1>3. PICK pc : pc = IF mine.stored THEN Activity!AfterOpen(phase, mine) ELSE "insert"
  OBVIOUS
<1>4. /\ ~mine.stored => pc = "insert"
      /\ mine.stored /\ phase = "record" => pc = "append"
      /\ mine.stored /\ phase = "check" /\ mine.actions > 0 => pc = "record"
      /\ mine.stored /\ phase = "check" /\ ~(mine.actions > 0) => pc = "check"
  <2>1. phase = "check" /\ mine.actions > 0 => Activity!AfterOpen(phase, mine) = "record"
    BY DEF Activity!AfterOpen
  <2>2. phase = "check" /\ ~(mine.actions > 0) => Activity!AfterOpen(phase, mine) = "check"
    BY <1>2 DEF Activity!AfterOpen
  <2>3. phase = "record" => Activity!AfterOpen(phase, mine) = "append"
    BY DEF Activity!AfterOpen
  <2>4. QED
    BY <1>3, <2>1, <2>2, <2>3
<1>5. PICK h : h = [pc |-> pc, phase |-> phase, day |-> t, mine |-> mine]
  OBVIOUS
<1>6. h.pc = pc /\ h.phase = phase /\ h.day = t /\ h.mine = mine
  BY <1>5
<1>7. h \in Activity!Handler
  <2>1. pc \in {"insert", "append", "record", "check"}
    BY <1>2, <1>4
  <2>2. QED
    BY <1>5, <2>1 DEF Activity!Handler
<1>8. activityHandler' = [activityHandler EXCEPT ![c] = h]
  BY <1>1, <1>3, <1>5 DEF Activity!Open
<1>9. /\ activityHandler' \in [Clients -> Activity!Handler] /\ activityHandler'[c] = h
      /\ \A d \in Clients : d # c => activityHandler'[d] = activityHandler[d]
  BY <1>7, <1>8 DEF Activity!TypeOK
<1>10. ActivityHandlerOK(c)'
  <2>1. /\ pc \in {"check", "append"} => mine.stored
        /\ pc = "check" => mine.actions = 0
        /\ t \notin ActivityBlurred => mine.bonuses <= 1
        /\ t \notin checked \cup ActivityBlurred => mine.bonuses = 0
        /\ ~crossedMidnight /\ mine.actions > 0 => ActivityAsDue(mine, t)
    BY <1>1, <1>2, <1>4 DEF ActivityDayOK
  <2>2. ActivityDue(t)' = ActivityDue(t)
    BY ActivityDueKept DEF Activity!TypeOK
  <2>3. ASSUME ~crossedMidnight
        PROVE  /\ pc = "insert" => phase = "check"
               /\ pc = "record" => mine.stored /\ ActivityAsDue(mine, t)
               /\ pc = "append" => ActivityAsDue(mine, t)
    BY <1>1, <1>2, <1>4, <2>1, <2>3
  <2>4. ASSUME ~crossedMidnight
        PROVE  /\ pc = "record" => activity'[today'].stored /\ ActivityAsDue(activity[today], today)'
               /\ pc = "append" => ActivityAsDue(h.mine, today)'
    <3>1. ActivityDue(today)' = ActivityDue(t) /\ today' = t /\ activity'[today'] = mine
      BY <1>1, <2>2 DEF ActivityDue
    <3>2. QED
      BY <1>6, <2>3, <2>4, <3>1 DEF ActivityAsDue
  <2>5. pc # "save" /\ today' = t
    BY <1>1, <1>2, <1>4
  <2>6. /\ h.pc \in {"check", "save", "append"} => h.mine.stored
        /\ h.pc \in {"check", "save"} => h.mine.actions = 0
        /\ h.pc = "check" /\ h.day \notin (checked \cup ActivityBlurred)' => h.mine.bonuses = 0
        /\ h.pc = "save" /\ h.day \notin (checked \cup ActivityBlurred)' => h.mine.bonuses <= 1
        /\ h.pc = "append" =>
             /\ h.day \notin ActivityBlurred' => h.mine.bonuses <= 1
             /\ h.day \notin (checked \cup ActivityBlurred)' => h.mine.bonuses = 0
    BY <1>6, <2>1, <2>5 DEF ActivityBlurred
  <2>7. ~crossedMidnight' =>
            /\ h.pc \in {"insert", "check", "save", "append"} => h.day = today'
            /\ h.pc = "insert" => h.phase = "check"
            /\ h.pc = "record" => activity'[today'].stored /\ ActivityAsDue(activity[today], today)'
            /\ h.pc \in {"save", "append"} => ActivityAsDue(h.mine, today)'
    BY <1>6, <2>3, <2>4, <2>5
  <2>8. QED
    BY <1>9, <2>6, <2>7 DEF ActivityHandlerOK
<1>11. QED
  BY <1>9, <1>10, ActivityHandlerStep

\* POST /activity/track opens the document for the check.
LEMMA ActivityTrackPreserves ==
    ASSUME ActivityInv, NEW c \in Clients, Activity!Track(c)
    PROVE  ActivityInv'
<1>1. /\ Activity!Open(c, "check")
      /\ UNCHANGED <<today, activity, recorded, overwritten, checked, rechecked, crossedMidnight>>
  BY DEF Activity!Track
<1>2. QED
  BY <1>1, ActivityOpenStep

\* record_action opens the document again.
LEMMA ActivityRecordPreserves ==
    ASSUME ActivityInv, NEW c \in Clients, Activity!Record(c)
    PROVE  ActivityInv'
<1>1. /\ Activity!Open(c, "record") /\ activityHandler[c].pc = "record"
      /\ UNCHANGED <<today, activity, recorded, overwritten, checked, rechecked, crossedMidnight>>
  BY DEF Activity!Record
<1>2. ~crossedMidnight => activity[today].stored /\ ActivityAsDue(activity[today], today)
  BY <1>1 DEF ActivityInv, ActivityHandlerOK
<1>3. QED
  BY <1>1, <1>2, ActivityOpenStep

\* A request that ends and changes nothing else.
LEMMA ActivityFinishStep ==
    ASSUME ActivityInv, NEW c \in Clients, Activity!Finish(c),
           UNCHANGED <<today, activity, recorded, overwritten, checked, rechecked, crossedMidnight>>
    PROVE  ActivityInv'
<1>1. /\ activityHandler' \in [Clients -> Activity!Handler] /\ activityHandler'[c] = Activity!NoHandler
      /\ \A d \in Clients : d # c => activityHandler'[d] = activityHandler[d]
  BY ActivityDefaults DEF Activity!Finish, ActivityInv, Activity!TypeOK
<1>2. ActivityHandlerOK(c)'
  BY <1>1, ActivityDefaults DEF ActivityHandlerOK
<1>3. QED
  BY <1>1, <1>2, ActivityHandlerStep

\* An unknown type of action is refused after the check.
LEMMA ActivityRefusePreserves ==
    ASSUME ActivityInv, NEW c \in Clients, Activity!Refuse(c)
    PROVE  ActivityInv'
BY ActivityFinishStep DEF Activity!Refuse

\* A restart ends all requests.
LEMMA ActivityCrashPreserves == ASSUME ActivityInv, Activity!Crash PROVE ActivityInv'
<1>1. /\ activityHandler' \in [Clients -> Activity!Handler] /\ \A c \in Clients : activityHandler'[c] = Activity!NoHandler
      /\ UNCHANGED <<today, activity, recorded, overwritten, checked, rechecked, crossedMidnight>>
  BY ActivityDefaults DEF Activity!Crash
<1>2. \A c \in Clients : ActivityHandlerOK(c)'
  BY <1>1, ActivityDefaults DEF ActivityHandlerOK
<1>3. QED
  BY <1>1, <1>2, ActivityHandlerStep

\* A step that changes nothing of the activity.
LEMMA ActivityStutterPreserves == ASSUME ActivityInv, UNCHANGED activityVars PROVE ActivityInv'
<1>1. /\ activityHandler' \in [Clients -> Activity!Handler] /\ \A c \in Clients : activityHandler'[c] = activityHandler[c]
      /\ UNCHANGED <<today, activity, recorded, overwritten, checked, rechecked, crossedMidnight>>
  BY DEF activityVars, ActivityInv, Activity!TypeOK
<1>2. QED
  BY <1>1, ActivityHandlerStep

\* The copy a handler works on.
LEMMA ActivityHandlerParts ==
    ASSUME ActivityInv, NEW c \in Clients
    PROVE  /\ activityHandler[c].day \in Activity!Days /\ activityHandler[c].mine \in Activity!Activity
           /\ activityHandler[c].phase \in {"check", "record"}
BY DEF ActivityInv, Activity!TypeOK, Activity!Handler

\* The first document of a day is inserted empty; a second one is refused.
LEMMA ActivityInsertPreserves ==
    ASSUME ActivityInv, NEW c \in Clients, Activity!Insert(c)
    PROVE  ActivityInv'
<1> USE DEF ActivityInv
<1>1. PICK t \in Activity!Days, phase \in {"check", "record"} :
        t = activityHandler[c].day /\ phase = activityHandler[c].phase /\ activityHandler[c].pc = "insert"
  BY ActivityHandlerParts DEF Activity!Insert
<1>2. CASE activity[t].stored
  BY <1>1, <1>2, ActivityFinishStep DEF Activity!Insert
<1>3. CASE ~activity[t].stored
  <2>1. PICK fresh \in Activity!Activity :
          /\ fresh = [Activity!NoActivity EXCEPT !.stored = TRUE]
          /\ fresh.stored /\ fresh.actions = 0 /\ fresh.bonuses = 0
    <3>1. PICK f : f = [Activity!NoActivity EXCEPT !.stored = TRUE]
      OBVIOUS
    <3>2. f = [stored |-> TRUE, actions |-> 0, streak |-> 0, freezes |-> 0, bonuses |-> 0]
      BY <3>1 DEF Activity!NoActivity
    <3>3. f \in Activity!Activity /\ f.stored /\ f.actions = 0 /\ f.bonuses = 0
      BY <3>2 DEF Activity!Activity
    <3>4. QED
      BY <3>1, <3>3
  <2>2. PICK pc : pc = Activity!AfterOpen(phase, fresh)
    OBVIOUS
  <2>3. (phase = "check" => pc = "check") /\ (phase = "record" => pc = "append")
    BY <2>1, <2>2 DEF Activity!AfterOpen
  <2>4. PICK h : h = [activityHandler[c] EXCEPT !.pc = pc, !.mine = fresh]
    OBVIOUS
  <2>5. h \in Activity!Handler /\ h.pc = pc /\ h.mine = fresh /\ h.day = t
    BY <1>1, <2>3, <2>4 DEF Activity!TypeOK, Activity!Handler
  <2>6. /\ activityHandler' = [activityHandler EXCEPT ![c] = h] /\ activity' = [activity EXCEPT ![t] = fresh]
        /\ UNCHANGED <<today, recorded, overwritten, checked, rechecked, crossedMidnight>>
    BY <1>1, <1>3, <2>1, <2>2, <2>4 DEF Activity!Insert
  <2>7. /\ activityHandler'[c] = h /\ \A d \in Clients : d # c => activityHandler'[d] = activityHandler[d]
        /\ Activity!TypeOK'
    BY <2>5, <2>6 DEF Activity!TypeOK
  <2>8. ~crossedMidnight => t = today /\ phase = "check"
    BY <1>1 DEF ActivityHandlerOK
  <2>9. ActivityHandlerOK(c)'
    <3>1. h.pc \in {"check", "append"} /\ h.mine.stored /\ h.mine.actions = 0 /\ h.mine.bonuses = 0
      BY <1>1, <2>1, <2>3, <2>5
    <3>2. ~crossedMidnight' => h.pc = "check" /\ h.day = today'
      BY <2>3, <2>5, <2>6, <2>8
    <3>3. QED
      BY <2>7, <3>1, <3>2 DEF ActivityHandlerOK
  <2>10. t \notin overwritten' => fresh.actions = recorded'[t]
    <3>1. activity[t].actions = 0 /\ (t \notin overwritten => recorded[t] = 0)
      BY <1>3 DEF ActivityDayOK
    <3>2. QED
      BY <2>1, <2>6, <3>1
  <2>11. /\ t \notin ActivityBlurred' => fresh.bonuses <= 1
         /\ t \notin (checked \cup ActivityBlurred)' => fresh.bonuses = 0
         /\ ~crossedMidnight =>
                /\ t = today
                /\ fresh.actions > 0 => ActivityAsDue(fresh, t)
                /\ activity[t].stored => ActivityAsDue(fresh, t)
    BY <1>3, <2>1, <2>8
  <2>12. /\ UNCHANGED <<today, crossedMidnight>>
         /\ checked \subseteq checked' /\ checked' \subseteq checked \cup {t}
         /\ overwritten \subseteq overwritten' /\ rechecked \subseteq rechecked'
         /\ \A d \in Activity!Days : d # t => recorded'[d] = recorded[d]
    BY <2>6
  <2>13. QED
    BY <2>1, <2>6, <2>7, <2>9, <2>10, <2>11, <2>12, ActivityStoreStep
<1>4. QED
  BY <1>2, <1>3

\* The latest document before a day is a document.
LEMMA ActivityLatestType ==
    ASSUME activity \in [Activity!Days -> Activity!Activity], NEW k
    PROVE  Activity!LatestBefore(k) \in Activity!Activity
<1> DEFINE S == {x \in Activity!Days : x < k /\ activity[x].stored}
<1>1. CASE S = {}
  BY <1>1, ActivityDefaults DEF Activity!LatestBefore
<1>2. CASE S # {}
  <2>1. S \subseteq Activity!Days
    OBVIOUS
  <2>2. \E e \in S : \A x \in S : x <= e
    BY <1>2, <2>1, ActivityLastDay
  <2>3. PICK m : m = CHOOSE e \in S : \A x \in S : x <= e
    OBVIOUS
  <2>4. m \in S
    BY <2>2, <2>3
  <2>5. Activity!LatestBefore(k) = activity[m]
    BY <1>2, <2>3 DEF Activity!LatestBefore
  <2>6. QED
    BY <2>4, <2>5
<1>3. QED
  BY <1>1, <1>2

\* check_and_update_streak computes what is due today.
LEMMA ActivityCheckPreserves ==
    ASSUME ActivityInv, NEW c \in Clients, Activity!Check(c)
    PROVE  ActivityInv'
<1> USE DEF ActivityInv
<1>1. PICK t \in Activity!Days, mine \in Activity!Activity, y \in Activity!Activity, p \in Activity!Activity :
        /\ t = today /\ mine = activityHandler[c].mine
        /\ y = IF today > 1 THEN activity[today - 1] ELSE Activity!NoActivity
        /\ p = Activity!LatestBefore(today - 1)
  <2>1. today \in Activity!Days /\ (today > 1 => today - 1 \in Activity!Days)
    BY DaysAssumption DEF Activity!TypeOK, Activity!Days
  <2>2. QED
    BY <2>1, ActivityHandlerParts, ActivityDefaults, ActivityLatestType DEF Activity!TypeOK
<1>2. PICK new : new = IF y.actions > 0 THEN Activity!Continued(mine, y) ELSE Activity!Missed(mine, p)
  OBVIOUS
<1>3. ActivityDue(t) = IF y.actions > 0 THEN Activity!Continued(Activity!NoActivity, y) ELSE Activity!Missed(Activity!NoActivity, p)
  BY <1>1 DEF ActivityDue
<1>4. /\ new \in Activity!Activity /\ new.stored = mine.stored /\ new.actions = mine.actions
      /\ new.bonuses \in {mine.bonuses, mine.bonuses + 1}
      /\ ActivityAsDue(new, t)
  <2>1. CASE y.actions > 0
    <3>1. /\ new = Activity!Continued(mine, y) /\ ActivityDue(t) = Activity!Continued(Activity!NoActivity, y)
      BY <1>2, <1>3, <2>1
    <3>2. Activity!NoActivity \in Activity!Activity
      BY ActivityDefaults
    <3>3. /\ Activity!Continued(Activity!NoActivity, y).streak = new.streak
          /\ Activity!Continued(Activity!NoActivity, y).freezes = new.freezes
      BY <3>1, <3>2, ActivityContinuedIs
    <3>4. ActivityAsDue(new, t)
      BY <3>1, <3>3 DEF ActivityAsDue
    <3>5. /\ new \in Activity!Activity /\ new.stored = mine.stored /\ new.actions = mine.actions
          /\ new.bonuses \in {mine.bonuses, mine.bonuses + 1}
      BY <3>1, ActivityContinuedIs
    <3>6. QED
      BY <3>4, <3>5
  <2>2. CASE ~(y.actions > 0)
    <3>1. /\ new = Activity!Missed(mine, p) /\ ActivityDue(t) = Activity!Missed(Activity!NoActivity, p)
      BY <1>2, <1>3, <2>2
    <3>2. Activity!NoActivity \in Activity!Activity
      BY ActivityDefaults
    <3>3. /\ Activity!Missed(Activity!NoActivity, p).streak = new.streak
          /\ Activity!Missed(Activity!NoActivity, p).freezes = new.freezes
      BY <3>1, <3>2, ActivityMissedIs
    <3>4. ActivityAsDue(new, t)
      BY <3>1, <3>3 DEF ActivityAsDue
    <3>5. /\ new \in Activity!Activity /\ new.stored = mine.stored /\ new.actions = mine.actions
          /\ new.bonuses \in {mine.bonuses, mine.bonuses + 1}
      BY <3>1, ActivityMissedIs
    <3>6. QED
      BY <3>4, <3>5
  <2>3. QED
    BY <2>1, <2>2
<1>5. PICK h : h = [activityHandler[c] EXCEPT !.pc = "save", !.mine = new]
  OBVIOUS
<1>6. h \in Activity!Handler /\ h.pc = "save" /\ h.mine = new /\ h.day = activityHandler[c].day
  BY <1>4, <1>5 DEF Activity!TypeOK, Activity!Handler
<1>7. activityHandler[c].pc = "check" /\ activityHandler' = [activityHandler EXCEPT ![c] = h]
      /\ UNCHANGED <<today, activity, recorded, overwritten, checked, rechecked, crossedMidnight>>
  <2>1. activityHandler' = [activityHandler EXCEPT ![c] = h]
    BY <1>1, <1>2, <1>5 DEF Activity!Check
  <2>2. QED
    BY <2>1 DEF Activity!Check
<1>8. /\ activityHandler'[c] = h /\ \A d \in Clients : d # c => activityHandler'[d] = activityHandler[d]
      /\ activityHandler' \in [Clients -> Activity!Handler]
  BY <1>6, <1>7 DEF Activity!TypeOK
<1>9. ActivityHandlerOK(c)'
  <2>1. mine.stored /\ mine.actions = 0 /\ mine.bonuses \in Nat
    BY <1>1, <1>7 DEF ActivityHandlerOK, Activity!Activity
  <2>2. h.day \notin checked \cup ActivityBlurred => new.bonuses <= 1
    BY <1>1, <1>4, <1>6, <1>7 DEF ActivityHandlerOK
  <2>3. ~crossedMidnight => h.day = t
    BY <1>1, <1>6, <1>7 DEF ActivityHandlerOK
  <2>4. ActivityDue(t)' = ActivityDue(t)
    BY <1>7, ActivityDueKept DEF Activity!TypeOK
  <2>5. ActivityAsDue(h.mine, today)'
    <3>1. ActivityDue(today)' = ActivityDue(t)
      BY <1>1, <1>7, <2>4 DEF ActivityDue
    <3>2. QED
      BY <1>4, <1>6, <1>8, <3>1 DEF ActivityAsDue
  <2>6. ActivityAsDue(activityHandler[c].mine, today)'
    BY <1>8, <2>5 DEF ActivityAsDue
  <2>7. QED
    BY <1>1, <1>4, <1>6, <1>7, <1>8, <2>1, <2>2, <2>3, <2>6 DEF ActivityHandlerOK, ActivityBlurred
<1>10. QED
  BY <1>7, <1>8, <1>9, ActivityHandlerStep

\* The check saves its whole copy.
LEMMA ActivitySavePreserves ==
    ASSUME ActivityInv, NEW c \in Clients, Activity!Save(c)
    PROVE  ActivityInv'
<1> USE DEF ActivityInv
<1>1. PICK t \in Activity!Days, mine \in Activity!Activity : t = activityHandler[c].day /\ mine = activityHandler[c].mine
  BY ActivityHandlerParts
<1>2. PICK h \in Activity!Handler : h = [Activity!NoHandler EXCEPT !.pc = "record"] /\ h.pc = "record"
  <2>1. PICK h : h = [Activity!NoHandler EXCEPT !.pc = "record"]
    OBVIOUS
  <2>2. Activity!NoHandler \in Activity!Handler
    BY ActivityDefaults
  <2>3. h \in Activity!Handler /\ h.pc = "record"
    BY <2>1, <2>2 DEF Activity!Handler
  <2>4. QED
    BY <2>1, <2>3
<1>3. /\ activityHandler[c].pc = "save" /\ activityHandler' = [activityHandler EXCEPT ![c] = h]
      /\ activity' = [activity EXCEPT ![t] = mine]
      /\ overwritten' = IF activity[t].actions # mine.actions
                        THEN overwritten \cup {t} ELSE overwritten
      /\ checked' = checked \cup {t}
      /\ rechecked' = IF t \in checked /\ activity[t].actions = 0
                      THEN rechecked \cup {t} ELSE rechecked
      /\ UNCHANGED <<today, recorded, crossedMidnight>>
  BY <1>1, <1>2 DEF Activity!Save, Activity!Store
<1>4. /\ activityHandler'[c] = h /\ \A d \in Clients : d # c => activityHandler'[d] = activityHandler[d]
      /\ activity'[t] = mine
  BY <1>3 DEF Activity!TypeOK
<1>5. Activity!TypeOK'
  BY <1>3 DEF Activity!TypeOK
<1>6. /\ mine.stored /\ mine.actions = 0
      /\ t \notin checked \cup ActivityBlurred => mine.bonuses <= 1
      /\ ~crossedMidnight => t = today /\ ActivityAsDue(mine, t)
  BY <1>1, <1>3 DEF ActivityHandlerOK
<1>7. ActivityHandlerOK(c)'
  <2>1. ASSUME ~crossedMidnight
        PROVE  activity'[today'].stored /\ ActivityAsDue(activity[today], today)'
    <3>1. today \in Nat /\ t <= t
      BY DEF Activity!TypeOK, Activity!Days
    <3>2. ActivityDue(t)' = ActivityDue(t)
      BY <1>3, <1>6, <2>1, <3>1, ActivityStoreDue
    <3>3. ActivityDue(today)' = ActivityDue(t) /\ today' = t
      BY <1>3, <1>6, <2>1, <3>2 DEF ActivityDue
    <3>4. QED
      BY <1>4, <1>6, <2>1, <3>3 DEF ActivityAsDue
  <2>2. QED
    BY <1>2, <1>3, <1>4, <2>1 DEF ActivityHandlerOK
<1>8. t \notin overwritten' => mine.actions = recorded'[t]
  BY <1>3 DEF ActivityDayOK
<1>9. t \notin ActivityBlurred' => mine.bonuses <= 1
  BY <1>3, <1>6 DEF ActivityBlurred
<1>10. /\ checked \subseteq checked' /\ checked' \subseteq checked \cup {t}
       /\ overwritten \subseteq overwritten' /\ rechecked \subseteq rechecked'
       /\ t \in (checked \cup ActivityBlurred)'
  BY <1>3
<1>11. QED
  BY <1>3, <1>4, <1>5, <1>6, <1>7, <1>8, <1>9, <1>10, ActivityStoreStep

\* record_action saves its whole copy with the entry.
LEMMA ActivityAppendPreserves ==
    ASSUME ActivityInv, NEW c \in Clients, Activity!Append(c)
    PROVE  ActivityInv'
<1> USE DEF ActivityInv
<1>1. PICK t \in Activity!Days, mine \in Activity!Activity : t = activityHandler[c].day /\ mine = activityHandler[c].mine
  BY ActivityHandlerParts
<1>2. PICK new : new = [mine EXCEPT !.actions = mine.actions + 1]
  OBVIOUS
<1>3. /\ new \in Activity!Activity /\ new.actions = mine.actions + 1 /\ new.stored = mine.stored
      /\ new.bonuses = mine.bonuses /\ new.streak = mine.streak /\ new.freezes = mine.freezes
  BY <1>2 DEF Activity!Activity
<1>4. /\ activityHandler[c].pc = "append" /\ activityHandler' = [activityHandler EXCEPT ![c] = Activity!NoHandler]
      /\ activity' = [activity EXCEPT ![t] = new]
      /\ overwritten' = IF activity[t].actions # mine.actions
                        THEN overwritten \cup {t} ELSE overwritten
      /\ recorded' = [recorded EXCEPT ![t] = @ + 1]
      /\ UNCHANGED <<today, checked, rechecked, crossedMidnight>>
  BY <1>1, <1>2 DEF Activity!Append, Activity!Store, Activity!Finish
<1>5. /\ activityHandler'[c] = Activity!NoHandler /\ \A d \in Clients : d # c => activityHandler'[d] = activityHandler[d]
      /\ recorded'[t] = recorded[t] + 1 /\ \A d \in Activity!Days : d # t => recorded'[d] = recorded[d]
  BY <1>4 DEF Activity!TypeOK
<1>6. Activity!TypeOK'
  <2>1. recorded' \in [Activity!Days -> Nat]
    BY <1>4 DEF Activity!TypeOK
  <2>2. activity' \in [Activity!Days -> Activity!Activity]
    BY <1>3, <1>4 DEF Activity!TypeOK
  <2>3. QED
    BY <1>4, <2>1, <2>2, ActivityDefaults DEF Activity!TypeOK
<1>7. /\ mine.stored
      /\ t \notin ActivityBlurred => mine.bonuses <= 1
      /\ t \notin checked \cup ActivityBlurred => mine.bonuses = 0
      /\ ~crossedMidnight => t = today /\ ActivityAsDue(mine, t)
  BY <1>1, <1>4 DEF ActivityHandlerOK
<1>8. ActivityHandlerOK(c)'
  BY <1>5, ActivityDefaults DEF ActivityHandlerOK
<1>9. t \notin overwritten' => new.actions = recorded'[t]
  BY <1>3, <1>4, <1>5 DEF ActivityDayOK
<1>10. (t \notin ActivityBlurred' => t \notin ActivityBlurred) /\ (t \notin (checked \cup ActivityBlurred)' => t \notin checked \cup ActivityBlurred)
  BY <1>4 DEF ActivityBlurred
<1>11. ~crossedMidnight => ActivityAsDue(new, t)
  BY <1>3, <1>7 DEF ActivityAsDue
<1>12. overwritten \subseteq overwritten'
  BY <1>4
<1>13. QED
  BY ZenonT(40), <1>3, <1>4, <1>5, <1>6, <1>7, <1>8, <1>9, <1>10, <1>11, <1>12, ActivityStoreStep

\* At midnight no document of the new day is stored.
LEMMA ActivityMidnightPreserves == ASSUME ActivityInv, Activity!Midnight PROVE ActivityInv'
<1> USE DEF ActivityInv
<1>1. /\ today < MaxDay /\ today' = today + 1
      /\ UNCHANGED <<activity, activityHandler, recorded, overwritten, checked, rechecked>>
      /\ crossedMidnight' = (crossedMidnight \/ \E c \in Clients : ~Activity!Idle(c))
  BY DEF Activity!Midnight
<1>2. today \in Nat /\ today \in Activity!Days /\ today' \in Activity!Days
  BY <1>1, DaysAssumption DEF Activity!TypeOK, Activity!Days
<1>3. Activity!TypeOK'
  BY <1>1, <1>2 DEF Activity!TypeOK
<1>4. ~crossedMidnight' => ~crossedMidnight /\ \A c \in Clients : activityHandler[c].pc = "idle"
  BY <1>1 DEF Activity!Idle
<1>5. ASSUME NEW c \in Clients PROVE ActivityHandlerOK(c)'
  BY <1>1, <1>4 DEF ActivityHandlerOK, ActivityBlurred
<1>6. ASSUME NEW d \in Activity!Days PROVE ActivityDayOK(d)'
  <2>1. ActivityDue(d)' = ActivityDue(d)
    BY <1>1, ActivityDueKept DEF Activity!TypeOK
  <2>2. ActivityAsDue(activity[d], d) => ActivityAsDue(activity[d], d)'
    BY <1>1, <2>1 DEF ActivityAsDue
  <2>3. d > today' => d > today
    BY <1>1, <1>2 DEF Activity!Days
  <2>4. QED
    BY <1>1, <1>4, <2>2, <2>3 DEF ActivityDayOK, ActivityBlurred
<1>7. QED
  BY <1>3, <1>5, <1>6 DEF Activity!Days

\* Every step of the tracking requests keeps the invariant.
LEMMA ActivityStep == ActivityInv /\ [Activity!Next]_activityVars => ActivityInv'
<1> SUFFICES ASSUME ActivityInv, [Activity!Next]_activityVars PROVE ActivityInv'
  OBVIOUS
<1>1. CASE Activity!Next
  BY <1>1, ActivityTrackPreserves, ActivityInsertPreserves, ActivityCheckPreserves,
       ActivitySavePreserves, ActivityRecordPreserves,
     ActivityRefusePreserves, ActivityAppendPreserves, ActivityMidnightPreserves, ActivityCrashPreserves DEF Activity!Next
<1>2. CASE UNCHANGED activityVars
  BY <1>2, ActivityStutterPreserves
<1>3. QED
  BY <1>1, <1>2

\* The invariant tells that entries and bonuses are counted.
LEMMA ActivityEntriesFollow == ActivityInv => Activity!EntriesAndBonusCounted
BY DEF ActivityInv, ActivityDayOK, ActivityBlurred, Activity!EntriesAndBonusCounted

\* The invariant tells that streaks follow the rules: by the first day that would not.
LEMMA ActivityStreakFollows == ActivityInv => Activity!StreakFollowsRules
<1> SUFFICES ASSUME ActivityInv PROVE Activity!StreakFollowsRules
  OBVIOUS
<1> USE DEF ActivityInv
<1>1. PICK A : A = {d \in Activity!Days : Activity!Active(d)}
  OBVIOUS
<1> DEFINE Right(d) == /\ activity[d].streak = Activity!Rules(A)[d].streak
                       /\ activity[d].freezes = Activity!Rules(A)[d].freezes
           Meant(d) == /\ Activity!Active(d) /\ ~crossedMidnight
                       /\ \A e \in 1..d : activity[e].stored => Activity!Active(e)
           Bad == {d \in Activity!Days : Meant(d) /\ ~Right(d)}
<1>2. Bad = {}
  <2>1. SUFFICES ASSUME Bad # {} PROVE FALSE
    OBVIOUS
  <2>2. PICK d \in Bad : \A n \in Bad : d <= n
    <3>1. Bad \subseteq Nat
      BY DEF Activity!Days
    <3>2. QED
      BY <2>1, <3>1, MinNat
  <2>3. d \in Activity!Days /\ Meant(d) /\ ~Right(d) /\ d \in A
    BY <1>1, <2>2
  <2>4. ASSUME NEW e \in Activity!Days, e < d, e \in A
        PROVE  /\ activity[e].stored /\ activity[e].actions > 0
               /\ activity[e].streak = Activity!Rules(A)[e].streak
               /\ activity[e].freezes = Activity!Rules(A)[e].freezes
    <3>1. Activity!Active(e)
      BY <1>1, <2>4
    <3>2. \A x \in 1..e : x \in 1..d
      BY <2>3, <2>4 DEF Activity!Days
    <3>3. Meant(e)
      BY <2>3, <3>1, <3>2
    <3>4. ~(d <= e)
      BY <2>3, <2>4 DEF Activity!Days
    <3>5. Right(e)
      BY <2>2, <3>3, <3>4
    <3>6. activity[e].stored
      BY <3>1 DEF Activity!Active, ActivityDayOK
    <3>7. QED
      BY <3>1, <3>5, <3>6 DEF Activity!Active
  <2>5. ASSUME NEW e \in Activity!Days, e < d, e \notin A
        PROVE  ~activity[e].stored /\ activity[e].actions = 0
    <3>1. e \in 1..d /\ ~Activity!Active(e)
      BY <1>1, <2>3, <2>5 DEF Activity!Days
    <3>2. ~activity[e].stored
      BY <2>3, <3>1
    <3>3. QED
      BY <3>2 DEF ActivityDayOK
  <2>6. ActivityDue(d).streak = Activity!Rules(A)[d].streak /\ ActivityDue(d).freezes = Activity!Rules(A)[d].freezes
    BY <2>3, <2>4, <2>5, ActivityDueTellsRules DEF Activity!TypeOK
  <2>7. ActivityAsDue(activity[d], d)
    BY <2>3 DEF ActivityDayOK, Activity!Active
  <2>8. QED
    BY <2>3, <2>6, <2>7 DEF ActivityAsDue
<1>3. \A d \in Activity!Days : Meant(d) => Right(d)
  BY <1>2
<1>4. QED
  BY <1>1, <1>3, Zenon DEF Activity!StreakFollowsRules

-----------------------------------------------------------------------------
\* All parts at once: the one under way, and the others as they started.
IInv ==
    /\ part \in Parts
    /\ CascadeInv /\ ActivityInv /\ ScamInv
    /\ MockInv /\ LibraryInv /\ CoachInv
    /\ TalksInv /\ GoogleInv /\ QueueInv

\* Every part starts from its own initial states.
LEMMA InitEstablishes == Init => IInv
BY CascadeInit, ActivityInit, ScamInit, MockInit, LibraryInit, CoachInit, TalksInit, GoogleInit,
   QueueInit DEF Init, IInv

\* A step is one of the part under way, and leaves the other parts alone.
LEMMA PartsStep ==
    ASSUME [Next]_vars
    PROVE  /\ part' = part
           /\ [Cascade!Next]_cascadeVars /\ [Activity!Next]_activityVars /\ [Scam!Next]_scamVars
           /\ [Mock!Next]_mockVars /\ [Library!Next]_resumeVars /\ [Coach!Next]_coachVars
           /\ [Talks!Next]_negotiationVars /\ [Google!Next]_connectionVars
           /\ [Queue!Next]_taskVars
<1>1. CASE UNCHANGED vars
  BY <1>1 DEF vars
<1>2. CASE Next
  BY <1>2 DEF Next
<1>3. QED
  BY <1>1, <1>2

\* Every part's invariant is kept by its own steps and by all others.
LEMMA NextPreserves == IInv /\ [Next]_vars => IInv'
<1> SUFFICES ASSUME IInv, [Next]_vars PROVE IInv'
  OBVIOUS
<1>1. CascadeInv' /\ ActivityInv' /\ ScamInv'
  BY PartsStep, CascadeStep, ActivityStep, ScamStep DEF IInv
<1>2. MockInv' /\ LibraryInv' /\ CoachInv'
  BY PartsStep, MockStep, LibraryStep, CoachStep DEF IInv
<1>3. TalksInv' /\ GoogleInv' /\ QueueInv'
  BY PartsStep, TalksStep, GoogleStep, QueueStep DEF IInv
<1>4. (part \in Parts)'
  BY PartsStep DEF IInv, Parts
<1>5. QED
  BY <1>1, <1>2, <1>3, <1>4 DEF IInv

\* The inductive invariant holds of every behaviour.
LEMMA Invariant == Spec => []IInv
BY InitEstablishes, NextPreserves, PTL DEF Spec

\* Documents, checkpoints, tasks and handlers of all nine parts have their
\* types, whatever the numbers of jobs, reporters, sessions, threads and tabs.
THEOREM TypeCorrect == Spec => []TypeOK
<1>1. IInv => TypeOK
  BY DEF IInv, TypeOK, CascadeInv, ActivityInv, ScamInv, MockInv, LibraryInv, CoachInv, TalksInv,
         GoogleInv, QueueInv
<1>2. QED
  BY <1>1, Invariant, PTL

\* Jobs and applications come and go together, and a job that is deleted leaves
\* nothing behind that its cascade could have reached, however the routes that
\* create, index and delete interleave and wherever they are cut off
\* (add_job_manually and delete_job of jobs.py).
THEOREM CascadesAreWhole == Spec => []CascadeIsWhole
<1>1. IInv => CascadeIsWhole
  BY CascadeFollows DEF IInv, CascadeIsWhole
<1>2. QED
  BY <1>1, Invariant, PTL

\* As long as no request crosses midnight, streak and freezes of every day are
\* those the rules give for the days before it, for every interval, every bank
\* of freezes and every past (check_and_update_streak of streak_service.py).
THEOREM StreaksFollowRules == Spec => []StreakFollowsRules
<1>1. IInv => StreakFollowsRules
  BY ActivityStreakFollows DEF IInv, StreakFollowsRules
<1>2. QED
  BY <1>1, Invariant, PTL

\* Every answered action is in its day's document and a milestone's bonus is
\* there once, save for documents another request has overwritten (record_action
\* of streak_service.py).
THEOREM EntriesCounted == Spec => []EntriesAndBonusCounted
<1>1. IInv => EntriesAndBonusCounted
  BY ActivityEntriesFollow DEF IInv, EntriesAndBonusCounted
<1>2. QED
  BY <1>1, Invariant, PTL

\* For every threshold and any number of reporters: who reached it has a badge
\* or a request on its way to it, and nobody else (submit_report of
\* scam_report_service.py).
THEOREM BadgesWhenDue == Spec => []BadgeWhenDue
<1>1. IInv => BadgeWhenDue
  BY ScamBadgeWhenDueFollows DEF IInv, BadgeWhenDue
<1>2. QED
  BY <1>1, Invariant, PTL

\* The i-th answer of a mock session is to its i-th question, and what was
\* acknowledged stays, save for sessions whose requests overlapped (submit_answer
\* and complete_mock_session of interviews.py).
THEOREM AnswersAreAccounted == Spec => []AnswersAccounted
<1>1. IInv => AnswersAccounted
  BY MockAnswersFollow DEF IInv, AnswersAccounted
<1>2. QED
  BY <1>1, Invariant, PTL

\* A user who chose a master resume has exactly one, save for switches that
\* crossed or were cut off, for any number of resumes and requests
\* (update_resume of profile.py).
THEOREM OneMasterOnly == Spec => []OneMaster
<1>1. IInv => OneMaster
  BY LibraryOneMasterFollows DEF IInv, OneMaster
<1>2. QED
  BY <1>1, Invariant, PTL

\* No question of a coaching session is skipped or scored twice, the level is
\* what the scores make it, and the session's one record agrees with its
\* debrief, for any number of rounds and questions (the graph and
\* save_performance of interview_coach.py).
THEOREM SessionsScored == Spec => []SessionsAreScored
<1>1. IInv => SessionsAreScored
  BY CoachSessionsFollow DEF IInv, SessionsAreScored
<1>2. QED
  BY <1>1, Invariant, PTL

\* The transcript of a simulation holds its accepted answers in order, each
\* followed by the recruiter's turn to it, for runs of any length that do not
\* overlap (simulate_negotiation of graphs/negotiation.py).
THEOREM TranscriptsTell == Spec => []TranscriptTells
<1>1. IInv => TranscriptTells
  BY TalksTranscriptFollows DEF IInv, TranscriptTells
<1>2. QED
  BY <1>1, Invariant, PTL

\* No grant is lost while it is valid, and none in use that was revoked, with
\* any number of requests beside the hourly refresh (complete_connection and
\* disconnect of integration_service.py, and _refresh_all_expiring_tokens of
\* integration_tasks.py).
THEOREM GrantsAreAccounted == Spec => []GrantsAccounted
<1>1. IInv => GrantsAccounted
  BY DEF IInv, GoogleInv, GrantsAccounted
<1>2. QED
  BY <1>1, Invariant, PTL

\* Once a submission is over, record and queue agree about whether it was sent,
\* whatever cancellations and restarts ran beside it, save for what the process
\* did not survive or could not revoke (submit_task and cancel_task of
\* task_service.py).
THEOREM RecordsTellMessages == Spec => []RecordTellsMessage
<1>1. IInv => RecordTellsMessage
  BY DEF IInv, QueueInv, RecordTellsMessage
<1>2. QED
  BY <1>1, Invariant, PTL
=============================================================================
