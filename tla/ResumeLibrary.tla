---------------------------- MODULE ResumeLibrary ----------------------------
(***************************************************************************)
(* The resumes of one user: the endpoints of api/routes/profile.py that    *)
(* upload, change, delete and parse them again, ResumeRepository, and the  *)
(* background task that parses a resume: as delivered it only sets the     *)
(* status.  What it then puts into the vector store is left out.           *)
(*                                                                         *)
(* A new master is made in two awaits, the update that clears every master *)
(* and the write that sets one; a version is counted before it is stored;  *)
(* and a task runs in the server's memory after the response, in the same  *)
(* slot as its request here.                                               *)
(***************************************************************************)
EXTENDS Naturals, FiniteSets

CONSTANTS
    Requests,       \* slots for requests under way
    Resumes         \* slots for Resume documents

VARIABLES
    resume,         \* slot -> Resume document
    request,        \* slot -> the handler, and later the task, that runs in it
    crossed,        \* was a master set by two requests that overlapped, and by
                    \* no other since? (history)
    vacated,        \* was the master given up, or lost with a request that was
                    \* cut off, or never chosen? (history)
    cut             \* resumes whose task was cut off (history)

vars == <<resume, request, crossed, vacated, cut>>

Status == {"pending", "processing", "skipped", "failed"}

Resume == [stored : {"absent", "present", "deleted"}, version : Nat,
           master : BOOLEAN, parse : Status]

NoResume == [stored |-> "absent", version |-> 0, master |-> FALSE, parse |-> "pending"]

\* overtaken: did another request set its master between the two writes of
\* this one? (history)
Request == [pc : {"idle", "unset", "create", "unset_all", "set", "reparse",
                  "process", "skip"},
            resume : Resumes \cup {"none"}, version : Nat, master : BOOLEAN,
            overtaken : BOOLEAN]

NoRequest == [pc |-> "idle", resume |-> "none", version |-> 0, master |-> FALSE,
              overtaken |-> FALSE]

Init ==
    /\ resume = [x \in Resumes |-> NoResume]
    /\ request = [r \in Requests |-> NoRequest]
    /\ crossed = FALSE
    /\ vacated = TRUE
    /\ cut = {}

-----------------------------------------------------------------------------
Stored     == {x \in Resumes : resume[x].stored = "present"}
Masters    == {x \in Stored : resume[x].master}
Finish(r)  == request' = [request EXCEPT ![r] = NoRequest]
Goto(r, pc) == request' = [request EXCEPT ![r].pc = pc]

Begin(r, q) == request[r].pc = "idle" /\ request' = [request EXCEPT ![r] = q]

\* repo.update: nothing is written to a document that is gone.
Update(x, f, v) ==
    IF x \in Stored THEN [resume EXCEPT ![x] = [@ EXCEPT ![f] = v]] ELSE resume

\* Between clearing every master and setting its own.
Switching(q) == q.pc \in {"create", "set"} /\ q.master

\* r goes on with "next"; if it has set a master, the others remember it.
Overtake(r, next, master) ==
    request' = [q \in Requests |->
        IF q = r THEN next
        ELSE [request[q] EXCEPT !.overtaken = @ \/ (master /\ Switching(request[q]))]]

-----------------------------------------------------------------------------
\* upload_resume: the version is counted first.
Upload(r, master) ==
    /\ \E x \in Resumes : resume[x].stored = "absent"
    /\ Begin(r, [NoRequest EXCEPT !.pc = IF master THEN "unset" ELSE "create",
                                  !.version = Cardinality(Stored) + 1, !.master = master])
    /\ UNCHANGED <<resume, crossed, vacated, cut>>

\* A mutant: the first master found is cleared.
UnsetOne(r) ==
    /\ request[r].pc \in {"unset", "unset_all"}
    /\ resume' = IF Masters = {} THEN resume
                 ELSE [resume EXCEPT ![CHOOSE x \in Masters : TRUE].master = FALSE]
    /\ crossed' = FALSE
    /\ Goto(r, IF request[r].pc = "unset" THEN "create" ELSE "set")
    /\ UNCHANGED <<vacated, cut>>

\* unset_master_for_user: one update of all that are master.  Whatever two
\* requests did before is repaired.
Unset(r) ==
    /\ request[r].pc \in {"unset", "unset_all"}
    /\ resume' = [x \in Resumes |-> [resume[x] EXCEPT !.master = FALSE]]
    /\ crossed' = FALSE
    /\ Goto(r, IF request[r].pc = "unset" THEN "create" ELSE "set")
    /\ UNCHANGED <<vacated, cut>>

Create(r) ==
    /\ request[r].pc = "create"
    /\ LET q == request[r]
       IN  \E x \in Resumes :
             /\ resume[x].stored = "absent"
             /\ resume' = [resume EXCEPT ![x] =
                   [stored |-> "present", version |-> q.version, master |-> q.master,
                    parse |-> "pending"]]
             /\ Overtake(r, [NoRequest EXCEPT !.pc = "process", !.resume = x],
                         q.master)
             /\ crossed' = (crossed \/ q.overtaken)
             /\ vacated' = (vacated /\ ~q.master)
    /\ UNCHANGED cut

\* update_resume with is_master true ...
MakeMaster(r, x) ==
    /\ x \in Stored
    /\ Begin(r, [NoRequest EXCEPT !.pc = "unset_all", !.resume = x, !.master = TRUE])
    /\ UNCHANGED <<resume, crossed, vacated, cut>>

SetMaster(r) ==
    /\ request[r].pc = "set"
    /\ LET x == request[r].resume
       IN  /\ resume' = Update(x, "master", TRUE)
           /\ IF x \in Stored THEN Overtake(r, NoRequest, TRUE) ELSE Finish(r)
           /\ crossed' = (crossed \/ request[r].overtaken)
           /\ vacated' = (x \notin Stored)
    /\ UNCHANGED cut

\* ... and with is_master false.
DropMaster(r, x) ==
    /\ request[r].pc = "idle"
    /\ x \in Masters
    /\ resume' = [resume EXCEPT ![x].master = FALSE]
    /\ vacated' = TRUE
    /\ UNCHANGED <<request, crossed, cut>>

\* delete_resume
Delete(r, x) ==
    /\ request[r].pc = "idle"
    /\ x \in Stored
    /\ resume' = [resume EXCEPT ![x] = [NoResume EXCEPT !.stored = "deleted"]]
    /\ vacated' = (vacated \/ x \in Masters)
    /\ UNCHANGED <<request, crossed, cut>>

\* reparse_resume: only a failed resume; the check and the write are two
\* awaits.
Reparse(r, x) ==
    /\ x \in Stored
    /\ resume[x].parse = "failed"
    /\ Begin(r, [NoRequest EXCEPT !.pc = "reparse", !.resume = x])
    /\ UNCHANGED <<resume, crossed, vacated, cut>>

-----------------------------------------------------------------------------
\* _parse_resume_background: pending, processing, skipped (there is no parser
\* yet).
SetStatus(r, from, status, next) ==
    /\ request[r].pc = from
    /\ resume' = Update(request[r].resume, "parse", status)
    /\ next
    /\ UNCHANGED <<crossed, vacated, cut>>

Queue(r)   == SetStatus(r, "reparse", "pending", Goto(r, "process"))
Process(r) == SetStatus(r, "process", "processing", Goto(r, "skip"))
Skip(r)    == SetStatus(r, "skip", "skipped", Finish(r))

\* An exception before the indexing: failed, unless that write raises too.
TaskFails(r) ==
    /\ request[r].pc \in {"process", "skip"}
    /\ \/ resume' = Update(request[r].resume, "parse", "failed") /\ UNCHANGED cut
       \/ cut' = cut \cup {request[r].resume} /\ UNCHANGED resume
    /\ Finish(r)
    /\ UNCHANGED <<crossed, vacated>>

\* Requests fail before their response, or the server restarts with all.
CutOff(R) ==
    /\ \E r \in R : request[r].pc # "idle"
    /\ request' = [r \in Requests |-> IF r \in R THEN NoRequest ELSE request[r]]
    /\ vacated' = (vacated \/ \E r \in R : Switching(request[r]))
    /\ cut' = cut \cup {request[r].resume : r \in
                         {q \in R : request[q].pc \in {"process", "skip"}}}
    /\ UNCHANGED <<resume, crossed>>

Next ==
    \/ \E r \in Requests :
         \/ \E master \in BOOLEAN : Upload(r, master)
         \/ Unset(r) \/ Create(r) \/ SetMaster(r)
         \/ \E x \in Resumes :
              MakeMaster(r, x) \/ DropMaster(r, x) \/ Delete(r, x) \/ Reparse(r, x)
         \/ Queue(r) \/ Process(r) \/ Skip(r) \/ TaskFails(r)
         \/ request[r].pc \in {"unset", "create", "unset_all", "set", "reparse"} /\ CutOff({r})
    \/ CutOff(Requests)

Spec == Init /\ [][Next]_vars

-----------------------------------------------------------------------------
\* Types of the resumes and the requests.
TypeOK ==
    /\ resume \in [Resumes -> Resume]
    /\ request \in [Requests -> Request]
    /\ crossed \in BOOLEAN /\ vacated \in BOOLEAN
    /\ cut \subseteq Resumes

(***************************************************************************)
(* A user who has chosen a master has exactly one: two only after two      *)
(* requests each cleared the masters before either set its own, and until  *)
(* the next switch; none only while a switch is between its two writes,    *)
(* was cut off there, or found its resume deleted, or after the user gave  *)
(* the master up.                                                          *)
(***************************************************************************)
OneMaster ==
    /\ Cardinality(Masters) > 1 => crossed
    /\ Masters = {} => vacated \/ \E r \in Requests : Switching(request[r])

(***************************************************************************)
(* "Only one resume can be the master ... ensuring the invariant holds     *)
(* even under concurrent requests" (profile.py:25-28).                     *)
(***************************************************************************)
AtMostOneMaster == Cardinality(Masters) <= 1

(***************************************************************************)
(* A status that tells the client to go on polling is one that a task will *)
(* still change, unless that task was cut off (parse-status of profile.py).*)
(***************************************************************************)
StatusTells ==
    \A x \in Stored \ cut :
      resume[x].parse \in {"pending", "processing"} =>
        \E r \in Requests : request[r].resume = x /\ request[r].pc \in {"process", "skip"}
=============================================================================
