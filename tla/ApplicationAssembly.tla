------------------------ MODULE ApplicationAssembly -------------------------
(***************************************************************************)
(* The applications of one user: api/routes/application_assembly.py builds *)
(* one with the graph of workflows/graphs/application_assembly.py, stops   *)
(* at a human review and lets the user edit the package there; jobs.py     *)
(* adds applications without a graph and track.py moves all of them along  *)
(* the pipeline.                                                           *)
(*                                                                         *)
(* A handler advances one await at a time.  As in CoverLetter, a run of    *)
(* the graph works on its own copy of the state and saves it after every   *)
(* node.  Of the package only this is kept: does its cover letter belong   *)
(* to its resume?  Requests that are refused are left out.                 *)
(***************************************************************************)
EXTENDS FiniteSets

CONSTANTS
    Clients,        \* browser tabs
    Apps,           \* ids of Application documents, and of their threads
    PatchTargets,   \* the statuses that the user may ask for
    NoApp           \* no application

ASSUME SentinelAssumption == NoApp \notin Apps
ASSUME TargetsAssumption ==
    PatchTargets \subseteq {"saved", "applied", "interviewing", "offered", "accepted",
                            "rejected", "withdrawn"}

VARIABLES
    status,         \* app -> Application.status, or that there is no document
    threaded,       \* app -> does the document have a thread_id?
    checkpoint,     \* app -> the latest checkpoint of its thread
    handler,        \* client -> the handler of its request
    overlap,        \* did two starts overlap between check and insert? (history)
    cut             \* apps whose review a restart cut off before it was recorded (history)

vars == <<status, threaded, checkpoint, handler, overlap, cut>>

ApplicationStatus ==
    {"saved", "applied", "interviewing", "offered", "accepted", "rejected", "withdrawn"}

\* _VALID_TRANSITIONS
ValidTransitions ==
    [saved        |-> {"applied", "withdrawn"},
     applied      |-> {"interviewing", "rejected", "withdrawn"},
     interviewing |-> {"offered", "rejected", "withdrawn"},
     offered      |-> {"accepted", "rejected", "withdrawn"},
     accepted     |-> {}, rejected |-> {}, withdrawn |-> {}]

Successor ==
    [decode_jd             |-> "score_fit",
     score_fit             |-> "load_locale",
     load_locale           |-> "select_resume_blocks",
     select_resume_blocks  |-> "tailor_resume",
     tailor_resume         |-> "generate_cover_letter",
     generate_cover_letter |-> "generate_micro_pitch",
     generate_micro_pitch  |-> "human_review"]

WorkNodes == DOMAIN Successor
Nodes     == WorkNodes \cup {"human_review", "END"}
Decisions == {"approve", "revise", "reject"}

\* next: snapshot.next, "none" while the thread has no checkpoint.
\* letter: "fresh" if cover_letter was written from tailored_resume, or if the
\* user has typed one of the two since.
Package == [next : Nodes \cup {"none"}, letter : {"stale", "fresh"}]

Empty == [next |-> "none", letter |-> "stale"]

\* package: the run's own copy of the graph's state, its next node included.
\* answer: the Command(resume=...) that human_review has not consumed yet.
\* target: the status that a PATCH was validated for.
Handler == [pc      : {"idle", "create", "begin", "load", "run", "record", "patch", "edit", "put"},
            kind    : {"none", "start", "patch", "edit"} \cup Decisions,
            app     : Apps \cup {NoApp},
            package : Package,
            answer  : Decisions \cup {"none"},
            target  : ApplicationStatus \cup {"none"}]

NoHandler == [pc |-> "idle", kind |-> "none", app |-> NoApp,
              package |-> Empty, answer |-> "none", target |-> "none"]

Init ==
    /\ status = [a \in Apps |-> "absent"]
    /\ threaded = [a \in Apps |-> FALSE]
    /\ checkpoint = [a \in Apps |-> Empty]
    /\ handler = [c \in Clients |-> NoHandler]
    /\ overlap = FALSE
    /\ cut = {}

-----------------------------------------------------------------------------
Idle(c)   == handler[c].pc = "idle"
Finish(c) == handler' = [handler EXCEPT ![c] = NoHandler]
Stored(a) == status[a] \in ApplicationStatus

Accept(c, pc, kind, a) ==
    handler' = [handler EXCEPT ![c] = [NoHandler EXCEPT !.pc = pc, !.kind = kind, !.app = a]]

\* A mutant: the update replaces the document and inserts it if there is none.
SetStatusUpserts(a, s) ==
    status' = [status EXCEPT ![a] = s]

\* repository.update: an application that was deleted stays deleted.
SetStatus(a, s) ==
    status' = [status EXCEPT ![a] = IF Stored(a) THEN s ELSE status[a]]

Create(a, hasThread) ==
    /\ status[a] = "absent"
    /\ status' = [status EXCEPT ![a] = "saved"]
    /\ threaded' = [threaded EXCEPT ![a] = hasThread]

-----------------------------------------------------------------------------
\* start_assembly

\* A mutant: only a package under review counts as in progress.
InProgressAtReview(a) ==
    status[a] = "saved" /\ threaded[a] /\ checkpoint[a].next = "human_review"

\* find_in_progress_assembly
InProgress(a) == status[a] = "saved" /\ threaded[a]

StartAccepted(c) ==
    /\ Idle(c)
    /\ \A a \in Apps : ~InProgress(a)
    /\ Accept(c, "create", "start", NoApp)
    /\ overlap' = (overlap \/ \E d \in Clients : handler[d].pc = "create")
    /\ UNCHANGED <<status, threaded, checkpoint, cut>>

StartCreates(c) ==
    /\ handler[c].pc = "create"
    /\ \E a \in Apps : Create(a, TRUE) /\ Accept(c, "begin", "start", a)
    /\ UNCHANGED <<checkpoint, overlap, cut>>

\* ainvoke(initial_state)
Begin(c) ==
    /\ handler[c].pc = "begin"
    /\ LET first == [Empty EXCEPT !.next = "decode_jd"]
       IN  /\ handler' = [handler EXCEPT ![c].pc = "run", ![c].package = first]
           /\ checkpoint' = [checkpoint EXCEPT ![handler[c].app] = first]
    /\ UNCHANGED <<status, threaded, overlap, cut>>

-----------------------------------------------------------------------------
\* The graph

At(c, node) == handler[c].pc = "run" /\ handler[c].package.next = node

\* ainvoke returns, and review_assembly has no use for the state it returns.
Returned(h) == [h EXCEPT !.pc = "record", !.package = Empty]

\* A review continues from the latest checkpoint.  Its answer is delivered if
\* that is at human_review, and dropped otherwise.
Load(c) ==
    /\ handler[c].pc = "load"
    /\ LET latest == checkpoint[handler[c].app]
           h == handler[c]
       IN  handler' = [handler EXCEPT ![c] =
             IF latest.next = "END" THEN Returned(h)
             ELSE [h EXCEPT !.pc = "run", !.package = latest,
                            !.answer = IF latest.next = "human_review" THEN h.kind ELSE "none"]]
    /\ UNCHANGED <<status, threaded, checkpoint, overlap, cut>>

Save(c, package) ==
    /\ LET h == [handler[c] EXCEPT !.package = package, !.answer = "none"]
       IN  handler' = [handler EXCEPT ![c] = IF package.next = "END" THEN Returned(h) ELSE h]
    /\ checkpoint' = [checkpoint EXCEPT ![handler[c].app] = package]
    /\ UNCHANGED <<status, threaded, overlap, cut>>

\* The nodes that leave tailored_resume and cover_letter alone.
PlainNode(c) ==
    \E node \in WorkNodes \ {"tailor_resume", "generate_cover_letter"} :
      /\ At(c, node)
      /\ Save(c, [handler[c].package EXCEPT !.next = Successor[node]])

TailorResume(c) ==
    /\ At(c, "tailor_resume")
    /\ Save(c, [next |-> Successor["tailor_resume"], letter |-> "stale"])

GenerateCoverLetter(c) ==
    /\ At(c, "generate_cover_letter")
    /\ Save(c, [next |-> Successor["generate_cover_letter"], letter |-> "fresh"])

\* Everything but select_resume_blocks, which catches, may raise: 500, and
\* the thread stays where it is.
NodeRaises(c) ==
    /\ \E node \in WorkNodes \ {"select_resume_blocks"} : At(c, node)
    /\ Finish(c)
    /\ UNCHANGED <<status, threaded, checkpoint, overlap, cut>>

\* interrupt() without an answer ends the run; a review takes the interrupted
\* state for the result.
Interrupt(c) ==
    /\ At(c, "human_review")
    /\ handler[c].answer = "none"
    /\ IF handler[c].kind = "start" THEN Finish(c)
       ELSE handler' = [handler EXCEPT ![c] = Returned(handler[c])]
    /\ UNCHANGED <<status, threaded, checkpoint, overlap, cut>>

HumanReview(c) ==
    /\ At(c, "human_review")
    /\ \/ /\ handler[c].answer \in {"approve", "reject"}
          /\ Save(c, [handler[c].package EXCEPT !.next = "END"])
       \/ /\ handler[c].answer = "revise"
          /\ Save(c, [handler[c].package EXCEPT !.next = "tailor_resume"])

-----------------------------------------------------------------------------
\* review_assembly

Review(c, a, decision) ==
    /\ Idle(c)
    /\ Stored(a)
    /\ checkpoint[a].next = "human_review"
    /\ Accept(c, "load", decision, a)
    /\ UNCHANGED <<status, threaded, checkpoint, overlap, cut>>

\* A mutant: only an approval is written to the document.
RecordApprovalOnly(c) ==
    /\ handler[c].pc = "record"
    /\ IF handler[c].kind = "approve" THEN SetStatus(handler[c].app, "applied")
       ELSE UNCHANGED status
    /\ Finish(c)
    /\ UNCHANGED <<threaded, checkpoint, overlap, cut>>

Record(c) ==
    /\ handler[c].pc = "record"
    /\ CASE handler[c].kind = "approve" -> SetStatus(handler[c].app, "applied")
         [] handler[c].kind = "reject"  -> SetStatus(handler[c].app, "withdrawn")
         [] handler[c].kind = "revise"  -> UNCHANGED status
    /\ Finish(c)
    /\ UNCHANGED <<threaded, checkpoint, overlap, cut>>

-----------------------------------------------------------------------------
\* edit_application: the check, then aupdate_state, which loads the latest
\* checkpoint and puts a new one with the same next node.  Any of resume,
\* letter and pitch may be edited; a body without a field writes nothing and is
\* left out.

Edit(c, a) ==
    /\ Idle(c)
    /\ Stored(a)
    /\ checkpoint[a].next = "human_review"
    /\ Accept(c, "edit", "edit", a)
    /\ UNCHANGED <<status, threaded, checkpoint, overlap, cut>>

\* A mutant: aupdate_state(..., as_node="generate_micro_pitch"), as the node
\* before the review.
EditLoadsForReview(c) ==
    /\ handler[c].pc = "edit"
    /\ LET latest == checkpoint[handler[c].app]
       IN  \E letter \in {"fresh", latest.letter} :
             handler' = [handler EXCEPT
                           ![c].pc = "put",
                           ![c].package = [next |-> "human_review", letter |-> letter]]
    /\ UNCHANGED <<status, threaded, checkpoint, overlap, cut>>

EditLoads(c) ==
    /\ handler[c].pc = "edit"
    /\ LET latest == checkpoint[handler[c].app]
       IN  \E letter \in {"fresh", latest.letter} :   \* latest's: only micro_pitch is edited
             handler' = [handler EXCEPT
                           ![c].pc = "put", ![c].package = [latest EXCEPT !.letter = letter]]
    /\ UNCHANGED <<status, threaded, checkpoint, overlap, cut>>

EditPuts(c) ==
    /\ handler[c].pc = "put"
    /\ checkpoint' = [checkpoint EXCEPT ![handler[c].app] = handler[c].package]
    /\ Finish(c)
    /\ UNCHANGED <<status, threaded, overlap, cut>>

-----------------------------------------------------------------------------
\* The other routes

\* add_job_manually and save_assembly create an application without a thread.
AddApplication(c) ==
    /\ Idle(c)
    /\ \E a \in Apps : Create(a, FALSE)
    /\ UNCHANGED <<checkpoint, handler, overlap, cut>>

\* update_application_status: validated against the status that was read.
Patch(c, a, s) ==
    /\ Idle(c)
    /\ Stored(a)
    /\ s \in ValidTransitions[status[a]]
    /\ handler' = [handler EXCEPT ![c] = [NoHandler EXCEPT !.pc = "patch", !.kind = "patch",
                                                           !.app = a, !.target = s]]
    /\ UNCHANGED <<status, threaded, checkpoint, overlap, cut>>

PatchWrites(c) ==
    /\ handler[c].pc = "patch"
    /\ SetStatus(handler[c].app, handler[c].target)
    /\ Finish(c)
    /\ UNCHANGED <<threaded, checkpoint, overlap, cut>>

\* delete_application: the checkpoints stay.
Delete(c, a) ==
    /\ Idle(c)
    /\ Stored(a)
    /\ status' = [status EXCEPT ![a] = "deleted"]
    /\ UNCHANGED <<threaded, checkpoint, handler, overlap, cut>>

\* The server restarts.
Crash ==
    /\ \E c \in Clients : ~Idle(c)
    /\ handler' = [c \in Clients |-> NoHandler]
    /\ cut' = cut \cup {handler[c].app : c \in {d \in Clients : handler[d].pc = "record"}}
    /\ UNCHANGED <<status, threaded, checkpoint, overlap>>

-----------------------------------------------------------------------------
UserStep(c) ==
    \/ StartAccepted(c) \/ AddApplication(c)
    \/ \E a \in Apps :
         \/ \E decision \in Decisions : Review(c, a, decision)
         \/ \E s \in PatchTargets : Patch(c, a, s)
         \/ Edit(c, a) \/ Delete(c, a)

ServerStep(c) ==
    \/ StartCreates(c) \/ Begin(c) \/ Load(c)
    \/ PlainNode(c) \/ TailorResume(c) \/ GenerateCoverLetter(c)
    \/ Interrupt(c) \/ HumanReview(c) \/ Record(c)
    \/ EditLoads(c) \/ EditPuts(c) \/ PatchWrites(c)

Next ==
    \/ \E c \in Clients : UserStep(c) \/ ServerStep(c) \/ NodeRaises(c)
    \/ Crash

Spec == Init /\ [][Next]_vars

-----------------------------------------------------------------------------
\* Types of the documents, checkpoints and handlers.
TypeOK ==
    /\ status \in [Apps -> ApplicationStatus \cup {"absent", "deleted"}]
    /\ threaded \in [Apps -> BOOLEAN]
    /\ checkpoint \in [Apps -> Package]
    /\ handler \in [Clients -> Handler]
    /\ overlap \in BOOLEAN
    /\ cut \subseteq Apps

(***************************************************************************)
(* "Used by the application assembly route to prevent duplicate concurrent *)
(* assemblies" (application_repository.py:84): it does, through failed     *)
(* nodes, restarts, edits and moves along the pipeline, unless two starts  *)
(* both passed the check before either had inserted its document.          *)
(***************************************************************************)
OneAssembly ==
    \/ overlap
    \/ \A a, b \in Apps : InProgress(a) /\ InProgress(b) => a = b

(***************************************************************************)
(* The package the user reviews belongs together: its letter was written   *)
(* from its resume, unless the user typed one of the two since that resume *)
(* was written.  Reviews and edits of several tabs write checkpoints of    *)
(* one thread in any order, an edit of the pitch alone included: it may    *)
(* put back a copy that it loaded between the resume and the letter, and   *)
(* that copy must not pass for a package under review.                     *)
(***************************************************************************)
PackageCoherent ==
    \A a \in Apps :
      checkpoint[a].next \in {"human_review", "END"} =>
        checkpoint[a].letter = "fresh"

(***************************************************************************)
(* A decision opens the gate again: a thread that was approved or rejected *)
(* leaves no application that counts as in progress, and so blocks every   *)
(* later start, once its requests are answered and if none was cut off.    *)
(***************************************************************************)
DecidedIsReleased ==
    \A a \in Apps :
      /\ checkpoint[a].next = "END"
      /\ a \notin cut
      /\ \A c \in Clients : handler[c].app # a
      => ~InProgress(a)

(***************************************************************************)
(* A late update, validated or reviewed before others moved or deleted the *)
(* application, neither brings a deleted application back nor an advanced  *)
(* one back to "saved".                                                    *)
(***************************************************************************)
NoWayBack ==
    [][\A a \in Apps :
         /\ status[a] = "deleted" => status'[a] = "deleted"
         /\ status[a] # "absent" /\ status'[a] = "saved" => status[a] = "saved"]_vars

(***************************************************************************)
(* "WITHDRAWN: set(),  # terminal" (track.py:88): no step moves an         *)
(* application out of a status that has no transitions.  The review of an  *)
(* assembly does, and no run checks it.                                    *)
(***************************************************************************)
TerminalStays ==
    [][\A a \in Apps :
         Stored(a) /\ status'[a] \in ApplicationStatus /\ ValidTransitions[status[a]] = {}
         => status'[a] = status[a]]_vars
=============================================================================
