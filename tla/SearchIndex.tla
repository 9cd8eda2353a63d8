----------------------------- MODULE SearchIndex -----------------------------
(***************************************************************************)
(* The objects that IndexingService keeps in the vector store for one      *)
(* document: delete what is there, embed the chunks, insert them one by    *)
(* one.  A resume is indexed in the background after its upload and after  *)
(* each reparse; a job once, after it was added, and its objects are       *)
(* removed when it is deleted.  Each await of a run is a step of its own,  *)
(* and the embedding model and the store may fail at each.                 *)
(***************************************************************************)
EXTENDS Naturals, FiniteSets

CONSTANTS
    Slots,      \* background tasks that can be under way at once
    Chunks,     \* the chunks of the document's text, which never changes
    MaxRuns,    \* bound: runs started
    MaxResults  \* objects that search_by_property returns at most (100)

VARIABLES
    document,   \* the document in MongoDB: its kind and whether it exists
    objects,    \* the document's objects in the vector store
    runs,       \* number of runs started
    handler,    \* slot -> the run in it
    holds       \* what the last run promised (history)

vars == <<document, objects, runs, handler, holds>>

\* The store gives every inserted object an id of its own: the run tells the
\* objects of equal chunks apart.
Object == [run : 1..MaxRuns, chunk : Chunks]

\* alone: the run met nothing it could not see or finish (history).
Handler == [pc : {"idle", "read", "search", "delete", "tenant", "embed", "insert"},
            mode : {"index", "remove"}, run : 0..MaxRuns,
            found : SUBSET Object, left : SUBSET Chunks, alone : BOOLEAN]

NoRun == [pc |-> "idle", mode |-> "index", run |-> 0, found |-> {}, left |-> {},
          alone |-> TRUE]

Init ==
    /\ document \in [kind : {"resume", "job"}, exists : {TRUE}]
    /\ objects = {}
    /\ runs = 0
    /\ handler = [s \in Slots |-> NoRun]
    /\ holds = "nothing"

Busy(s) == handler[s].pc # "idle"
Go(s, pc) == handler' = [handler EXCEPT ![s].pc = pc]

\* The run in s ends without having done what it is for: it raised, which its
\* callers only log, or its process was restarted.
Spoiled(s) == IF handler[s].pc \in {"read", "search"} THEN holds ELSE "anything"

Fail(s) ==
    /\ handler' = [handler EXCEPT ![s] = NoRun]
    /\ holds' = Spoiled(s)
    /\ UNCHANGED <<document, objects, runs>>

Succeed(s) ==
    /\ handler' = [handler EXCEPT ![s] = NoRun]
    /\ holds' = IF ~handler[s].alone THEN "anything"
                ELSE IF handler[s].mode = "index" THEN "text" ELSE "nothing"

-----------------------------------------------------------------------------
\* A run next to another one: neither can know what the other leaves.
Start(s, mode) ==
    /\ ~Busy(s)
    /\ runs < MaxRuns
    /\ runs' = runs + 1
    /\ LET overlap == \E t \in Slots : Busy(t)
       IN  handler' = [t \in Slots |->
             IF t = s
             THEN [NoRun EXCEPT !.pc = IF mode = "index" THEN "read" ELSE "search",
                                !.mode = mode, !.run = runs + 1, !.alone = ~overlap]
             ELSE [handler[t] EXCEPT !.alone = @ /\ ~Busy(t)]]
    /\ UNCHANGED <<document, objects, holds>>

\* Adding a job queues one run; of a resume there are as many as requests that
\* found its parsing failed, in upload_resume's task and by reparse_resume.
Index(s) ==
    /\ document.exists
    /\ document.kind = "job" => runs = 0
    /\ Start(s, "index")

\* delete_job, any number of times until the job is gone
Remove(s) ==
    /\ document = [kind |-> "job", exists |-> TRUE]
    /\ Start(s, "remove")

\* A document that is gone is a ValueError.
Read(s) ==
    /\ handler[s].pc = "read"
    /\ IF document.exists
       THEN Go(s, "search") /\ UNCHANGED <<document, objects, runs, holds>>
       ELSE Fail(s)

\* A mutant: the first object is skipped.
FoundButOne == {found \in SUBSET objects :
                  found = {} \/ Cardinality(found) + 1 = Cardinality(objects)}

\* What the search finds; a search that fails counts as one that found none.
Found == {found \in SUBSET objects :
            \/ found = {}
            \/ Cardinality(found) = IF Cardinality(objects) < MaxResults
                                    THEN Cardinality(objects) ELSE MaxResults}

Search(s) ==
    /\ handler[s].pc = "search"
    /\ \E found \in Found :
         handler' = [handler EXCEPT ![s].pc = "delete", ![s].found = found,
                     ![s].alone = @ /\ (found = {} => objects = {})
                                    /\ Cardinality(objects) <= MaxResults]
    /\ UNCHANGED <<document, objects, runs, holds>>

\* delete_object checks that the object is still there.
Delete(s) ==
    /\ handler[s].pc = "delete"
    /\ \E o \in handler[s].found :
         /\ objects' = objects \ {o}
         /\ handler' = [handler EXCEPT ![s].found = @ \ {o}]
    /\ UNCHANGED <<document, runs, holds>>

\* delete_job removes the document after its objects, whether or not that
\* worked; delete_job_embeddings swallows a failure.
Deleted(s) ==
    /\ handler[s].pc = "delete"
    /\ handler[s].found = {}
    /\ IF handler[s].mode = "index"
       THEN Go(s, "tenant") /\ UNCHANGED <<document, holds>>
       ELSE Succeed(s) /\ document' = [document EXCEPT !.exists = FALSE]
    /\ UNCHANGED <<objects, runs>>

EnsureTenant(s) ==
    /\ handler[s].pc = "tenant"
    /\ Go(s, "embed")
    /\ UNCHANGED <<document, objects, runs, holds>>

Embed(s) ==
    /\ handler[s].pc = "embed"
    /\ handler' = [handler EXCEPT ![s].pc = "insert", ![s].left = Chunks]
    /\ UNCHANGED <<document, objects, runs, holds>>

Insert(s) ==
    /\ handler[s].pc = "insert"
    /\ \E k \in handler[s].left :
         /\ objects' = objects \cup {[run |-> handler[s].run, chunk |-> k]}
         /\ IF handler[s].left = {k}
            THEN Succeed(s)
            ELSE /\ handler' = [handler EXCEPT ![s].left = @ \ {k}]
                 /\ UNCHANGED holds
    /\ UNCHANGED <<document, runs>>

\* External: MongoDB, the vector store or the embedding model raises.
Raises(s) ==
    /\ \/ handler[s].pc \in {"read", "tenant", "embed", "insert"}
       \/ handler[s].pc = "delete" /\ handler[s].found # {}
    /\ IF handler[s].mode = "remove"
       THEN /\ handler' = [handler EXCEPT ![s] = NoRun]
            /\ holds' = Spoiled(s)
            /\ document' = [document EXCEPT !.exists = FALSE]
            /\ UNCHANGED <<objects, runs>>
       ELSE Fail(s)

\* delete_resume removes the document and leaves its objects.
DeleteResume ==
    /\ document = [kind |-> "resume", exists |-> TRUE]
    /\ document' = [document EXCEPT !.exists = FALSE]
    /\ UNCHANGED <<objects, runs, handler, holds>>

\* External: the process is restarted; the background tasks are gone.
Restart ==
    /\ \E s \in Slots : Busy(s)
    /\ holds' = IF \A s \in Slots : Busy(s) => Spoiled(s) = holds THEN holds ELSE "anything"
    /\ handler' = [s \in Slots |-> NoRun]
    /\ UNCHANGED <<document, objects, runs>>

Next ==
    \/ \E s \in Slots :
         \/ Index(s) \/ Remove(s) \/ Read(s) \/ Search(s) \/ Delete(s) \/ Deleted(s)
         \/ EnsureTenant(s) \/ Embed(s) \/ Insert(s) \/ Raises(s)
    \/ DeleteResume
    \/ Restart

Spec == Init /\ [][Next]_vars

-----------------------------------------------------------------------------
\* The document, its objects and the runs have their types.
TypeOK ==
    /\ document \in [kind : {"resume", "job"}, exists : BOOLEAN]
    /\ objects \subseteq Object
    /\ runs \in 0..MaxRuns
    /\ handler \in [Slots -> Handler]
    /\ holds \in {"nothing", "text", "anything"}

\* While no run is under way, the document has exactly one object for each of
\* its chunks after a run that indexed it, whatever broken runs and leftovers
\* came before it, and none before the first run and after a removal.
\* Excepted are runs that overlapped, failed half-way, were cut off, or whose
\* search failed or found more objects than it returns, until the next run
\* without such a mishap (index_resume, index_job and delete_job_embeddings).
IndexTellsText ==
    (\A s \in Slots : ~Busy(s)) =>
      /\ holds = "nothing" => objects = {}
      /\ holds = "text" =>
           \E r \in 1..MaxRuns : objects = {[run |-> r, chunk |-> k] : k \in Chunks}

\* Re-indexing twice produces the same result (the module's docstring): no
\* chunk has two objects once the runs are over.  Two reparses of one resume
\* may both pass the deletion before either inserts, so the code does not
\* keep this and no run checks it.
NoChunkTwice ==
    (\A s \in Slots : ~Busy(s)) =>
      \A o, p \in objects : o.chunk = p.chunk => o = p
=============================================================================
