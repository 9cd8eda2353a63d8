-------------------------- MODULE DocumentVersions --------------------------
(***************************************************************************)
(* Concurrent POST /cover-letter requests: the duplicate detection of      *)
(* start_cover_letter (api/routes/apply.py), then create_versioned of      *)
(* repositories/document_repository.py: read the highest version, stamp    *)
(* created_at, insert, and start over when the unique index on             *)
(* (application_id, doc_type, version) rejects the insert.                 *)
(*                                                                         *)
(* One application and one document type: no query of the repository       *)
(* relates two of them.  A request is named by the thread id it generates. *)
(* No document is deleted here (delete_job is not part of this module),    *)
(* and of a review only its approval is here (CoverLetter has the rest).   *)
(* clock orders the readings of the wall clock; the stamps of two readings *)
(* are taken to differ, and all workers to share one clock.                *)
(***************************************************************************)
EXTENDS Integers, FiniteSets, FiniteSetsExt

CONSTANTS
    Threads,        \* start requests, by their uuid4 thread id
    MaxRetries      \* max_retries of create_versioned

ASSUME MaxRetriesAssumption == MaxRetries \in Nat \ {0}

VARIABLES
    documents,      \* the threads whose DocumentRecord is in the collection
    version,        \* thread -> DocumentRecord.version (0 before the first read)
    created_at,     \* thread -> DocumentRecord.created_at (0 before the first insert)
    pc,             \* thread -> where create_versioned is
    attempt,        \* thread -> attempt of the retry loop, from 1
    clock,          \* the latest reading of datetime.now
    approved,       \* the threads whose document has is_approved
    known           \* thread -> the documents there were at its duplicate check (history)

vars == <<documents, version, created_at, pc, attempt, clock, approved, known>>

Init ==
    /\ documents = {}
    /\ version = [t \in Threads |-> 0]
    /\ created_at = [t \in Threads |-> 0]
    /\ pc = [t \in Threads |-> "check"]
    /\ attempt = [t \in Threads |-> 1]
    /\ clock = 0
    /\ approved = {}
    /\ known = [t \in Threads |-> {}]

-----------------------------------------------------------------------------
\* start_cover_letter: duplicate detection

Versions == {version[t] : t \in documents}

\* A mutant: the check looks at the latest document only.
InProgressLatest == {t \in documents \ approved : \A v \in Versions : v <= version[t]}

\* get_in_progress_for_application: a document is given its content and its
\* approval in one update.
InProgress == documents \ approved

\* GENERATION_ALREADY_IN_PROGRESS
Blocked(t) ==
    /\ pc[t] = "check"
    /\ InProgress # {}
    /\ pc' = [pc EXCEPT ![t] = "blocked"]
    /\ UNCHANGED <<documents, version, created_at, attempt, clock, approved, known>>

Accepted(t) ==
    /\ pc[t] = "check"
    /\ InProgress = {}
    /\ pc' = [pc EXCEPT ![t] = "read"]
    /\ known' = [known EXCEPT ![t] = documents]
    /\ UNCHANGED <<documents, version, created_at, attempt, clock, approved>>

-----------------------------------------------------------------------------
\* create_versioned

\* A mutant: a version is skipped once documents exist.
NextVersionSkips == IF documents = {} THEN 1 ELSE Max(Versions) + 2

\* _get_next_version: sort="-version", limit 1.
NextVersion == IF documents = {} THEN 1 ELSE Max(Versions) + 1

\* A mutant: created_at is stamped once, when the document object is built.
StampOnce(t) == IF created_at[t] = 0 THEN clock + 1 ELSE created_at[t]

\* The before_event(Insert) hook: the document is stamped at every attempt.
Stamp(t) == clock + 1

\* _get_next_version answers; document.insert() stamps the document and sends it.
ReadVersion(t) ==
    /\ pc[t] = "read"
    /\ version' = [version EXCEPT ![t] = NextVersion]
    /\ created_at' = [created_at EXCEPT ![t] = Stamp(t)]
    /\ clock' = clock + 1
    /\ pc' = [pc EXCEPT ![t] = "insert"]
    /\ UNCHANGED <<documents, attempt, approved, known>>

\* A mutant: the index does not cover the version.
TakenNever(v) == FALSE

\* application_doctype_version_uidx rejects the insert: DuplicateKeyError.
Taken(v) == v \in Versions

Insert(t) ==
    /\ pc[t] = "insert"
    /\ ~Taken(version[t])
    /\ documents' = documents \cup {t}
    /\ pc' = [pc EXCEPT ![t] = "created"]
    /\ UNCHANGED <<version, created_at, attempt, clock, approved, known>>

\* A mutant: the loop gives up one attempt early.
IsLastAttemptEarly(n) == n >= MaxRetries - 1

IsLastAttempt(n) == n >= MaxRetries

Retry(t) ==
    /\ pc[t] = "insert"
    /\ Taken(version[t])
    /\ ~IsLastAttempt(attempt[t])
    /\ attempt' = [attempt EXCEPT ![t] = @ + 1]
    /\ pc' = [pc EXCEPT ![t] = "read"]
    /\ UNCHANGED <<documents, version, created_at, clock, approved, known>>

\* ConflictError("DOCUMENT_VERSION_CONFLICT")
GiveUp(t) ==
    /\ pc[t] = "insert"
    /\ Taken(version[t])
    /\ IsLastAttempt(attempt[t])
    /\ pc' = [pc EXCEPT ![t] = "conflict"]
    /\ UNCHANGED <<documents, version, created_at, attempt, clock, approved, known>>

\* RATE_LIMITED, the server dies, or MongoDB answers with any other error.
Abort(t) ==
    /\ pc[t] \in {"check", "read", "insert"}
    /\ pc' = [pc EXCEPT ![t] = "aborted"]
    /\ UNCHANGED <<documents, version, created_at, attempt, clock, approved, known>>

\* review_cover_letter approves a document: the latest one when it looked.
Approve(t) ==
    /\ t \in InProgress
    /\ approved' = approved \cup {t}
    /\ UNCHANGED <<documents, version, created_at, pc, attempt, clock, known>>

Step(t) ==
    \/ Blocked(t) \/ Accepted(t)
    \/ ReadVersion(t) \/ Insert(t) \/ Retry(t) \/ GiveUp(t)

Next == \E t \in Threads : Step(t) \/ Abort(t) \/ Approve(t)

Spec == Init /\ [][Next]_vars

-----------------------------------------------------------------------------
Stages == {"check", "blocked", "read", "insert", "created", "conflict", "aborted"}

\* Types; attempt never leaves range(max_retries).
TypeOK ==
    /\ documents \subseteq Threads
    /\ version \in [Threads -> Nat]
    /\ created_at \in [Threads -> Nat]
    /\ pc \in [Threads -> Stages]
    /\ attempt \in [Threads -> 1..MaxRetries]
    /\ clock \in Nat
    /\ approved \subseteq documents
    /\ known \in [Threads -> SUBSET documents]

(***************************************************************************)
(* "Duplicate detection: block if a generation is already in-progress"     *)
(* (apply.py:219): two generations of an application are in progress at    *)
(* once only if their starts overlapped, the duplicate check of each       *)
(* having come before the other's document was stored.                     *)
(***************************************************************************)
DuplicatesOverlapped ==
    \A t, u \in documents \ approved : t # u => t \notin known[u]

(***************************************************************************)
(* The versions of an application's documents are 1, 2, ..., n with no gap *)
(* and no repetition, whatever starts race, fail or die: what a user who   *)
(* compares versions relies on.                                            *)
(***************************************************************************)
VersionsContiguous ==
    /\ Versions = 1..Cardinality(documents)
    /\ \A t, u \in documents : version[t] = version[u] => t = u

(***************************************************************************)
(* get_latest sorts by created_at and _get_next_version by version: the    *)
(* two orders agree, so the document that get_latest returns is the one    *)
(* with the highest version.                                               *)
(***************************************************************************)
LatestIsHighest ==
    \A t, u \in documents : version[t] < version[u] => created_at[t] < created_at[u]

(***************************************************************************)
(* Every failed attempt of a start is paid for by the success of another   *)
(* one: DOCUMENT_VERSION_CONFLICT needs at least MaxRetries documents of   *)
(* other starts, so MaxRetries starts that race for a new application all  *)
(* get their document.                                                     *)
(***************************************************************************)
ConflictNeedsContention ==
    \A t \in Threads :
      pc[t] = "conflict" => t \notin documents /\ Cardinality(documents) >= MaxRetries

DL == INSTANCE DocumentLedger
      WITH version <- [t \in Threads |-> IF t \in documents THEN version[t] ELSE 0]

(***************************************************************************)
(* Optimistic versioning looks, from outside, like numbering the documents *)
(* in one step: every insert takes the next number, nothing else shows.    *)
(***************************************************************************)
ImplementsLedger == DL!Spec
=============================================================================
