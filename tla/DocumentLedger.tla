--------------------------- MODULE DocumentLedger ---------------------------
(***************************************************************************)
(* What DocumentRepository promises of the documents of one application    *)
(* and type (repositories/document_repository.py): the n-th document is    *)
(* created in one step, with version n, and get_latest returns the last.   *)
(***************************************************************************)
EXTENDS Naturals, FiniteSets

CONSTANT Threads    \* uuid4 thread ids: one per document

VARIABLE version    \* thread -> version of its document, 0 if it has none

Documents == {t \in Threads : version[t] # 0}

\* DocumentRepository.get_latest
IsLatest(t) == /\ t \in Documents
               /\ \A u \in Documents : version[u] <= version[t]

Init == version = [t \in Threads |-> 0]

\* create_versioned returns.
Create(t) ==
    /\ version[t] = 0
    /\ version' = [version EXCEPT ![t] = Cardinality(Documents) + 1]

Next == \E t \in Threads : Create(t)

Spec == Init /\ [][Next]_version
=============================================================================
