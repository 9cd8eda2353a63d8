---------------------- MODULE DocumentVersions_proofs -----------------------
(***************************************************************************)
(* Proofs about DocumentVersions, for any set of racing starts and any     *)
(* retry budget.                                                           *)
(***************************************************************************)
EXTENDS DocumentVersions, FiniteSetTheorems, TLAPS

\* Where a start is tells what the collection already holds: a version that
\* was read is at most one above the highest, a stamp that was taken is above
\* the stamps of every document with a lower version, and n attempts have
\* seen n - 1 documents of others.  Every document that a start knew of at its
\* check was approved by then.
StartOK(t) ==
    /\ pc[t] = "check" => attempt[t] = 1
    /\ known[t] \subseteq approved
    /\ created_at[t] <= clock
    /\ t \in documents <=> pc[t] = "created"
    /\ pc[t] = "read" => attempt[t] <= Cardinality(documents) + 1
    /\ pc[t] = "insert" =>
         /\ attempt[t] <= version[t]
         /\ version[t] <= Cardinality(documents) + 1
         /\ \A u \in documents : version[u] < version[t] => created_at[u] < created_at[t]
    /\ pc[t] = "conflict" => Cardinality(documents) >= MaxRetries

IInv ==
    /\ TypeOK
    /\ IsFiniteSet(documents)
    /\ VersionsContiguous
    /\ LatestIsHighest
    /\ \A t \in Threads : StartOK(t)

\* _get_next_version returns the number of documents plus one.
LEMMA NextVersionCounts ==
    ASSUME IInv
    PROVE  /\ Cardinality(documents) \in Nat
           /\ NextVersion = Cardinality(documents) + 1
<1> DEFINE n == Cardinality(documents)
<1>1. n \in Nat
  BY FS_CardinalityType DEF IInv
<1>2. CASE documents = {}
  BY <1>2, FS_EmptySet DEF NextVersion
<1>3. CASE documents # {}
  <2>1. n # 0
    BY <1>3, FS_EmptySet DEF IInv
  <2>2. Versions = 1..n
    BY DEF IInv, VersionsContiguous
  <2>3. /\ n \in Versions
        /\ \A y \in Versions : n >= y
    BY <1>1, <2>1, <2>2
  <2>4. Max(Versions) = n
    <3>1. PICK m : m = Max(Versions)
      OBVIOUS
    <3>2. m \in Versions /\ \A y \in Versions : m >= y
      BY <2>3, <3>1 DEF Max
    <3>3. QED
      BY <1>1, <2>2, <2>3, <3>1, <3>2
  <2>5. QED
    BY <1>1, <1>3, <2>4 DEF NextVersion
<1>4. QED
  BY <1>1, <1>2, <1>3

\* No document, no attempt made.
LEMMA InitEstablishes == Init => IInv
<1> SUFFICES ASSUME Init PROVE IInv
  OBVIOUS
<1>1. Cardinality(documents) = 0 /\ IsFiniteSet(documents)
  BY FS_EmptySet DEF Init
<1>2. TypeOK
  BY MaxRetriesAssumption DEF Init, TypeOK, Stages
<1>3. VersionsContiguous /\ LatestIsHighest
  BY <1>1 DEF Init, VersionsContiguous, LatestIsHighest, Versions
<1>4. ASSUME NEW t \in Threads PROVE StartOK(t)
  BY <1>1, MaxRetriesAssumption DEF Init, StartOK
<1>5. QED
  BY <1>1, <1>2, <1>3, <1>4 DEF IInv

\* Reading the version: the start now holds the next version and the newest
\* stamp; nothing is said of any other start.
LEMMA ReadVersionPreserves ==
    ASSUME IInv, NEW t \in Threads, ReadVersion(t)
    PROVE  IInv'
<1> DEFINE n == Cardinality(documents)
<1>1. n \in Nat /\ NextVersion = n + 1
  BY NextVersionCounts
<1>2. /\ documents' = documents /\ attempt' = attempt
      /\ approved' = approved /\ known' = known
      /\ version' = [version EXCEPT ![t] = n + 1]
      /\ created_at' = [created_at EXCEPT ![t] = clock + 1]
      /\ clock' = clock + 1
      /\ pc' = [pc EXCEPT ![t] = "insert"]
      /\ t \notin documents
      /\ attempt[t] <= n + 1
  BY <1>1 DEF ReadVersion, Stamp, IInv, StartOK
<1>3. TypeOK'
  BY <1>1, <1>2 DEF IInv, TypeOK, Stages
<1>4. \A u \in documents : version'[u] = version[u] /\ created_at'[u] = created_at[u]
  BY <1>2 DEF IInv, TypeOK
<1>5. VersionsContiguous' /\ LatestIsHighest'
  BY <1>2, <1>4 DEF IInv, VersionsContiguous, LatestIsHighest, Versions
<1>6. ASSUME NEW u \in Threads PROVE StartOK(u)'
  <2>1. StartOK(u) /\ \A d \in documents : created_at[d] <= clock
    BY DEF IInv, TypeOK, StartOK
  <2>2. CASE u = t
    BY <1>1, <1>2, <1>4, <2>1, <2>2 DEF IInv, TypeOK, StartOK
  <2>3. CASE u # t
    <3>1. /\ version'[u] = version[u] /\ created_at'[u] = created_at[u]
          /\ pc'[u] = pc[u] /\ attempt'[u] = attempt[u]
      BY <1>2, <2>3 DEF IInv, TypeOK
    <3>2. created_at[u] <= clock + 1
      BY <2>1 DEF IInv, TypeOK, StartOK
    <3>3. QED
      BY <1>2, <1>4, <2>1, <3>1, <3>2 DEF StartOK
  <2>4. QED
    BY <2>2, <2>3
<1>7. QED
  BY <1>2, <1>3, <1>5, <1>6 DEF IInv

\* Inserting: the version was not taken, so it is the one after the highest.
LEMMA InsertPreserves ==
    ASSUME IInv, NEW t \in Threads, Insert(t)
    PROVE  IInv' /\ version[t] = Cardinality(documents) + 1 /\ t \notin documents
<1> DEFINE n == Cardinality(documents)
<1>1. n \in Nat
  BY NextVersionCounts
<1>2. /\ t \notin documents
      /\ version[t] \in Nat /\ version[t] >= 1 /\ version[t] <= n + 1
      /\ version[t] \notin 1..n
      /\ \A u \in documents : version[u] < version[t] => created_at[u] < created_at[t]
  <2>1. attempt[t] >= 1
    BY DEF IInv, TypeOK
  <2>2. QED
    BY <1>1, <2>1 DEF Insert, Taken, IInv, TypeOK, VersionsContiguous, StartOK
<1>3. version[t] = n + 1
  BY <1>1, <1>2
<1>4. /\ documents' = documents \cup {t}
      /\ version' = version /\ created_at' = created_at
      /\ attempt' = attempt /\ clock' = clock
      /\ approved' = approved /\ known' = known
      /\ pc' = [pc EXCEPT ![t] = "created"]
  BY DEF Insert
<1>5. IsFiniteSet(documents)' /\ Cardinality(documents') = n + 1
  BY <1>2, <1>4, FS_AddElement DEF IInv
<1>6. \A u \in documents : version[u] \in 1..n
  BY DEF IInv, VersionsContiguous, Versions
<1>7. VersionsContiguous'
  <2>1. Versions' = Versions \cup {n + 1}
    BY <1>3, <1>4 DEF Versions
  <2>2. Versions' = 1..(n + 1)
    BY <1>1, <2>1 DEF IInv, VersionsContiguous
  <2>3. \A u, v \in documents' : version[u] = version[v] => u = v
    BY <1>1, <1>3, <1>4, <1>6 DEF IInv, VersionsContiguous
  <2>4. QED
    BY <1>4, <1>5, <2>2, <2>3 DEF VersionsContiguous
<1>8. LatestIsHighest'
  BY <1>1, <1>2, <1>3, <1>4, <1>6 DEF IInv, LatestIsHighest
<1>9. TypeOK'
  BY <1>4 DEF IInv, TypeOK, Stages
<1>10. ASSUME NEW u \in Threads PROVE StartOK(u)'
  <2>1. StartOK(u)
    BY DEF IInv
  <2>2. CASE u = t
    BY <1>4, <2>1, <2>2 DEF IInv, TypeOK, StartOK
  <2>3. CASE u # t
    <3>1. pc'[u] = pc[u] /\ (u \in documents' <=> u \in documents)
      BY <1>4, <2>3 DEF IInv, TypeOK
    <3>2. /\ attempt[u] \in Nat /\ version[u] \in Nat /\ MaxRetries \in Nat
      BY MaxRetriesAssumption DEF IInv, TypeOK
    <3>3. pc[u] = "insert" => ~(version[t] < version[u])
      BY <1>1, <1>3, <2>1, <3>2 DEF StartOK
    <3>4. pc[u] = "insert" =>
            /\ version[u] <= (n + 1) + 1
            /\ \A d \in documents' : version[d] < version[u] => created_at[d] < created_at[u]
      BY <1>1, <1>4, <2>1, <3>2, <3>3 DEF StartOK
    <3>5. QED
      BY <1>1, <1>4, <1>5, <2>1, <3>1, <3>2, <3>4 DEF StartOK
  <2>4. QED
    BY <2>2, <2>3
<1>11. QED
  BY <1>2, <1>3, <1>5, <1>7, <1>8, <1>9, <1>10 DEF IInv

\* A rejected insert: the version it lost to is among n documents, so the
\* start has seen at least as many of them as it has made attempts.
LEMMA RejectedPreserves ==
    ASSUME IInv, NEW t \in Threads, Retry(t) \/ GiveUp(t) \/ Abort(t)
    PROVE  IInv'
<1> DEFINE n == Cardinality(documents)
<1>1. n \in Nat /\ MaxRetries \in Nat
  BY NextVersionCounts, MaxRetriesAssumption
<1>2. /\ documents' = documents /\ version' = version
      /\ created_at' = created_at /\ clock' = clock
      /\ approved' = approved /\ known' = known
  BY DEF Retry, GiveUp, Abort
<1>3. VersionsContiguous' /\ LatestIsHighest' /\ IsFiniteSet(documents)'
  BY <1>2 DEF IInv, VersionsContiguous, LatestIsHighest, Versions
<1>4. pc[t] = "insert" /\ Taken(version[t]) => attempt[t] <= n
  BY <1>1 DEF IInv, TypeOK, StartOK, VersionsContiguous, Taken
<1>5. TypeOK'
  BY <1>1, <1>2 DEF IInv, TypeOK, Stages, Retry, GiveUp, Abort, IsLastAttempt
<1>6. ASSUME NEW u \in Threads PROVE StartOK(u)'
  <2>1. StartOK(u) /\ attempt[u] \in Nat
    BY DEF IInv, TypeOK
  <2>2. CASE u # t
    BY <1>2, <2>1, <2>2 DEF IInv, TypeOK, StartOK, Retry, GiveUp, Abort
  <2>3. CASE u = t
    BY <1>1, <1>2, <1>4, <2>1, <2>3
    DEF IInv, TypeOK, StartOK, Retry, GiveUp, Abort, IsLastAttempt
  <2>4. QED
    BY <2>2, <2>3
<1>7. QED
  BY <1>3, <1>5, <1>6 DEF IInv

\* The check admits a start only when every document is approved, and an
\* approval is never taken back.
LEMMA CheckPreserves ==
    ASSUME IInv, NEW t \in Threads, Blocked(t) \/ Accepted(t) \/ Approve(t)
    PROVE  IInv'
<1> DEFINE n == Cardinality(documents)
<1>1. n \in Nat
  BY NextVersionCounts
<1>2. /\ documents' = documents /\ version' = version /\ created_at' = created_at
      /\ attempt' = attempt /\ clock' = clock
      /\ approved \subseteq approved' /\ approved' \subseteq documents
  BY DEF Blocked, Accepted, Approve, InProgress, IInv, TypeOK
<1>3. VersionsContiguous' /\ LatestIsHighest' /\ IsFiniteSet(documents)'
  BY <1>2 DEF IInv, VersionsContiguous, LatestIsHighest, Versions
<1>4. \A u \in Threads : known'[u] = known[u] \/ (known'[u] = documents /\ documents \subseteq approved)
  BY DEF Blocked, Accepted, Approve, InProgress, IInv, TypeOK
<1>5. \A u \in Threads :
        \/ pc'[u] = pc[u]
        \/ pc[u] = "check" /\ pc'[u] \in {"blocked", "read"}
  BY DEF Blocked, Accepted, Approve, IInv, TypeOK
<1>6. TypeOK'
  <2>1. pc' \in [Threads -> Stages] /\ known' \in [Threads -> SUBSET documents]
    BY DEF Blocked, Accepted, Approve, IInv, TypeOK, Stages
  <2>2. QED
    BY <1>2, <2>1 DEF IInv, TypeOK
<1>7. ASSUME NEW u \in Threads PROVE StartOK(u)'
  <2>1. StartOK(u) /\ attempt[u] \in Nat
    BY DEF IInv, TypeOK
  <2>2. known'[u] \subseteq approved'
    BY <1>2, <1>4, <2>1 DEF StartOK
  <2>3. QED
    BY <1>1, <1>2, <1>5, <2>1, <2>2 DEF StartOK
<1>8. QED
  BY <1>3, <1>6, <1>7 DEF IInv

\* Every step keeps the invariant.
LEMMA NextPreserves == IInv /\ [Next]_vars => IInv'
<1> SUFFICES ASSUME IInv, [Next]_vars PROVE IInv'
  OBVIOUS
<1>1. CASE \E t \in Threads : ReadVersion(t)
  BY <1>1, ReadVersionPreserves
<1>2. CASE \E t \in Threads : Insert(t)
  BY <1>2, InsertPreserves
<1>3. CASE \E t \in Threads : Retry(t) \/ GiveUp(t) \/ Abort(t)
  BY <1>3, RejectedPreserves
<1>4. CASE \E t \in Threads : Blocked(t) \/ Accepted(t) \/ Approve(t)
  BY <1>4, CheckPreserves
<1>5. CASE UNCHANGED vars
  BY <1>5 DEF vars, IInv, TypeOK, VersionsContiguous, LatestIsHighest, StartOK, Versions
<1>6. QED
  BY <1>1, <1>2, <1>3, <1>4, <1>5 DEF Next, Step

\* Every reachable state satisfies the invariant.
LEMMA InvariantHolds == Spec => []IInv
BY InitEstablishes, NextPreserves, PTL DEF Spec

\* Types, for any set of starts; in particular no start makes more than
\* MaxRetries attempts.
THEOREM TypeCorrect == Spec => []TypeOK
<1>1. IInv => TypeOK
  BY DEF IInv
<1>2. QED
  BY <1>1, InvariantHolds, PTL

\* The versions of an application are always 1..n, each used once.
THEOREM ContiguousVersions == Spec => []VersionsContiguous
<1>1. IInv => VersionsContiguous
  BY DEF IInv
<1>2. QED
  BY <1>1, InvariantHolds, PTL

\* get_latest (by created_at) returns the document with the highest version.
THEOREM LatestHasHighestVersion == Spec => []LatestIsHighest
<1>1. IInv => LatestIsHighest
  BY DEF IInv
<1>2. QED
  BY <1>1, InvariantHolds, PTL

\* MaxRetries racing starts never conflict.
THEOREM ConflictsAreContention == Spec => []ConflictNeedsContention
<1>1. IInv => ConflictNeedsContention
  BY DEF IInv, StartOK, ConflictNeedsContention
<1>2. QED
  BY <1>1, InvariantHolds, PTL

\* However many starts race, two generations are in progress at once only if
\* their starts overlapped.
THEOREM DuplicatesOverlap == Spec => []DuplicatesOverlapped
<1>1. IInv => DuplicatesOverlapped
  BY DEF IInv, TypeOK, StartOK, DuplicatesOverlapped
<1>2. QED
  BY <1>1, InvariantHolds, PTL

\* The version of each document, as DocumentLedger sees it.
Numbered == [t \in Threads |-> IF t \in documents THEN version[t] ELSE 0]

\* create_versioned implements the one-step creation of DocumentLedger.
THEOREM LedgerRefinement == Spec => ImplementsLedger
<1>1. Init => DL!Init
  BY DEF Init, DL!Init
<1>2. IInv => DL!Documents = documents
  <2> SUFFICES ASSUME IInv PROVE DL!Documents = documents
    OBVIOUS
  <2>1. \A t \in documents : t \in Threads /\ version[t] # 0
    BY NextVersionCounts DEF IInv, TypeOK, VersionsContiguous, Versions
  <2>2. QED
    BY <2>1 DEF DL!Documents, IInv, TypeOK
<1>3. IInv /\ [Next]_vars => [DL!Next]_Numbered
  <2> SUFFICES ASSUME IInv, [Next]_vars PROVE [DL!Next]_Numbered
    OBVIOUS
  <2>1. ASSUME NEW t \in Threads, Insert(t) PROVE DL!Create(t)
    <3>1. version[t] = Cardinality(documents) + 1 /\ t \notin documents
      BY <2>1, InsertPreserves
    <3>2. documents' = documents \cup {t} /\ version' = version
      BY <2>1 DEF Insert
    <3>3. Numbered' = [Numbered EXCEPT ![t] = Cardinality(documents) + 1]
      BY <3>1, <3>2 DEF Numbered
    <3>4. Numbered[t] = 0
      BY <3>1 DEF Numbered
    <3>5. DL!Cardinality(DL!Documents) = Cardinality(documents)
      BY <1>2 DEF DL!Cardinality, Cardinality
    <3>6. QED
      BY <3>3, <3>4, <3>5 DEF DL!Create, Numbered
  <2>2. ASSUME NEW t \in Threads, ReadVersion(t) PROVE Numbered' = Numbered
    <3>1. t \notin documents /\ documents' = documents
      BY <2>2 DEF ReadVersion, IInv, StartOK
    <3>2. \A u \in documents : version'[u] = version[u]
      BY <2>2, <3>1 DEF ReadVersion, IInv, TypeOK
    <3>3. QED
      BY <3>1, <3>2 DEF Numbered
  <2>3. ASSUME NEW t \in Threads, Retry(t) \/ GiveUp(t) \/ Abort(t)
        PROVE  Numbered' = Numbered
    BY <2>3 DEF Retry, GiveUp, Abort, Numbered
  <2>4. ASSUME NEW t \in Threads, Blocked(t) \/ Accepted(t) \/ Approve(t)
        PROVE  Numbered' = Numbered
    BY <2>4 DEF Blocked, Accepted, Approve, Numbered
  <2>5. CASE UNCHANGED vars
    BY <2>5 DEF vars, Numbered
  <2>6. QED
    BY <2>1, <2>2, <2>3, <2>4, <2>5 DEF Next, Step, DL!Next
<1>4. QED
  BY <1>1, <1>3, InvariantHolds, PTL DEF Spec, ImplementsLedger, DL!Spec, Numbered
=============================================================================
