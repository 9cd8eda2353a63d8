------------------------------ MODULE JobSources ------------------------------
(***************************************************************************)
(* The job sources and what is made of them: the periodic task             *)
(* check_source_health asks every source of JOB_SOURCE_REGISTRY in turn    *)
(* and records the answer in its DataSourceHealth document, an             *)
(* administrator switches sources off, and generate_daily_shortlists makes *)
(* a user's JobShortlist of the day from the sources that are not down.    *)
(*                                                                         *)
(* Both tasks are modelled as written, although no worker has them         *)
(* registered.  Of the listings and their scores only the sources that     *)
(* they came from are kept, of the preferences only which edit they are.   *)
(***************************************************************************)
EXTENDS Integers, Sequences, FiniteSets

CONSTANTS
    Registry,       \* the sources, in the order of JOB_SOURCE_REGISTRY
    Checkers,       \* workers that check sources
    Makers,         \* workers that make shortlists
    LastDay,        \* bound: days
    MaxEdits,       \* bound: edits of the user's preferences
    MaxFailures     \* bound: failures in a row

VARIABLES
    today,
    health,         \* source -> its DataSourceHealth document
    preferences,    \* discovery_preferences of the user, 0 for none
    shortlists,     \* day -> the JobShortlist documents of the user
    check,          \* worker -> the check_source_health it runs
    making,         \* worker -> the generate_daily_shortlists it runs
    failed,         \* source -> failed checks recorded in a row (history)
    tangled,        \* sources recorded by checks that overlapped (history)
    overlapped      \* days that two workers made shortlists for (history)

vars == <<today, health, preferences, shortlists, check, making, failed, tangled, overlapped>>

Days == 1..LastDay
Sources == {Registry[i] : i \in DOMAIN Registry}

Health == [stored : BOOLEAN, status : {"healthy", "degraded", "down"},
           failures : 0..MaxFailures, disabled : BOOLEAN]

NoHealth == [stored |-> FALSE, status |-> "healthy", failures |-> 0, disabled |-> FALSE]

Shortlist == [preferences : 1..MaxEdits, sources : SUBSET Sources]

\* next: the place in the registry.  again: record_check is called a second
\* time, because the first call raised.
Check == [pc : {"idle", "read", "write"}, next : DOMAIN Registry, again : BOOLEAN,
          success : BOOLEAN, read : Health]

NoCheck == [pc |-> "idle", next |-> 1, again |-> FALSE, success |-> FALSE, read |-> NoHealth]

Making == [pc : {"idle", "exists", "query", "create"}, date : Days,
           preferences : 0..MaxEdits, sources : SUBSET Sources]

NoMaking == [pc |-> "idle", date |-> 1, preferences |-> 0, sources |-> {}]

Init ==
    /\ today = 1
    /\ health = [s \in Sources |-> NoHealth]
    /\ preferences = 0
    /\ shortlists = [d \in Days |-> <<>>]
    /\ check = [w \in Checkers |-> NoCheck]
    /\ making = [w \in Makers |-> NoMaking]
    /\ failed = [s \in Sources |-> 0]
    /\ tangled = {}
    /\ overlapped = {}

-----------------------------------------------------------------------------
\* check_source_health

OnlyCheck == UNCHANGED <<today, preferences, shortlists, making, overlapped>>

Source(w) == Registry[check[w].next]

BeginCheck(w) ==
    /\ check[w].pc = "idle"
    /\ check' = [check EXCEPT ![w] = [NoCheck EXCEPT !.pc = "read"]]
    /\ OnlyCheck
    /\ UNCHANGED <<health, failed, tangled>>

\* health_check, then the find_one of record_check.
Read(w, success) ==
    /\ check[w].pc = "read"
    /\ check[w].again => ~success
    /\ check' = [check EXCEPT ![w].pc = "write", ![w].success = success,
                              ![w].read = health[Source(w)]]
    /\ OnlyCheck
    /\ UNCHANGED <<health, failed, tangled>>

\* A mutant: a success leaves the status to the next check.
RecordedSuccessOnly(now, read, success) ==
    IF success
    THEN [now EXCEPT !.stored = TRUE, !.failures = 0]
    ELSE [now EXCEPT !.stored = TRUE, !.failures = read.failures + 1,
                     !.status = IF read.failures + 1 >= 3 THEN "down" ELSE "degraded"]

\* The document after an update that sets what record_check computes from what
\* it read; a success sets the status only if it was not healthy.
Recorded(now, read, success) ==
    IF success
    THEN [now EXCEPT !.stored = TRUE, !.failures = 0,
                     !.status = IF read.status # "healthy" THEN "healthy" ELSE @]
    ELSE [now EXCEPT !.stored = TRUE, !.failures = read.failures + 1,
                     !.status = IF read.failures + 1 >= 3 THEN "down" ELSE "degraded"]

\* The next source, or the end.
Advanced(c) ==
    IF c.next = Len(Registry) THEN NoCheck ELSE [NoCheck EXCEPT !.pc = "read", !.next = c.next + 1]

\* The unique index refuses a second document of a source.
Write(w) ==
    LET c == check[w]
        s == Source(w)
        now == health[s]
        current == [now EXCEPT !.disabled = FALSE] = [c.read EXCEPT !.disabled = FALSE]
    IN  /\ c.pc = "write"
        /\ c.read.stored \/ ~now.stored
        /\ ~c.success => c.read.failures < MaxFailures
        /\ health' = [health EXCEPT ![s] = Recorded(now, c.read, c.success)]
        /\ failed' = [failed EXCEPT ![s] = IF c.success THEN 0 ELSE @ + 1]
        /\ tangled' = IF ~current THEN tangled \cup {s}
                      ELSE IF c.success THEN tangled \ {s} ELSE tangled
        /\ check' = [check EXCEPT ![w] = Advanced(c)]
        /\ OnlyCheck

\* record_check raises: by the index, or because the database cannot be
\* reached.  The first time this is taken for a failure of the source and
\* recorded as one; the second time the task fails.
RecordRaises(w) ==
    /\ check[w].pc # "idle"
    /\ check' = [check EXCEPT ![w] =
         IF check[w].again THEN NoCheck
         ELSE [NoCheck EXCEPT !.pc = "read", !.next = check[w].next, !.again = TRUE]]
    /\ OnlyCheck
    /\ UNCHANGED <<health, failed, tangled>>

\* toggle_source
Toggle(s, disabled) ==
    /\ health[s].stored
    /\ health' = [health EXCEPT ![s].disabled = disabled]
    /\ UNCHANGED <<today, preferences, shortlists, check, making, failed, tangled, overlapped>>

-----------------------------------------------------------------------------
\* update_preferences and generate_daily_shortlists

OnlyMaking == UNCHANGED <<today, health, preferences, check, failed, tangled>>

UpdatePreferences ==
    /\ preferences < MaxEdits
    /\ preferences' = preferences + 1
    /\ UNCHANGED <<today, health, shortlists, check, making, failed, tangled, overlapped>>

Usable == {s \in Sources : health[s].stored /\ health[s].status # "down" /\ ~health[s].disabled}

\* The sources, the profiles and the date are read once, for all users.
BeginMaking(w) ==
    /\ making[w].pc = "idle"
    /\ preferences # 0
    /\ making' = [making EXCEPT ![w] = [pc |-> "exists", date |-> today,
                                        preferences |-> preferences, sources |-> Usable]]
    /\ overlapped' = IF \E v \in Makers : making[v].pc # "idle" /\ making[v].date = today
                     THEN overlapped \cup {today} ELSE overlapped
    /\ OnlyMaking
    /\ UNCHANGED shortlists

\* A mutant: whether there is one today, not on the date of the task.
ExistsToday(w) ==
    /\ making[w].pc = "exists"
    /\ making' = [making EXCEPT ![w] = IF shortlists[today] # <<>> THEN NoMaking
                                       ELSE [@ EXCEPT !.pc = "query"]]
    /\ OnlyMaking
    /\ UNCHANGED <<shortlists, overlapped>>

Exists(w) ==
    /\ making[w].pc = "exists"
    /\ making' = [making EXCEPT ![w] = IF shortlists[making[w].date] # <<>> THEN NoMaking
                                       ELSE [@ EXCEPT !.pc = "query"]]
    /\ OnlyMaking
    /\ UNCHANGED <<shortlists, overlapped>>

\* Sources that fail are passed over; if all do, the shortlist is empty.
Query(w, answering) ==
    /\ making[w].pc = "query"
    /\ answering \subseteq making[w].sources
    /\ making' = [making EXCEPT ![w].pc = "create", ![w].sources = answering]
    /\ OnlyMaking
    /\ UNCHANGED <<shortlists, overlapped>>

Create(w) ==
    /\ making[w].pc = "create"
    /\ shortlists' = [shortlists EXCEPT ![making[w].date] =
         Append(@, [preferences |-> making[w].preferences, sources |-> making[w].sources])]
    /\ making' = [making EXCEPT ![w] = NoMaking]
    /\ OnlyMaking
    /\ UNCHANGED overlapped

\* The database cannot be reached, or the worker is lost.
MakingFails(w) ==
    /\ making[w].pc # "idle"
    /\ making' = [making EXCEPT ![w] = NoMaking]
    /\ OnlyMaking
    /\ UNCHANGED <<shortlists, overlapped>>

NextDay ==
    /\ today < LastDay
    /\ today' = today + 1
    /\ UNCHANGED <<health, preferences, shortlists, check, making, failed, tangled, overlapped>>

Next ==
    \/ \E w \in Checkers :
         \/ BeginCheck(w) \/ Write(w) \/ RecordRaises(w)
         \/ \E success \in BOOLEAN : Read(w, success)
    \/ \E s \in Sources, disabled \in BOOLEAN : Toggle(s, disabled)
    \/ UpdatePreferences
    \/ \E w \in Makers :
         \/ BeginMaking(w) \/ Exists(w) \/ Create(w) \/ MakingFails(w)
         \/ \E answering \in SUBSET Sources : Query(w, answering)
    \/ NextDay

Spec == Init /\ [][Next]_vars

-----------------------------------------------------------------------------
\* The documents and tasks have their types.
TypeOK ==
    /\ today \in Days
    /\ health \in [Sources -> Health]
    /\ preferences \in 0..MaxEdits
    /\ shortlists \in [Days -> Seq(Shortlist)]
    /\ check \in [Checkers -> Check]
    /\ making \in [Makers -> Making]
    /\ tangled \subseteq Sources
    /\ overlapped \subseteq Days

\* A source counts the checks it failed since it last passed one, and its status
\* is "down" from the third of them on, neither earlier nor longer.  That a source
\* was never checked or is switched off keeps it out of shortlists as well, which
\* the status does not tell.  Excepted is a source that checks recorded while
\* they overlapped, until it passes a check that none overlaps (record_check).
StatusTellsChecks ==
    \A s \in Sources \ tangled :
      LET h == health[s]
      IN  /\ h.failures = failed[s]
          /\ h.status = CASE h.failures = 0 -> "healthy"
                          [] h.failures \in 1..2 -> "degraded"
                          [] h.failures > 2 -> "down"

\* However often the task runs, is repeated or fails, a user has one shortlist
\* for a day, and never more than there were workers making it at a time
\* (_generate_all_shortlists).
OneShortlistADay ==
    \A d \in Days : Len(shortlists[d]) <= IF d \in overlapped THEN Cardinality(Makers) ELSE 1

\* A shortlist holds jobs (job_shortlist.py:4 "3-5 matched jobs").  A task that
\* reaches no source stores an empty one, after which there is no other that
\* day.
ShortlistHasJobs ==
    \A d \in Days : \A i \in DOMAIN shortlists[d] : shortlists[d][i].sources # {}
=============================================================================
