-------------------------- MODULE DescriptionCache --------------------------
(***************************************************************************)
(* JDCacheService: the analysis of a job description is looked up in       *)
(* Redis, then in MongoDB, then made by a model and written to both.  One  *)
(* description, several requests at once, every await a step; Redis,       *)
(* MongoDB and the model may fail.  An analysis is told by the day it was  *)
(* made.                                                                   *)
(***************************************************************************)
EXTENDS Naturals

CONSTANTS
    Requests,   \* requests under way at once
    LastDay,    \* bound of the clock
    RedisDays,  \* days an entry lives in Redis (1)
    MongoDays,  \* days an entry lives in MongoDB (30)
    NoEntry     \* no analysis, no entry

VARIABLES
    day,        \* the clock
    redis,      \* the entry in Redis: when its analysis was made, when it ends
    mongo,      \* the entry in MongoDB, likewise; its fingerprint is unique
    lookup,     \* request -> the handler of it
    served      \* request -> the analysis it was answered with last (history)

vars == <<day, redis, mongo, lookup, served>>

Days == 0..(LastDay + MongoDays + RedisDays)
Entry == [made : Days, until : Days]

Lookup == [pc : {"idle", "redis", "mongo", "copy", "analyze", "check", "create", "store"},
           made : Days \cup {NoEntry}]

NoLookup == [pc |-> "idle", made |-> NoEntry]

Init ==
    /\ day = 0
    /\ redis = NoEntry
    /\ mongo = NoEntry
    /\ lookup = [r \in Requests |-> NoLookup]
    /\ served = [r \in Requests |-> NoEntry]

At(r, pc) == lookup[r].pc = pc
Go(r, pc) == lookup' = [lookup EXCEPT ![r].pc = pc]
Holding(r, pc, made) == lookup' = [lookup EXCEPT ![r] = [pc |-> pc, made |-> made]]

Answer(r, made) ==
    /\ served' = [served EXCEPT ![r] = made]
    /\ lookup' = [lookup EXCEPT ![r] = NoLookup]

\* Redis drops an entry to the second.
InRedis == redis # NoEntry /\ day < redis.until

-----------------------------------------------------------------------------
\* get_or_analyze

Ask(r) ==
    /\ At(r, "idle")
    /\ Go(r, "redis")
    /\ served' = [served EXCEPT ![r] = NoEntry]
    /\ UNCHANGED <<day, redis, mongo>>

\* A mutant: a hit starts the day in Redis anew.
ReadRedisRenewed(r) ==
    /\ At(r, "redis")
    /\ \/ /\ InRedis
          /\ Answer(r, redis.made)
          /\ redis' = [redis EXCEPT !.until = day + RedisDays]
       \/ Go(r, "mongo") /\ UNCHANGED <<served, redis>>
    /\ UNCHANGED <<day, mongo>>

\* A hit is answered after its count in MongoDB was raised, or was not; a
\* Redis that fails counts as a miss.
ReadRedis(r) ==
    /\ At(r, "redis")
    /\ \/ InRedis /\ Answer(r, redis.made)
       \/ Go(r, "mongo") /\ UNCHANGED served
    /\ UNCHANGED <<day, redis, mongo>>

\* An entry past its end is still found until the monitor has removed it.
ReadMongo(r) ==
    /\ At(r, "mongo")
    /\ IF mongo # NoEntry THEN Holding(r, "copy", mongo.made) ELSE Go(r, "analyze")
    /\ UNCHANGED <<day, redis, mongo, served>>

\* A mutant: an entry lives a thousand times longer (ex given in ms).
SetRedisMilliseconds(r) ==
    \/ redis' = [made |-> lookup[r].made, until |-> day + 1000 * RedisDays]
    \/ UNCHANGED redis

\* _set_in_redis with a whole day, whatever is left of the entry in MongoDB;
\* a failure is only logged.
SetRedis(r) ==
    \/ redis' = [made |-> lookup[r].made, until |-> day + RedisDays]
    \/ UNCHANGED redis

Copy(r) ==
    /\ At(r, "copy")
    /\ SetRedis(r)
    /\ Answer(r, lookup[r].made)
    /\ UNCHANGED <<day, mongo>>

Analyze(r) ==
    /\ At(r, "analyze")
    /\ Holding(r, "check", day)
    /\ UNCHANGED <<day, redis, mongo, served>>

\* Is there an entry meanwhile?  If that cannot be read, nothing is created.
Check(r) ==
    /\ At(r, "check")
    /\ IF mongo = NoEntry THEN Go(r, "create") \/ Go(r, "store") ELSE Go(r, "store")
    /\ UNCHANGED <<day, redis, mongo, served>>

\* The unique index refuses a second entry; that error, like any, is logged.
Create(r) ==
    /\ At(r, "create")
    /\ \/ /\ mongo = NoEntry
          /\ mongo' = [made |-> lookup[r].made, until |-> day + MongoDays]
       \/ UNCHANGED mongo
    /\ Go(r, "store")
    /\ UNCHANGED <<day, redis, served>>

Store(r) ==
    /\ At(r, "store")
    /\ SetRedis(r)
    /\ Answer(r, lookup[r].made)
    /\ UNCHANGED <<day, mongo>>

\* External: MongoDB or the model raises where nothing catches it.
Raises(r) ==
    /\ lookup[r].pc \in {"mongo", "analyze"}
    /\ lookup' = [lookup EXCEPT ![r] = NoLookup]
    /\ UNCHANGED <<day, redis, mongo, served>>

-----------------------------------------------------------------------------
\* External: the TTL monitor of MongoDB, which runs once a minute.
Expire ==
    /\ mongo # NoEntry
    /\ mongo.until <= day
    /\ mongo' = NoEntry
    /\ UNCHANGED <<day, redis, lookup, served>>

\* A day passes.  No request takes that long, and no entry stays behind its
\* end for that long.
NextDay ==
    /\ day < LastDay
    /\ \A r \in Requests : At(r, "idle")
    /\ mongo # NoEntry => day < mongo.until
    /\ day' = day + 1
    /\ served' = [r \in Requests |-> NoEntry]
    /\ UNCHANGED <<redis, mongo, lookup>>

Next ==
    \/ \E r \in Requests :
         \/ Ask(r) \/ ReadRedis(r) \/ ReadMongo(r) \/ Copy(r) \/ Analyze(r)
         \/ Check(r) \/ Create(r) \/ Store(r) \/ Raises(r)
    \/ Expire
    \/ NextDay

Spec == Init /\ [][Next]_vars

-----------------------------------------------------------------------------
\* The clock, the entries of both stores and the requests have their types.
TypeOK ==
    /\ day \in 0..LastDay
    /\ redis \in Entry \cup {NoEntry}
    /\ mongo \in Entry \cup {NoEntry}
    /\ lookup \in [Requests -> Lookup]
    /\ served \in [Requests -> Days \cup {NoEntry}]

\* No request is answered with an analysis older than the two lifetimes
\* together, whichever stores fail and however requests overlap: an entry is
\* copied into Redis up to its end and lives there for one lifetime more, but
\* an analysis is never copied from Redis (get_or_analyze).
ServedIsFresh ==
    \A r \in Requests : served[r] # NoEntry => day < served[r] + MongoDays + RedisDays

\* The cache forgets an analysis after 30 days (the docstring of
\* JDAnalysisCache): the copy in Redis outlives it, so the code does not keep
\* this and no run checks it.
ServedWithinTerm ==
    \A r \in Requests : served[r] # NoEntry => day <= served[r] + MongoDays
=============================================================================
