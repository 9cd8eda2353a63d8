---------------------------- MODULE UserActivity ----------------------------
(***************************************************************************)
(* Daily activity of one user: POST /activity/track of                     *)
(* api/routes/activity.py with StreakService and UserActivityRepository.   *)
(* There is one document a day.  A request first brings the streak up to   *)
(* date (check_and_update_streak), then adds its entry (record_action);    *)
(* each of the two reads the document of the day, whichever day it then    *)
(* is, and later saves the whole of it.                                    *)
(*                                                                         *)
(* Of a document these are kept: how many entries it has, the streak, the  *)
(* freezes, and how often a milestone's bonus is in its points.  The       *)
(* points of an entry are a constant of its type, and the league is a      *)
(* function of the points: both are left out.                              *)
(***************************************************************************)
EXTENDS Naturals, FiniteSets

CONSTANTS
    Clients,                \* browser tabs
    FirstDay,               \* bound: the first day with requests that overlap
    MaxDay,                 \* bound: the last day
    MaxActions,             \* bound: a day with so many recorded entries gets no more
    MaxBonuses,             \* bound: a day with so many bonuses gets no more
    FreezeEarnInterval,     \* FREEZE_EARN_INTERVAL: 7
    MaxBankedFreezes,       \* MAX_BANKED_FREEZES: 3
    StreakMilestones        \* STREAK_MILESTONES: 7, 14, 30, 60, 90

VARIABLES
    today,          \* the date
    activity,       \* day -> UserActivity document
    handler,        \* client -> the handler of its request
    recorded,       \* day -> requests that were answered with their entry (history)
    overwritten,    \* days whose document was saved over entries not read (history)
    checked,        \* days whose streak was brought up to date (history)
    rechecked,      \* days checked again before they had an entry (history)
    crossed         \* was a request under way at midnight? (history)

vars == <<today, activity, handler, recorded, overwritten, checked, rechecked, crossed>>

Days == 1..MaxDay

Activity == [stored : BOOLEAN, actions : Nat, streak : Nat, freezes : Nat, bonuses : Nat]

NoActivity == [stored |-> FALSE, actions |-> 0, streak |-> 0, freezes |-> 0, bonuses |-> 0]

\* mine: the copy of the document of "day" that the handler works on.
Handler == [pc   : {"idle", "insert", "check", "save", "record", "append"},
            phase : {"check", "record"},
            day  : Days,
            mine : Activity]

NoHandler == [pc |-> "idle", phase |-> "check", day |-> 1, mine |-> NoActivity]

\* The rules of the streak over the set A of the days with entries: a day that
\* follows another adds one, every seventh banks a freeze, and after a gap a
\* freeze keeps the streak without adding to it.
Rules(A) ==
    LET rules[d \in 0..MaxDay] ==
          IF d = 0 THEN [streak |-> 0, freezes |-> 0, gap |-> TRUE]
          ELSE LET before == rules[d - 1]
                   longer == before.streak + 1
                   banked == before.freezes + 1
               IN  IF d \notin A THEN [before EXCEPT !.gap = TRUE]
                   ELSE IF ~before.gap THEN
                     [streak  |-> longer,
                      freezes |-> IF longer % FreezeEarnInterval = 0 /\ banked <= MaxBankedFreezes
                                  THEN banked ELSE before.freezes,
                      gap     |-> FALSE]
                   ELSE IF before.freezes > 0 THEN
                     [before EXCEPT !.freezes = @ - 1, !.gap = FALSE]
                   ELSE [streak |-> 0, freezes |-> 0, gap |-> FALSE]
    IN  rules

\* The document of a day with one request and no other at the same time.
QuietDay(A, d) ==
    IF d \notin A THEN NoActivity
    ELSE [stored |-> TRUE, actions |-> 1,
          streak |-> Rules(A)[d].streak, freezes |-> Rules(A)[d].freezes,
          bonuses |-> IF d - 1 \in A /\ Rules(A)[d].streak \in StreakMilestones THEN 1 ELSE 0]

\* After any past of quiet days.
Init ==
    /\ today = FirstDay
    /\ \E A \in SUBSET (1..FirstDay - 1) :
         /\ activity = [d \in Days |-> QuietDay(A, d)]
         /\ recorded = [d \in Days |-> IF d \in A THEN 1 ELSE 0]
         /\ checked = A
    /\ handler = [c \in Clients |-> NoHandler]
    /\ overwritten = {}
    /\ rechecked = {}
    /\ crossed = FALSE

-----------------------------------------------------------------------------
Idle(c)   == handler[c].pc = "idle"
Finish(c) == handler' = [handler EXCEPT ![c] = NoHandler]

\* A mutant: a day with entries is checked again.
AfterOpenAlways(phase, mine) == IF phase = "record" THEN "append" ELSE "check"

\* Where a phase goes on once it has the document: a day with entries has
\* been checked.
AfterOpen(phase, mine) ==
    CASE phase = "record"                       -> "append"
      [] phase = "check" /\ mine.actions > 0    -> "record"
      [] phase = "check" /\ mine.actions = 0    -> "check"

\* get_or_create_today: find_one, then insert if there was none.
Open(c, phase) ==
    LET mine == activity[today]
    IN  handler' = [handler EXCEPT ![c] =
          [pc |-> IF mine.stored THEN AfterOpen(phase, mine) ELSE "insert",
           phase |-> phase, day |-> today, mine |-> mine]]

Track(c) ==
    /\ Idle(c)
    /\ recorded[today] < MaxActions
    /\ activity[today].bonuses < MaxBonuses
    /\ Open(c, "check")
    /\ UNCHANGED <<today, activity, recorded, overwritten, checked, rechecked, crossed>>

\* The index on user and date refuses a second document of a day: 500.
Insert(c) ==
    /\ handler[c].pc = "insert"
    /\ LET h == handler[c]
           fresh == [NoActivity EXCEPT !.stored = TRUE]
       IN  IF activity[h.day].stored
           THEN Finish(c) /\ UNCHANGED activity
           ELSE /\ activity' = [activity EXCEPT ![h.day] = fresh]
                /\ handler' = [handler EXCEPT ![c].pc = AfterOpen(h.phase, fresh),
                                              ![c].mine = fresh]
    /\ UNCHANGED <<today, recorded, overwritten, checked, rechecked, crossed>>

-----------------------------------------------------------------------------
\* check_and_update_streak

Smaller(a, b) == IF a < b THEN a ELSE b

\* The day follows one with entries.  A mutant: one day late.
ContinuedLate(mine, yesterday) ==
    LET streak == yesterday.streak + 1
    IN  [mine EXCEPT
          !.streak = streak,
          !.freezes = IF streak % FreezeEarnInterval = 1
                      THEN Smaller(yesterday.freezes + 1, MaxBankedFreezes)
                      ELSE yesterday.freezes,
          !.bonuses = IF streak \in StreakMilestones THEN @ + 1 ELSE @]

\* The day follows one with entries.
Continued(mine, yesterday) ==
    LET streak == yesterday.streak + 1
    IN  [mine EXCEPT
          !.streak = streak,
          !.freezes = IF streak % FreezeEarnInterval = 0
                      THEN Smaller(yesterday.freezes + 1, MaxBankedFreezes)
                      ELSE yesterday.freezes,
          !.bonuses = IF streak \in StreakMilestones THEN @ + 1 ELSE @]

\* Yesterday was missed: the last document before it, if any, pays with a
\* freeze or the streak starts again.
Missed(mine, prev) ==
    IF prev.freezes > 0
    THEN [mine EXCEPT !.streak = prev.streak, !.freezes = prev.freezes - 1]
    ELSE [mine EXCEPT !.streak = 0, !.freezes = 0]

\* find_many(date < d, sort -date, limit 1)
LatestBefore(d) ==
    LET earlier == {e \in Days : e < d /\ activity[e].stored}
    IN  IF earlier = {} THEN NoActivity
        ELSE activity[CHOOSE e \in earlier : \A x \in earlier : x <= e]

Check(c) ==
    /\ handler[c].pc = "check"
    /\ LET mine == handler[c].mine
           yesterday == IF today > 1 THEN activity[today - 1] ELSE NoActivity
       IN  handler' = [handler EXCEPT
             ![c].pc = "save",
             ![c].mine = IF yesterday.actions > 0 THEN Continued(mine, yesterday)
                         ELSE Missed(mine, LatestBefore(today - 1))]
    /\ UNCHANGED <<today, activity, recorded, overwritten, checked, rechecked, crossed>>

\* activity.save() writes the whole copy.
Store(h, mine) ==
    /\ activity' = [activity EXCEPT ![h.day] = mine]
    /\ overwritten' = IF activity[h.day].actions # h.mine.actions
                      THEN overwritten \cup {h.day} ELSE overwritten

Save(c) ==
    /\ handler[c].pc = "save"
    /\ LET h == handler[c]
       IN  /\ Store(h, h.mine)
           /\ checked' = checked \cup {h.day}
           /\ rechecked' = IF h.day \in checked /\ activity[h.day].actions = 0
                           THEN rechecked \cup {h.day} ELSE rechecked
    /\ handler' = [handler EXCEPT ![c] = [NoHandler EXCEPT !.pc = "record"]]
    /\ UNCHANGED <<today, recorded, crossed>>

-----------------------------------------------------------------------------
\* record_action: refused if the type of the action is unknown, which is
\* found out only after the check.

Record(c) ==
    /\ handler[c].pc = "record"
    /\ Open(c, "record")
    /\ UNCHANGED <<today, activity, recorded, overwritten, checked, rechecked, crossed>>

Refuse(c) ==
    /\ handler[c].pc = "record"
    /\ Finish(c)
    /\ UNCHANGED <<today, activity, recorded, overwritten, checked, rechecked, crossed>>

Append(c) ==
    /\ handler[c].pc = "append"
    /\ LET h == handler[c]
       IN  /\ Store(h, [h.mine EXCEPT !.actions = @ + 1])
           /\ recorded' = [recorded EXCEPT ![h.day] = @ + 1]
    /\ Finish(c)
    /\ UNCHANGED <<today, checked, rechecked, crossed>>

-----------------------------------------------------------------------------
Midnight ==
    /\ today < MaxDay
    /\ today' = today + 1
    /\ crossed' = (crossed \/ \E c \in Clients : ~Idle(c))
    /\ UNCHANGED <<activity, handler, recorded, overwritten, checked, rechecked>>

\* The server restarts.
Crash ==
    /\ \E c \in Clients : ~Idle(c)
    /\ handler' = [c \in Clients |-> NoHandler]
    /\ UNCHANGED <<today, activity, recorded, overwritten, checked, rechecked, crossed>>

Next ==
    \/ \E c \in Clients :
         \/ Track(c) \/ Insert(c) \/ Check(c) \/ Save(c)
         \/ Record(c) \/ Refuse(c) \/ Append(c)
    \/ Midnight
    \/ Crash

Spec == Init /\ [][Next]_vars

-----------------------------------------------------------------------------
\* Types of the documents and handlers.
TypeOK ==
    /\ today \in Days
    /\ activity \in [Days -> Activity]
    /\ handler \in [Clients -> Handler]
    /\ recorded \in [Days -> Nat]
    /\ overwritten \subseteq Days
    /\ checked \subseteq Days
    /\ rechecked \subseteq Days
    /\ crossed \in BOOLEAN

Active(d) == activity[d].actions > 0

(***************************************************************************)
(* The streak and the freezes of a day are those of the rules over all the *)
(* days before, whatever requests overlap on one day: unless a request was *)
(* under way at midnight, or an earlier day was checked but got no entry.  *)
(***************************************************************************)
StreakFollowsRules ==
    LET rules == Rules({d \in Days : Active(d)})
    IN  \A d \in Days :
          /\ Active(d)
          /\ ~crossed
          /\ \A e \in 1..d : activity[e].stored => Active(e)
          => activity[d].streak = rules[d].streak /\ activity[d].freezes = rules[d].freezes

(***************************************************************************)
(* Every request that was answered with its entry finds it in the document *)
(* of the day, unless two requests that overlapped saved over each other;  *)
(* and the bonus of a milestone is counted once, unless the day was        *)
(* checked again before it had an entry.                                   *)
(***************************************************************************)
EntriesAndBonusCounted ==
    \A d \in Days :
      d \notin overwritten =>
        /\ activity[d].actions = recorded[d]
        /\ d \notin rechecked => activity[d].bonuses <= 1

(***************************************************************************)
(* "Check and update streak on first action of the day" (activity.py:79):  *)
(* a day with entries had its streak brought up to date.  A request that   *)
(* checks before midnight and records after it breaks this, and no run     *)
(* checks it.                                                              *)
(***************************************************************************)
ActiveDayIsChecked ==
    \A d \in Days : Active(d) => d \in checked
=============================================================================
