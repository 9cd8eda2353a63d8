------------------------------ MODULE MCRoutes ------------------------------
(***************************************************************************)
(* An instance of Routes: two tabs or requests in each part.               *)
(***************************************************************************)
EXTENDS Routes, TLC

Symmetry == Permutations(Clients)

\* Bound of a coaching session: two tabs in one that is short and only gets
\* harder, one tab in a longer one that gets harder and easier.
Short(s) == s.total + Len(s.scores) <= 3 /\ \A i \in 1..Len(s.scores) : s.scores[i].mark = 5

CoachBound ==
    \/ part # "coach"
    \/ \A t \in Threads : Short(checkpoint[t])
    \/ \A c, d \in Clients : c = d \/ coachHandler[c].pc = "idle" \/ coachHandler[d].pc = "idle"
=============================================================================
