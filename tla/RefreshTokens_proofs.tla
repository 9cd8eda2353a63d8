------------------------ MODULE RefreshTokens_proofs ------------------------
(***************************************************************************)
(* Proofs about RefreshTokens, for any number of clients, sessions and     *)
(* tokens.  The inductive invariant IInv adds to the three invariants of   *)
(* the runs what they rest on: a token under rotation stays revoked, two   *)
(* clients hold tokens of one session only if it was disturbed, and a      *)
(* session that ended without being overtaken has no rotation under way.   *)
(***************************************************************************)
EXTENDS RefreshTokens, TLAPS

Pending == \A c \in Clients : handler[c].pc # "idle" => status[handler[c].jti] = "revoked"

Alone ==
    \A c, d \in Clients :
      /\ held[c] # NoToken /\ held[d] # NoToken
      /\ family[held[c]] = family[held[d]]
      /\ c # d
      => family[held[c]] \in disturbed

\* No live token and no rotation that is about to store one.
AtRest(f) == Live(f) = {} /\ Rotating(f) = {}

\* A session that ended was begun, and is at rest unless it was overtaken.
Over ==
    \A f \in ended :
      /\ \E j \in Jtis : family[j] = f
      /\ f \in overtaken \/ AtRest(f)

IInv == TypeOK /\ Pending /\ Alone /\ LinearFamily /\ SessionKept /\ Over

\* At first no session exists and nothing is under way.
LEMMA InitIInv == Init => IInv
  BY SentinelAssumption
     DEF Init, IInv, TypeOK, Pending, Alone, LinearFamily, SessionKept, Over, AtRest, Live, Rotating, Handler, Idle

\* An end is recorded of stored sessions only.
LEMMA EndsStep == IInv /\ [Next]_vars => ended' \subseteq Families /\ overtaken' \subseteq ended'
<1> DEFINE Ends == ended' \subseteq Families /\ overtaken' \subseteq ended'
<1> SUFFICES ASSUME IInv, [Next]_vars PROVE Ends
  OBVIOUS
<1>1. ended \subseteq Families /\ overtaken \subseteq ended
  BY DEF IInv, TypeOK
<1>2. \A c \in Clients : handler[c].pc # "idle" => family[handler[c].jti] \in Families
  BY SentinelAssumption DEF IInv, TypeOK, Pending, Handler
<1>3. ASSUME NEW F \in SUBSET Families, NEW W \in SUBSET F, EndSessions(F, W) PROVE Ends
  BY <1>1, <1>3 DEF EndSessions
<1>4. ASSUME UNCHANGED history PROVE Ends
  BY <1>1, <1>4 DEF history
<1>5. ASSUME NEW c \in Clients, RevokeFamily(c) PROVE Ends
  <2> DEFINE f == family[handler[c].jti]
             W == IF Rotating(f) = {} THEN {} ELSE {f}
  <2>1. handler[c].pc = "reuse" /\ EndSessions({f}, W)
    BY <1>5 DEF RevokeFamily, EndReused
  <2>2. {f} \in SUBSET Families /\ W \in SUBSET {f}
    BY <2>1, <1>2
  <2> QED
    BY <2>1, <2>2, <1>3
<1>6. ASSUME NEW c \in Clients, UserGone(c) PROVE Ends
  <2> DEFINE f == family[handler[c].jti]
  <2>1. handler[c].pc = "issue" /\ EndSessions({f}, {})
    BY <1>6 DEF UserGone
  <2>2. {f} \in SUBSET Families
    BY <2>1, <1>2
  <2> QED
    BY <2>1, <2>2, <1>3
<1>7. CASE Crash
  BY <1>7, <1>3 DEF Crash
<1>8. ASSUME NEW c \in Clients, Login(c) \/ Refresh(c) \/ RefreshReused(c) \/ Issue(c)
      PROVE  Ends
  BY <1>8, <1>4 DEF Login, Refresh, RefreshReused, Issue, history
<1>9. ASSUME NEW c \in Clients, NEW d \in Clients, OpenTab(c, d) PROVE Ends
  BY <1>9, <1>4 DEF OpenTab, history
<1>10. CASE UNCHANGED vars
  BY <1>10, <1>4 DEF vars, history
<1> QED
  BY <1>5, <1>6, <1>7, <1>8, <1>9, <1>10 DEF Next

\* Every step stores and presents tokens of their own family.
LEMMA TypeStep == IInv /\ [Next]_vars => TypeOK'
<1> SUFFICES ASSUME IInv, [Next]_vars PROVE TypeOK'
  OBVIOUS
<1>0. ended' \subseteq Families /\ overtaken' \subseteq ended'
  BY EndsStep
<1> USE SentinelAssumption DEF IInv, TypeOK, Pending, Handler, Idle, Disturb, Answer, CreateToken, WasRevoked
<1>1. ASSUME NEW c \in Clients, Login(c) PROVE TypeOK'
  BY <1>0, <1>1 DEF Login
<1>2. ASSUME NEW c \in Clients, Refresh(c) PROVE TypeOK'
  BY <1>0, <1>2 DEF Refresh
<1>3. ASSUME NEW c \in Clients, RefreshReused(c) PROVE TypeOK'
  BY <1>0, <1>3 DEF RefreshReused
<1>4. ASSUME NEW c \in Clients, RevokeFamily(c) PROVE TypeOK'
  <2> DEFINE f == family[handler[c].jti]
  <2>1. /\ handler[c].pc = "reuse"
        /\ handler' = [handler EXCEPT ![c] = Idle]
        /\ status' = [j \in Jtis |-> IF family[j] = f THEN "revoked" ELSE status[j]]
        /\ family' = family
        /\ Answer(c, NoToken, f)
    BY <1>4 DEF RevokeFamily
  <2>2. handler[c].jti \in Jtis /\ f \in Families /\ f # NoFamily
    BY <2>1
  <2>3. held' \in [Clients -> Jtis \cup {NoToken}] /\ disturbed' \subseteq Families
    BY <2>1, <2>2
  <2>4. status' \in [Jtis -> {"unused", "live", "revoked"}]
    BY <2>1
  <2>5. \A j \in Jtis : status'[j] = "unused" <=> family'[j] = NoFamily
    BY <2>1, <2>2
  <2>6. \A d \in Clients : held'[d] # NoToken => status'[held'[d]] # "unused"
    BY <2>1
  <2>7. \A d \in Clients : handler'[d].pc # "idle" => handler'[d].jti = held'[d] /\ held'[d] # NoToken
    BY <2>1
  <2>8. handler' \in [Clients -> Handler]
    BY <2>1
  <2> HIDE DEF f
  <2> QED
    BY <1>0, <2>1, <2>3, <2>4, <2>5, <2>6, <2>7, <2>8
<1>5. ASSUME NEW c \in Clients, Issue(c) PROVE TypeOK'
  <2> DEFINE f == family[handler[c].jti]
  <2>1. PICK j \in Jtis : CreateToken(j, f) /\ Answer(c, j, f)
    BY <1>0, <1>5 DEF Issue
  <2>2. handler[c].pc = "issue" /\ handler' = [handler EXCEPT ![c] = Idle]
    BY <1>0, <1>5 DEF Issue
  <2>3. handler[c].jti \in Jtis /\ f \in Families /\ f # NoFamily
    BY <2>2
  <2>4. status' = [status EXCEPT ![j] = "live"] /\ family' = [family EXCEPT ![j] = f]
    BY <2>1
  <2>5. held' \in [Clients -> Jtis \cup {NoToken}] /\ disturbed' \subseteq Families
    BY <2>1, <2>3
  <2>6. \A k \in Jtis : status'[k] = "unused" <=> family'[k] = NoFamily
    BY <2>3, <2>4
  <2>7. \A d \in Clients : held'[d] # NoToken => status'[held'[d]] # "unused"
    BY <2>1, <2>4
  <2>8. \A d \in Clients : handler'[d].pc # "idle" => handler'[d].jti = held'[d] /\ held'[d] # NoToken
    BY <2>1, <2>2
  <2> QED
    BY <1>0, <2>2, <2>3, <2>4, <2>5, <2>6, <2>7, <2>8
<1>6. ASSUME NEW c \in Clients, UserGone(c) PROVE TypeOK'
  <2> DEFINE f == family[handler[c].jti]
  <2>1. /\ handler[c].pc = "issue"
        /\ handler' = [handler EXCEPT ![c] = Idle]
        /\ status' = status /\ family' = family
        /\ Answer(c, NoToken, f)
    BY <1>0, <1>6 DEF UserGone
  <2>2. handler[c].jti \in Jtis /\ f \in Families
    BY <2>1
  <2>3. held' \in [Clients -> Jtis \cup {NoToken}] /\ disturbed' \subseteq Families
    BY <2>1, <2>2
  <2>4. \A d \in Clients : held'[d] # NoToken => status'[held'[d]] # "unused"
    BY <2>1
  <2>5. \A d \in Clients : handler'[d].pc # "idle" => handler'[d].jti = held'[d] /\ held'[d] # NoToken
    BY <2>1
  <2>6. handler' \in [Clients -> Handler]
    BY <2>1
  <2> HIDE DEF f
  <2> QED
    BY <1>0, <2>1, <2>3, <2>4, <2>5, <2>6
<1>7. ASSUME NEW c \in Clients, NEW d \in Clients \ {c}, OpenTab(c, d) PROVE TypeOK'
  BY <1>0, <1>7 DEF OpenTab
<1>8. CASE Crash
  BY <1>0, <1>8 DEF Crash
<1>9. CASE UNCHANGED vars
  BY <1>0, <1>9 DEF vars
<1> QED
  BY <1>1, <1>2, <1>3, <1>4, <1>5, <1>6, <1>7, <1>8, <1>9 DEF Next

\* While a request has more to do, its token stays revoked.
LEMMA PendingStep == IInv /\ [Next]_vars => Pending'
<1> SUFFICES ASSUME IInv, [Next]_vars PROVE Pending'
  OBVIOUS
<1> USE SentinelAssumption DEF IInv, TypeOK, Pending, Handler, Idle, CreateToken, WasRevoked
<1>1. ASSUME NEW c \in Clients, Login(c) PROVE Pending'
  BY <1>1 DEF Login
<1>2. ASSUME NEW c \in Clients, Refresh(c) PROVE Pending'
  BY <1>2 DEF Refresh
<1>3. ASSUME NEW c \in Clients, RefreshReused(c) PROVE Pending'
  BY <1>3 DEF RefreshReused
<1>4. ASSUME NEW c \in Clients, RevokeFamily(c) PROVE Pending'
  BY <1>4 DEF RevokeFamily
<1>5. ASSUME NEW c \in Clients, Issue(c) PROVE Pending'
  BY <1>5 DEF Issue
<1>6. ASSUME NEW c \in Clients, UserGone(c) PROVE Pending'
  BY <1>6 DEF UserGone
<1>7. ASSUME NEW c \in Clients, NEW d \in Clients \ {c}, OpenTab(c, d) PROVE Pending'
  BY <1>7 DEF OpenTab
<1>8. CASE Crash
  BY <1>8 DEF Crash
<1>9. CASE UNCHANGED vars
  BY <1>9 DEF vars
<1> QED
  BY <1>1, <1>2, <1>3, <1>4, <1>5, <1>6, <1>7, <1>8, <1>9 DEF Next

\* Two clients come to hold tokens of one session only through a second tab.
LEMMA AloneStep == IInv /\ [Next]_vars => Alone'
<1> SUFFICES ASSUME IInv, [Next]_vars PROVE Alone'
  OBVIOUS
<1> USE SentinelAssumption DEF IInv, TypeOK, Alone, Handler, Idle, Disturb, Answer, CreateToken
<1>1. ASSUME NEW c \in Clients, Login(c) PROVE Alone'
  BY <1>1 DEF Login
<1>2. ASSUME NEW c \in Clients, Refresh(c) PROVE Alone'
  BY <1>2 DEF Refresh
<1>3. ASSUME NEW c \in Clients, RefreshReused(c) PROVE Alone'
  BY <1>3 DEF RefreshReused
<1>4. ASSUME NEW c \in Clients, RevokeFamily(c) PROVE Alone'
  BY <1>4 DEF RevokeFamily
<1>5. ASSUME NEW c \in Clients, Issue(c) PROVE Alone'
  BY <1>5 DEF Issue
<1>6. ASSUME NEW c \in Clients, UserGone(c) PROVE Alone'
  BY <1>6 DEF UserGone
<1>7. ASSUME NEW c \in Clients, NEW d \in Clients \ {c}, OpenTab(c, d) PROVE Alone'
  BY <1>7 DEF OpenTab
<1>8. CASE Crash
  BY <1>8 DEF Crash
<1>9. CASE UNCHANGED vars
  BY <1>9 DEF vars
<1> QED
  BY <1>1, <1>2, <1>3, <1>4, <1>5, <1>6, <1>7, <1>8, <1>9 DEF Next

\* A rotation uses up the live token before it inserts the next one.
LEMMA LinearStep == IInv /\ [Next]_vars => LinearFamily'
<1> SUFFICES ASSUME IInv, [Next]_vars PROVE LinearFamily'
  OBVIOUS
<1> USE SentinelAssumption
    DEF IInv, TypeOK, Pending, LinearFamily, Live, Rotating, Handler, Idle, CreateToken, WasRevoked
<1>1. ASSUME NEW c \in Clients, Login(c) PROVE LinearFamily'
  BY <1>1 DEF Login
<1>2. ASSUME NEW c \in Clients, Refresh(c) PROVE LinearFamily'
  BY <1>2 DEF Refresh
<1>3. ASSUME NEW c \in Clients, RefreshReused(c) PROVE LinearFamily'
  BY <1>3 DEF RefreshReused
<1>4. ASSUME NEW c \in Clients, RevokeFamily(c) PROVE LinearFamily'
  BY <1>4 DEF RevokeFamily
<1>5. ASSUME NEW c \in Clients, Issue(c) PROVE LinearFamily'
  BY <1>5 DEF Issue
<1>6. ASSUME NEW c \in Clients, UserGone(c) PROVE LinearFamily'
  BY <1>6 DEF UserGone
<1>7. ASSUME NEW c \in Clients, NEW d \in Clients \ {c}, OpenTab(c, d) PROVE LinearFamily'
  BY <1>7 DEF OpenTab
<1>8. CASE Crash
  BY <1>8 DEF Crash
<1>9. CASE UNCHANGED vars
  BY <1>9 DEF vars
<1> QED
  BY <1>1, <1>2, <1>3, <1>4, <1>5, <1>6, <1>7, <1>8, <1>9 DEF Next

\* A client alone in its session learns of every token that replaces its own.
LEMMA KeptStep == IInv /\ [Next]_vars => SessionKept'
<1> SUFFICES ASSUME IInv, [Next]_vars PROVE SessionKept'
  OBVIOUS
<1> USE SentinelAssumption
    DEF IInv, TypeOK, Alone, SessionKept, Handler, Idle, Disturb, Answer, CreateToken, WasRevoked
<1>1. ASSUME NEW c \in Clients, Login(c) PROVE SessionKept'
  BY <1>1 DEF Login
<1>2. ASSUME NEW c \in Clients, Refresh(c) PROVE SessionKept'
  BY <1>2 DEF Refresh
<1>3. ASSUME NEW c \in Clients, RefreshReused(c) PROVE SessionKept'
  BY <1>3 DEF RefreshReused
<1>4. ASSUME NEW c \in Clients, RevokeFamily(c) PROVE SessionKept'
  BY <1>4 DEF RevokeFamily
<1>5. ASSUME NEW c \in Clients, Issue(c) PROVE SessionKept'
  BY <1>5 DEF Issue
<1>6. ASSUME NEW c \in Clients, UserGone(c) PROVE SessionKept'
  BY <1>6 DEF UserGone
<1>7. ASSUME NEW c \in Clients, NEW d \in Clients \ {c}, OpenTab(c, d) PROVE SessionKept'
  BY <1>7 DEF OpenTab
<1>8. CASE Crash
  BY <1>8 DEF Crash
<1>9. CASE UNCHANGED vars
  BY <1>9 DEF vars
<1> QED
  BY <1>1, <1>2, <1>3, <1>4, <1>5, <1>6, <1>7, <1>8, <1>9 DEF Next

\* Recording the end of a session that is at rest or overtaken keeps Over.
LEMMA OverEnds ==
  ASSUME Over, family' = family, NEW f,
         ended' = ended \cup {f}, overtaken \subseteq overtaken' \cup {f},
         \E j \in Jtis : family[j] = f,
         f \in overtaken' \/ AtRest(f)',
         \A g \in ended : AtRest(g) => AtRest(g)'
  PROVE  Over'
BY DEF Over, AtRest

\* What ends a session leaves it at rest, or overtaken by a rotation; only a
\* login begins one, and no login takes the family id of another.
LEMMA OverStep == IInv /\ [Next]_vars => Over'
<1> SUFFICES ASSUME IInv, [Next]_vars PROVE Over'
  OBVIOUS
<1>0. Over /\ ended \subseteq Families
  BY DEF IInv, TypeOK
<1> USE SentinelAssumption
    DEF IInv, TypeOK, Pending, Handler, Idle, CreateToken,
        WasRevoked, EndSessions, EndReused, history
<1>1. ASSUME NEW c \in Clients, Login(c) PROVE Over'
  BY <1>1 DEF Login, Over, AtRest, Live, Rotating
<1>2. ASSUME NEW c \in Clients, Refresh(c) PROVE Over'
  BY <1>2 DEF Refresh, Over, AtRest, Live, Rotating
<1>3. ASSUME NEW c \in Clients, RefreshReused(c) PROVE Over'
  BY <1>3 DEF RefreshReused, Over, AtRest, Live, Rotating
<1>4. ASSUME NEW c \in Clients, RevokeFamily(c) PROVE Over'
  <2>0. PICK f \in Families : f = family[handler[c].jti]
    BY <1>4 DEF RevokeFamily
  <2>1. /\ handler[c].pc = "reuse" /\ handler[c].jti \in Jtis /\ family' = family
        /\ ended' = ended \cup {f}
        /\ overtaken' = (overtaken \ {f}) \cup (IF Rotating(f) = {} THEN {} ELSE {f})
        /\ status' = [j \in Jtis |-> IF family[j] = f THEN "revoked" ELSE status[j]]
        /\ handler' = [handler EXCEPT ![c] = Idle]
    BY <1>4, <2>0 DEF RevokeFamily
  <2>2. \A g \in Families : Live(g)' \subseteq Live(g) /\ Rotating(g)' = Rotating(g)
    BY <2>1 DEF Live, Rotating
  <2>3. Live(f)' = {}
    BY <2>1 DEF Live
  <2>4. f \in overtaken' \/ Rotating(f)' = {}
    BY <2>1, <2>2
  <2>5. \A g \in ended : AtRest(g) => AtRest(g)'
    BY <1>0, <2>2 DEF AtRest
  <2>6. (\E j \in Jtis : family[j] = f) /\ (f \in overtaken' \/ AtRest(f)')
    BY <2>0, <2>1, <2>3, <2>4 DEF AtRest
  <2>7. overtaken \subseteq overtaken' \cup {f}
    BY <2>1
  <2> QED
    BY <1>0, <2>1, <2>5, <2>6, <2>7, OverEnds
<1>5. ASSUME NEW c \in Clients, Issue(c) PROVE Over'
  BY <1>5 DEF Issue, Over, AtRest, Live, Rotating
<1>6. ASSUME NEW c \in Clients, UserGone(c) PROVE Over'
  <2>0. PICK f \in Families : f = family[handler[c].jti]
    BY <1>6 DEF UserGone
  <2>1. /\ handler[c].pc = "issue" /\ handler[c].jti \in Jtis /\ family' = family
        /\ ended' = ended \cup {f} /\ overtaken' = (overtaken \ {f}) \cup {}
        /\ handler' = [handler EXCEPT ![c] = Idle]
    BY <1>6, <2>0 DEF UserGone
  <2>2. \A g \in Families : Live(g)' = Live(g) /\ Rotating(g)' \subseteq Rotating(g)
    BY <1>6 DEF UserGone, Live, Rotating
  <2>3. Rotating(f) = {c} /\ Live(f) = {}
    BY <2>0, <2>1 DEF Live, Rotating, LinearFamily
  <2>4. Rotating(f)' = {}
    BY <2>0, <2>1, <2>3 DEF Rotating
  <2>5. AtRest(f)' /\ \E j \in Jtis : family[j] = f
    <3>1. f \in Families /\ \E j \in Jtis : family[j] = f
      BY <2>0, <2>1
    <3> QED
      BY <2>2, <2>3, <2>4, <3>1 DEF AtRest
  <2>6. \A g \in ended : AtRest(g) => AtRest(g)'
    BY <1>0, <2>2 DEF AtRest
  <2>7. overtaken \subseteq overtaken' \cup {f}
    BY <2>1
  <2> QED
    BY <1>0, <2>1, <2>5, <2>6, <2>7, OverEnds
<1>7. ASSUME NEW c \in Clients, NEW d \in Clients \ {c}, OpenTab(c, d) PROVE Over'
  BY <1>7 DEF OpenTab, Over, AtRest, Live, Rotating
<1>8. CASE Crash
  <2> DEFINE F == {f \in Families : Rotating(f) # {}}
  <2>1. /\ status' = status /\ family' = family
        /\ handler' = [c \in Clients |-> Idle]
        /\ ended' = ended \cup F /\ overtaken' = (overtaken \ F) \cup {}
    BY <1>8 DEF Crash
  <2>2. \A f \in Families : Live(f)' = Live(f) /\ Rotating(f)' = {}
    BY <2>1 DEF Live, Rotating
  <2>3. \A f \in F : Live(f) = {} /\ \E j \in Jtis : family[j] = f
    <3> SUFFICES ASSUME NEW f \in F PROVE Live(f) = {} /\ \E j \in Jtis : family[j] = f
      OBVIOUS
    <3>1. f \in Families /\ Rotating(f) # {}
      OBVIOUS
    <3>2. Live(f) = {}
      BY <3>1 DEF LinearFamily
    <3>3. PICK c \in Clients : handler[c].pc = "issue" /\ family[handler[c].jti] = f
      BY <3>1 DEF Rotating
    <3> QED
      BY <3>2, <3>3
  <2> QED
    BY <2>1, <2>2, <2>3 DEF Over, AtRest
<1>9. CASE UNCHANGED vars
  BY <1>9 DEF vars, Over, AtRest, Live, Rotating
<1> QED
  BY <1>1, <1>2, <1>3, <1>4, <1>5, <1>6, <1>7, <1>8, <1>9 DEF Next

\* The inductive invariant holds in every reachable state.
THEOREM Inductive == Spec => []IInv
<1>1. IInv /\ [Next]_vars => IInv'
  BY TypeStep, PendingStep, AloneStep, LinearStep, KeptStep, OverStep DEF IInv
<1> QED
  BY InitIInv, <1>1, PTL DEF Spec

-----------------------------------------------------------------------------
\* Every stored token has its family and only stored tokens are presented.
THEOREM Typing == Spec => []TypeOK
<1>1. IInv => TypeOK
  BY DEF IInv
<1> QED
  BY Inductive, <1>1, PTL

\* A session has at most one live token or rotation under way, whatever
\* number of tabs present its tokens at once.
THEOREM RotationIsLinear == Spec => []LinearFamily
<1>1. IInv => LinearFamily
  BY DEF IInv
<1> QED
  BY Inductive, <1>1, PTL

\* A client that is alone in its session and lost no answer holds a live token.
THEOREM SessionsAreKept == Spec => []SessionKept
<1>1. IInv => SessionKept
  BY DEF IInv
<1> QED
  BY Inductive, <1>1, PTL

\* A session that ended has no live token, unless a rotation was under way
\* when it ended; whatever number of clients share it.
THEOREM EndedForGood == Spec => []EndedUnlessOvertaken
<1>1. IInv => EndedUnlessOvertaken
  BY DEF IInv, Over, AtRest, EndedUnlessOvertaken
<1> QED
  BY Inductive, <1>1, PTL
=============================================================================
