--------------------------- MODULE RefreshTokens ---------------------------
(***************************************************************************)
(* Rotation of refresh tokens: register, login and refresh_tokens of       *)
(* api/routes/auth.py over repositories/refresh_token_repository.py.  A    *)
(* refresh revokes the presented token by compare-and-swap and, in a later *)
(* call, stores its successor; a token that is presented again ends the    *)
(* whole family, that is, the session that began with one login.           *)
(*                                                                         *)
(* A client holds one token and has one request outstanding; opening       *)
(* another tab copies the token.  Expired and malformed tokens are refused *)
(* before anything is read and are left out.  revoke_family is one step:   *)
(* by LinearFamily its update_many meets at most one document.             *)
(***************************************************************************)
EXTENDS Naturals, FiniteSets

CONSTANTS
    Clients,        \* tabs and devices
    Families,       \* family ids: one per login
    Jtis,           \* uuid4 token ids; a small instance runs out of them
    NoToken,        \* a client that is logged out
    NoFamily        \* the family of an id that is not in use

ASSUME SentinelAssumption == NoToken \notin Jtis /\ NoFamily \notin Families

VARIABLES
    status,         \* jti -> "unused", or is_revoked of its RefreshToken
    family,         \* jti -> family_id
    held,           \* client -> the token it would present
    handler,        \* client -> the refresh_tokens call of its request
    disturbed,      \* families that lost an answer, or got a second tab (history)
    ended,          \* families revoked for reuse, or whose rotation failed (history)
    overtaken       \* of those, the ones that ended with a rotation under way (history)

history == <<ended, overtaken>>

vars == <<status, family, held, handler, disturbed, ended, overtaken>>

Handler == [pc : {"idle", "issue", "reuse"}, jti : Jtis \cup {NoToken}]

Idle == [pc |-> "idle", jti |-> NoToken]

Init ==
    /\ status = [j \in Jtis |-> "unused"]
    /\ family = [j \in Jtis |-> NoFamily]
    /\ held = [c \in Clients |-> NoToken]
    /\ handler = [c \in Clients |-> Idle]
    /\ disturbed = {}
    /\ ended = {}
    /\ overtaken = {}

-----------------------------------------------------------------------------
Disturb(f) == disturbed' = disturbed \cup {f}

\* The calls that revoked their token and have not stored its successor.
Rotating(f) == {c \in Clients : handler[c].pc = "issue" /\ family[handler[c].jti] = f}

\* History: the sessions F come to an end, W of them with a rotation under way.
EndSessions(F, W) ==
    /\ ended' = ended \cup F
    /\ overtaken' = (overtaken \ F) \cup W

\* The answer gets to the client, or is lost and leaves it as it is.
Answer(c, token, f) ==
    \/ held' = [held EXCEPT ![c] = token] /\ UNCHANGED disturbed
    \/ UNCHANGED held /\ Disturb(f)

\* create_token, with a fresh jti.
CreateToken(j, f) ==
    /\ status[j] = "unused"
    /\ status' = [status EXCEPT ![j] = "live"]
    /\ family' = [family EXCEPT ![j] = f]

\* register or login: create_refresh_token begins a family.
Login(c) ==
    /\ handler[c].pc = "idle"
    /\ \E f \in Families, j \in Jtis :
         /\ \A k \in Jtis : family[k] # f
         /\ CreateToken(j, f)
         /\ Answer(c, j, f)
    /\ UNCHANGED <<handler, history>>

\* A mutant: the update does not ask for is_revoked = False.
WasRevokedAlways(j) == TRUE

\* revoke_by_jti finds a token that is not revoked.
WasRevoked(j) == status[j] = "live"

Refresh(c) ==
    /\ handler[c].pc = "idle"
    /\ held[c] # NoToken
    /\ WasRevoked(held[c])
    /\ status' = [status EXCEPT ![held[c]] = "revoked"]
    /\ handler' = [handler EXCEPT ![c] = [pc |-> "issue", jti |-> held[c]]]
    /\ UNCHANGED <<family, held, disturbed, history>>

RefreshReused(c) ==
    /\ handler[c].pc = "idle"
    /\ held[c] # NoToken
    /\ ~WasRevoked(held[c])
    /\ handler' = [handler EXCEPT ![c] = [pc |-> "reuse", jti |-> held[c]]]
    /\ UNCHANGED <<status, family, held, disturbed, history>>

\* Reuse ends the session: rotations of other calls may be under way.
EndReused(f) == EndSessions({f}, IF Rotating(f) = {} THEN {} ELSE {f})

\* A mutant: the update finds the presented token in place of its family.
RevokeReusedOnly(c) ==
    /\ handler[c].pc = "reuse"
    /\ LET f == family[handler[c].jti]
       IN  /\ status' = [status EXCEPT ![handler[c].jti] = "revoked"]
           /\ Answer(c, NoToken, f)
           /\ EndReused(f)
    /\ handler' = [handler EXCEPT ![c] = Idle]
    /\ UNCHANGED family

\* revoke_family, then 401.  It meets the tokens that are stored by now: not
\* the one that a rotation under way is about to store.
RevokeFamily(c) ==
    /\ handler[c].pc = "reuse"
    /\ LET f == family[handler[c].jti]
       IN  /\ status' = [j \in Jtis |-> IF family[j] = f THEN "revoked" ELSE status[j]]
           /\ Answer(c, NoToken, f)
           /\ EndReused(f)
    /\ handler' = [handler EXCEPT ![c] = Idle]
    /\ UNCHANGED family

\* A mutant: the answer still carries the old refresh token.
IssueOldToken(c) ==
    /\ handler[c].pc = "issue"
    /\ LET f == family[handler[c].jti]
       IN  \E j \in Jtis : CreateToken(j, f) /\ Answer(c, handler[c].jti, f)
    /\ handler' = [handler EXCEPT ![c] = Idle]
    /\ UNCHANGED history

\* A new pair with the same family_id.
Issue(c) ==
    /\ handler[c].pc = "issue"
    /\ LET f == family[handler[c].jti]
       IN  \E j \in Jtis : CreateToken(j, f) /\ Answer(c, j, f)
    /\ handler' = [handler EXCEPT ![c] = Idle]
    /\ UNCHANGED history

\* The user is gone or deactivated: 401, and the old token stays revoked.
UserGone(c) ==
    /\ handler[c].pc = "issue"
    /\ Answer(c, NoToken, family[handler[c].jti])
    /\ EndSessions({family[handler[c].jti]}, {})
    /\ handler' = [handler EXCEPT ![c] = Idle]
    /\ UNCHANGED <<status, family>>

\* A second tab starts with the token of the first.
OpenTab(c, d) ==
    /\ handler[d].pc = "idle"
    /\ held[c] # NoToken
    /\ held' = [held EXCEPT ![d] = held[c]]
    /\ Disturb(family[held[c]])
    /\ UNCHANGED <<status, family, handler, history>>

\* The server restarts: the calls are lost, and their answers with them.
Crash ==
    /\ \E c \in Clients : handler[c].pc # "idle"
    /\ handler' = [c \in Clients |-> Idle]
    /\ disturbed' = disturbed \cup
                      {family[handler[c].jti] : c \in {d \in Clients : handler[d].pc # "idle"}}
    /\ EndSessions({f \in Families : Rotating(f) # {}}, {})
    /\ UNCHANGED <<status, family, held>>

Next ==
    \/ \E c \in Clients :
         \/ Login(c) \/ Refresh(c) \/ RefreshReused(c)
         \/ RevokeFamily(c) \/ Issue(c) \/ UserGone(c)
    \/ \E c \in Clients : \E d \in Clients \ {c} : OpenTab(c, d)
    \/ Crash

Spec == Init /\ [][Next]_vars

-----------------------------------------------------------------------------
(***************************************************************************)
(* Types; a token has a family exactly when it is stored, and nothing is   *)
(* presented or rotated that was not stored.                               *)
(***************************************************************************)
TypeOK ==
    /\ status \in [Jtis -> {"unused", "live", "revoked"}]
    /\ family \in [Jtis -> Families \cup {NoFamily}]
    /\ held \in [Clients -> Jtis \cup {NoToken}]
    /\ handler \in [Clients -> Handler]
    /\ disturbed \subseteq Families
    /\ ended \subseteq Families
    /\ overtaken \subseteq ended
    /\ \A j \in Jtis : status[j] = "unused" <=> family[j] = NoFamily
    /\ \A c \in Clients : held[c] # NoToken => status[held[c]] # "unused"
    /\ \A c \in Clients : handler[c].pc # "idle" => handler[c].jti = held[c] /\ held[c] # NoToken

Live(f) == {j \in Jtis : status[j] = "live" /\ family[j] = f}

(***************************************************************************)
(* "Atomically revoke the old token (CAS)" (auth.py:164): however many     *)
(* tabs present a token at the same time, a session has one live token or  *)
(* one rotation that is about to store one, never two of either.           *)
(***************************************************************************)
LinearFamily ==
    \A f \in Families :
      /\ \A j, k \in Live(f) : j = k
      /\ \A c, d \in Rotating(f) : c = d
      /\ Live(f) = {} \/ Rotating(f) = {}

(***************************************************************************)
(* "When a rotated token is reused, the entire family is revoked"          *)
(* (refresh_token.py:5): a session that ended, by reuse, by a user who is  *)
(* gone or by a restart that lost its rotation, has no live token from     *)
(* then on, whatever calls of its other tabs follow.  The exception is a   *)
(* rotation that had revoked its token before revoke_family and stores the *)
(* successor after it: that token is live, the session goes on, and only a *)
(* further end of it is final.                                             *)
(***************************************************************************)
EndedUnlessOvertaken ==
    \A f \in ended : Live(f) # {} => f \in overtaken

(***************************************************************************)
(* Reuse detection never hits a client that behaves: as long as no answer  *)
(* of its session was lost and no second tab uses its token, the token it  *)
(* holds between two requests is the live one.                             *)
(***************************************************************************)
SessionKept ==
    \A c \in Clients :
      /\ held[c] # NoToken
      /\ handler[c].pc = "idle"
      /\ family[held[c]] \notin disturbed
      => status[held[c]] = "live"
=============================================================================
