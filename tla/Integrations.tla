---------------------------- MODULE Integrations ----------------------------
(***************************************************************************)
(* A user's connection to one provider, Gmail or Google Calendar: the      *)
(* callback and disconnect endpoints of api/routes/integrations.py with    *)
(* IntegrationService and IntegrationConnectionRepository.  A code of the  *)
(* OAuth flow is exchanged for a grant, whose tokens the one document of   *)
(* user and provider keeps until they are purged.  Of a grant the provider *)
(* knows whether it was revoked.                                           *)
(*                                                                         *)
(* Grants are numbered, 0 stands for purged tokens.  Of the periodic tasks *)
(* the one that refreshes tokens, _refresh_all_expiring_tokens, is         *)
(* modelled as written, although no worker has it registered; those that   *)
(* synchronise messages are stubs, and there are no signals.  Those tasks  *)
(* also give a connection whose tokens cannot be decrypted the status      *)
(* TOKEN_EXPIRED, which is left out, since the key does not change here.   *)
(***************************************************************************)
EXTENDS Naturals, FiniteSets

CONSTANTS
    Clients,    \* browser tabs of the user
    MaxGrants   \* bound: grants the provider issues

VARIABLES
    connection, \* the IntegrationConnection document
    issued,     \* how many grants the provider has issued
    revoked,    \* grants the provider was told to revoke
    handler,    \* client -> the handler of its request
    refresh,    \* the task that refreshes the tokens
    excused,    \* grants that cannot be accounted for (history)
    revived     \* revoked grants that may be in use (history)

vars == <<connection, issued, revoked, handler, refresh, excused, revived>>

Grants == 1..MaxGrants

Connection == [stored : BOOLEAN, status : {"connected", "disconnected"}, grant : 0..MaxGrants]

NoConnection == [stored |-> FALSE, status |-> "disconnected", grant |-> 0]

\* read: the document as the handler found it.  grant: what it exchanged.
Handler == [pc : {"idle", "exchange", "write", "revoke", "purge"},
            read : Connection, grant : 0..MaxGrants]

NoHandler == [pc |-> "idle", read |-> NoConnection, grant |-> 0]

\* grant: what the task found in the document it listed.
Refresh == [pc : {"idle", "ask", "store"}, grant : 0..MaxGrants]

NoRefresh == [pc |-> "idle", grant |-> 0]

Init ==
    /\ connection = NoConnection
    /\ issued = 0
    /\ revoked = {}
    /\ handler = [c \in Clients |-> NoHandler]
    /\ refresh = NoRefresh
    /\ excused = {}
    /\ revived = {}

Start(c, pc) ==
    /\ handler[c].pc = "idle"
    /\ handler' = [handler EXCEPT ![c] = [NoHandler EXCEPT !.pc = pc, !.read = connection]]

Finish(c) == handler' = [handler EXCEPT ![c] = NoHandler]

\* The grant in the document, if it is another than the one read from it.
Unseen(read) == {connection.grant} \ {0, read}

-----------------------------------------------------------------------------
\* complete_connection

\* A mutant: a connection that exists is connected anew.
CallbackAlways(c) ==
    /\ issued < MaxGrants
    /\ Start(c, "exchange")
    /\ UNCHANGED <<connection, issued, revoked, refresh, excused, revived>>

Callback(c) ==
    /\ issued < MaxGrants
    /\ connection.stored => connection.status # "connected"
    /\ Start(c, "exchange")
    /\ UNCHANGED <<connection, issued, revoked, refresh, excused, revived>>

\* exchange_code, which the provider may refuse.
Exchange(c) ==
    /\ handler[c].pc = "exchange"
    /\ \/ /\ issued < MaxGrants
          /\ issued' = issued + 1
          /\ handler' = [handler EXCEPT ![c].pc = "write", ![c].grant = issued + 1]
       \/ Finish(c) /\ UNCHANGED issued
    /\ UNCHANGED <<connection, revoked, refresh, excused, revived>>

\* A document that was read is updated; else one is inserted, which the
\* unique index refuses if there is one by now.
Write(c) ==
    /\ handler[c].pc = "write"
    /\ LET connected == [stored |-> TRUE, status |-> "connected", grant |-> handler[c].grant]
       IN  IF handler[c].read.stored \/ ~connection.stored
           THEN /\ connection' = connected
                /\ excused' = excused \cup Unseen(handler[c].read.grant)
           ELSE /\ excused' = excused \cup {handler[c].grant}
                /\ UNCHANGED connection
    /\ Finish(c)
    /\ UNCHANGED <<issued, revoked, refresh, revived>>

-----------------------------------------------------------------------------
\* disconnect: the grant of a connected document is revoked at the provider
\* with best effort, then the tokens are purged.

Disconnect(c) ==
    /\ connection.stored
    /\ Start(c, IF connection.status = "connected" THEN "revoke" ELSE "purge")
    /\ UNCHANGED <<connection, issued, revoked, refresh, excused, revived>>

Revoke(c) ==
    /\ handler[c].pc = "revoke"
    /\ \/ revoked' = revoked \cup {handler[c].read.grant} /\ UNCHANGED excused
       \/ excused' = excused \cup {handler[c].read.grant} /\ UNCHANGED revoked
    /\ handler' = [handler EXCEPT ![c].pc = "purge"]
    /\ UNCHANGED <<connection, issued, refresh, revived>>

\* A mutant: the document is marked and keeps its tokens.
PurgeNothing(c) ==
    /\ handler[c].pc = "purge"
    /\ connection' = [connection EXCEPT !.status = "disconnected"]
    /\ Finish(c)
    /\ UNCHANGED <<issued, revoked, refresh, excused, revived>>

Purge(c) ==
    /\ handler[c].pc = "purge"
    /\ connection' = [connection EXCEPT !.status = "disconnected", !.grant = 0]
    /\ excused' = excused \cup Unseen(handler[c].read.grant)
    /\ Finish(c)
    /\ UNCHANGED <<issued, revoked, refresh, revived>>

-----------------------------------------------------------------------------
\* _refresh_all_expiring_tokens: connected documents are listed, the provider
\* is asked for new tokens of each grant, which it refuses if the grant was
\* revoked, and update_tokens makes the document a connected one.

OnlyRefresh == UNCHANGED <<issued, revoked, handler>>

ListExpiring ==
    /\ refresh.pc = "idle"
    /\ connection.status = "connected"
    /\ refresh' = [pc |-> "ask", grant |-> connection.grant]
    /\ OnlyRefresh
    /\ UNCHANGED <<connection, excused, revived>>

RefreshTokens ==
    /\ refresh.pc = "ask"
    /\ refresh.grant \notin revoked
    /\ refresh' = [refresh EXCEPT !.pc = "store"]
    /\ OnlyRefresh
    /\ UNCHANGED <<connection, excused, revived>>

\* The provider refuses, or the worker is lost.
RefreshFails ==
    /\ refresh.pc # "idle"
    /\ refresh' = NoRefresh
    /\ OnlyRefresh
    /\ UNCHANGED <<connection, excused, revived>>

UpdateTokens ==
    /\ refresh.pc = "store"
    /\ connection' = [stored |-> TRUE, status |-> "connected", grant |-> refresh.grant]
    /\ excused' = excused \cup Unseen(refresh.grant)
    /\ revived' = IF connection.grant = refresh.grant
                  THEN revived ELSE revived \cup {refresh.grant}
    /\ refresh' = NoRefresh
    /\ OnlyRefresh

-----------------------------------------------------------------------------
\* External: the process is restarted, or the database cannot be reached; a
\* grant that was exchanged and not written is lost, and one that was revoked
\* and not purged stays.
Cut(c) ==
    /\ handler[c].pc # "idle"
    /\ excused' = excused \cup ({handler[c].grant} \ {0})
    /\ revived' = IF handler[c].pc = "purge"
                  THEN revived \cup ({handler[c].read.grant} \ {0}) ELSE revived
    /\ Finish(c)
    /\ UNCHANGED <<connection, issued, revoked, refresh>>

Next ==
    \/ \E c \in Clients : \/ Callback(c) \/ Exchange(c) \/ Write(c) \/ Cut(c)
                          \/ Disconnect(c) \/ Revoke(c) \/ Purge(c)
    \/ ListExpiring \/ RefreshTokens \/ UpdateTokens \/ RefreshFails

Spec == Init /\ [][Next]_vars

-----------------------------------------------------------------------------
\* The document, grants and handlers have their types.
TypeOK ==
    /\ connection \in Connection
    /\ issued \in 0..MaxGrants
    /\ revoked \subseteq Grants
    /\ handler \in [Clients -> Handler]
    /\ refresh \in Refresh
    /\ excused \subseteq Grants
    /\ revived \subseteq Grants

\* Of every grant the program was given, it still has the tokens, or a handler
\* is about to store them, or it has told the provider to revoke it: no sequence
\* of callbacks and disconnects loses a grant that stays valid.  Excepted is
\* what the provider would not revoke, what a restart or the unique index cost
\* a callback, and what a handler wrote over that had read the document before
\* the grant was in it (complete_connection and disconnect).
GrantsAccounted ==
    \A g \in 1..issued \ excused :
      \/ connection.grant = g
      \/ g \in revoked
      \/ \E c \in Clients : handler[c].grant = g

\* A disconnected document holds no tokens, and a connected one none that the
\* provider was told to revoke, unless a disconnect is about to purge them.
\* Excepted are tokens of a disconnect that was cut off, and those that a
\* refresh wrote after the document had lost them (update_tokens).
ConnectedIsValid ==
    IF connection.status = "connected"
    THEN \/ connection.grant \in (1..issued \ revoked) \cup revived
         \/ \E c \in Clients : /\ handler[c].pc = "purge"
                               /\ handler[c].read.grant = connection.grant
    ELSE connection.grant = 0

\* What a disconnect is for: a grant that the provider was told to revoke and
\* the program has purged does not come back.  A refresh of tokens that
\* overlaps the disconnect brings it back (integration_tasks.py:195).
PurgedStaysPurged ==
    [][\A g \in revoked : connection'.grant = g => connection.grant = g]_vars
=============================================================================
