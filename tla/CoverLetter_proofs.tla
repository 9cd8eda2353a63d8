------------------------- MODULE CoverLetter_proofs -------------------------
(***************************************************************************)
(* Proofs about CoverLetter, for any tabs, threads and texts.              *)
(***************************************************************************)
EXTENDS CoverLetter, FiniteSetTheorems, TLAPS

\* A checkpoint at human_review or at END holds a draft.
DraftBeforeReview ==
    \A t \in Threads :
      checkpoint[t].next \in {"human_review", "END"} => checkpoint[t].draft \in Texts

\* What a tab shows was presented for the thread it is on.
ShownIsSeen(c) ==
    tab[c].shown # NoText => <<tab[c].thread, tab[c].shown>> \in seen

\* A stream or review handler works on a thread; one that carries a
\* decision works on a thread of which the user has seen a draft; one whose
\* run is at human_review, at END or beyond has a draft to record.
HandlerOK(c) ==
    LET h == handler[c]
    IN  /\ h.pc = "idle" => h = NoHandler
        /\ h.pc \notin {"idle", "create"} => /\ tab[c].thread \in Threads
                                             /\ h.kind \in Decisions \cup {"stream"}
        /\ h.kind \in Decisions => \E x \in Texts : <<tab[c].thread, x>> \in seen
        /\ h.answer # "none" => h.kind \in Decisions
        /\ h.pc = "run" /\ h.node \in {"human_review", "END"} => h.draft \in Texts
        /\ h.pc \in {"latest", "update"} => h.draft \in Texts
        /\ h.pc = "update" => h.target \in Threads

IInv ==
    /\ TypeOK
    /\ DraftBeforeReview
    /\ EndWasPresented
    /\ \A c \in Clients : ShownIsSeen(c) /\ HandlerOK(c)

\* Nothing is there, nothing is running.
LEMMA InitEstablishes == Init => IInv
<1> SUFFICES ASSUME Init PROVE IInv
  OBVIOUS
<1>1. TypeOK
  BY TextsAssumption DEF Init, TypeOK, Letter, Checkpoint, Tab, Handler, NoHandler
<1>2. DraftBeforeReview /\ EndWasPresented
  BY DEF Init, DraftBeforeReview, EndWasPresented
<1>3. ASSUME NEW c \in Clients PROVE ShownIsSeen(c) /\ HandlerOK(c)
  BY DEF Init, ShownIsSeen, HandlerOK, NoHandler, Decisions
<1>4. QED
  BY <1>1, <1>2, <1>3 DEF IInv

\* A step that changes at most the tab and the handler of one client.
LEMMA ClientStep ==
    ASSUME IInv, NEW c \in Clients, NEW p \in Tab, NEW h \in Handler,
           tab' = [tab EXCEPT ![c] = p],
           handler' = [handler EXCEPT ![c] = h],
           version' \in [Threads -> Nat],
           UNCHANGED <<letter, checkpoint>>,
           seen \subseteq seen', seen' \subseteq Threads \X Texts,
           ShownIsSeen(c)', HandlerOK(c)'
    PROVE  IInv'
<1>1. TypeOK'
  BY DEF IInv, TypeOK
<1>2. DraftBeforeReview' /\ EndWasPresented'
  BY DEF IInv, DraftBeforeReview, EndWasPresented
<1>3. ASSUME NEW d \in Clients PROVE ShownIsSeen(d)' /\ HandlerOK(d)'
  <2>1. CASE d = c
    BY <2>1
  <2>2. CASE d # c
    <3>1. tab'[d] = tab[d] /\ handler'[d] = handler[d]
      BY <2>2 DEF IInv, TypeOK
    <3>2. ShownIsSeen(d) /\ HandlerOK(d)
      BY DEF IInv
    <3>3. QED
      BY <3>1, <3>2 DEF ShownIsSeen, HandlerOK
  <2>3. QED
    BY <2>1, <2>2
<1>4. QED
  BY <1>1, <1>2, <1>3 DEF IInv

\* A step that also saves a checkpoint of the client's thread.
LEMMA CheckpointStep ==
    ASSUME IInv, NEW c \in Clients, NEW h \in Handler, NEW cp \in Checkpoint,
           handler' = [handler EXCEPT ![c] = h],
           checkpoint' = [checkpoint EXCEPT ![tab[c].thread] = cp],
           UNCHANGED <<version, letter, tab, seen>>,
           HandlerOK(c)',
           cp.next \in {"human_review", "END"} => cp.draft \in Texts,
           cp.next = "END" => \E x \in Texts : <<tab[c].thread, x>> \in seen
    PROVE  IInv'
<1>1. TypeOK'
  BY DEF IInv, TypeOK
<1>3. ASSUME NEW t \in Threads
      PROVE  \/ checkpoint'[t] = checkpoint[t]
             \/ checkpoint'[t] = cp /\ t = tab[c].thread
  BY DEF IInv, TypeOK
<1>4. DraftBeforeReview'
  BY <1>3 DEF IInv, DraftBeforeReview
<1>5. EndWasPresented'
  BY <1>3 DEF IInv, EndWasPresented
<1>6. ASSUME NEW d \in Clients PROVE ShownIsSeen(d)' /\ HandlerOK(d)'
  <2>1. ShownIsSeen(d)'
    BY DEF IInv, ShownIsSeen
  <2>2. CASE d = c
    BY <2>1, <2>2
  <2>3. CASE d # c
    <3>1. handler'[d] = handler[d]
      BY <2>3 DEF IInv, TypeOK
    <3>2. HandlerOK(d)
      BY DEF IInv
    <3>3. QED
      BY <2>1, <3>1, <3>2 DEF HandlerOK
  <2>4. QED
    BY <2>2, <2>3
<1>7. QED
  BY <1>1, <1>4, <1>5, <1>6 DEF IInv

\* The types of one client's records.
LEMMA ClientTypes ==
    ASSUME IInv, NEW c \in Clients
    PROVE  /\ tab[c] \in Tab /\ handler[c] \in Handler
           /\ tab = [tab EXCEPT ![c] = tab[c]]
           /\ handler = [handler EXCEPT ![c] = handler[c]]
           /\ ShownIsSeen(c) /\ HandlerOK(c)
           /\ version \in [Threads -> Nat] /\ seen \subseteq Threads \X Texts
           /\ NoHandler \in Handler
BY DEF IInv, TypeOK, Handler, NoHandler

\* A client whose handler is gone needs nothing.
LEMMA IdleIsOK ==
    ASSUME NEW c, handler'[c] = NoHandler
    PROVE  HandlerOK(c)'
BY DEF HandlerOK, NoHandler, Decisions

\* The start route touches no checkpoint and no letter.
LEMMA StartPreserves ==
    ASSUME IInv, NEW c \in Clients,
           \/ StartBlocked(c) \/ StartAccepted(c) \/ StartRefused(c) \/ StartCreates(c)
    PROVE  IInv'
<1> USE ClientTypes
<1>1. CASE StartBlocked(c)
  <2>1. PICK t \in Threads : tab' = [tab EXCEPT ![c] = [thread |-> t, shown |-> NoText]]
    BY <1>1 DEF StartBlocked
  <2>2. handler'[c] = NoHandler
    BY <1>1 DEF StartBlocked, Idle, HandlerOK
  <2>3. ShownIsSeen(c)' /\ HandlerOK(c)'
    BY <2>1, <2>2, IdleIsOK DEF ShownIsSeen, IInv, TypeOK
  <2>4. QED
    BY <1>1, <2>1, <2>3, ClientStep DEF StartBlocked, Tab
<1>2. CASE StartAccepted(c)
  <2> DEFINE h == [handler[c] EXCEPT !.pc = "create", !.kind = "start"]
  <2>1. handler' = [handler EXCEPT ![c] = h] /\ h \in Handler
    BY <1>2, ZenonT(40) DEF StartAccepted, Handler
  <2>2. handler'[c] = h /\ h.pc = "create" /\ h.kind = "start" /\ h.answer = "none"
    BY <1>2, <2>1 DEF StartAccepted, Idle, HandlerOK, NoHandler, Handler, IInv, TypeOK
  <2>3. ShownIsSeen(c)' /\ HandlerOK(c)'
    BY <1>2, <2>2 DEF StartAccepted, ShownIsSeen, HandlerOK, Decisions
  <2>4. QED
    BY <1>2, <2>1, <2>3, ClientStep DEF StartAccepted
<1>3. CASE StartRefused(c)
  <2>1. ShownIsSeen(c)' /\ HandlerOK(c)'
    BY <1>3, IdleIsOK DEF StartRefused, Finish, ShownIsSeen, IInv, TypeOK
  <2>2. QED
    BY <1>3, <2>1, ClientStep DEF StartRefused, Finish
<1>4. CASE StartCreates(c)
  <2>1. PICK t \in Threads :
          /\ Ledger!Create(t)
          /\ tab' = [tab EXCEPT ![c] = [thread |-> t, shown |-> NoText]]
    BY <1>4 DEF StartCreates
  <2>2. version' \in [Threads -> Nat]
    <3>1. Ledger!Cardinality(Ledger!Documents) \in Nat
      <4>1. Ledger!Documents \in SUBSET Threads
        BY DEF Ledger!Documents
      <4>2. Cardinality(Ledger!Documents) \in Nat
        BY <4>1, ThreadsAssumption, FS_Subset, FS_CardinalityType
      <4>3. QED
        BY <4>2 DEF Ledger!Cardinality, Cardinality
    <3>2. QED
      BY <2>1, <3>1 DEF Ledger!Create
  <2>3. ShownIsSeen(c)' /\ HandlerOK(c)'
    BY <1>4, <2>1, IdleIsOK DEF StartCreates, Finish, ShownIsSeen, IInv, TypeOK
  <2>4. QED
    BY <1>4, <2>1, <2>2, <2>3, ClientStep DEF StartCreates, Finish, Tab
<1>5. QED
  BY <1>1, <1>2, <1>3, <1>4

\* Presenting a checkpoint's or a run's draft, or taking it off the screen.
LEMMA StreamPreserves ==
    ASSUME IInv, NEW c \in Clients, OpenStream(c)
    PROVE  IInv'
<1> USE ClientTypes
<1> DEFINE t == tab[c].thread
           cleared == [tab[c] EXCEPT !.shown = NoText]
<1>1. t \in Threads /\ handler[c] = NoHandler /\ cleared \in Tab
  BY DEF OpenStream, StreamCompleted, StreamAwaitsReview, StreamInFlight, StreamFresh,
         CanRequest, Idle, HandlerOK, Tab
<1>2. CASE StreamCompleted(c)
  <2>1. tab' = [tab EXCEPT ![c] = cleared]
    BY <1>2 DEF StreamCompleted, ClearScreen
  <2>2. ShownIsSeen(c)' /\ HandlerOK(c)'
    BY <1>1, <1>2, <2>1, IdleIsOK DEF StreamCompleted, ShownIsSeen, Tab, IInv, TypeOK
  <2>3. QED
    BY <1>1, <1>2, <2>1, <2>2, ClientStep DEF StreamCompleted
<1>3. CASE StreamAwaitsReview(c)
  <2> DEFINE x == checkpoint[t].draft
             p == [tab[c] EXCEPT !.shown = x]
  <2>1. x \in Texts
    BY <1>1, <1>3 DEF StreamAwaitsReview, Snapshot, IInv, DraftBeforeReview
  <2>2. /\ tab' = [tab EXCEPT ![c] = p] /\ p \in Tab
        /\ seen' = seen \cup {<<t, x>>}
        /\ seen' \subseteq Threads \X Texts
    BY <1>1, <1>3, <2>1 DEF StreamAwaitsReview, Show, Snapshot, Tab
  <2>3. ShownIsSeen(c)' /\ HandlerOK(c)'
    BY <1>1, <1>3, <2>2, IdleIsOK DEF StreamAwaitsReview, ShownIsSeen, Tab, IInv, TypeOK
  <2> HIDE DEF p
  <2>4. QED
    BY <1>3, <2>2, <2>3, ClientStep DEF StreamAwaitsReview
<1>4. CASE StreamInFlight(c) \/ StreamFresh(c)
  <2> DEFINE pc == IF StreamInFlight(c) THEN "load" ELSE "fresh"
             h  == [handler[c] EXCEPT !.pc = pc, !.kind = "stream"]
  <2>1. /\ handler' = [handler EXCEPT ![c] = h]
        /\ tab' = [tab EXCEPT ![c] = cleared]
        /\ UNCHANGED <<version, letter, checkpoint, seen>>
    BY <1>4, ZenonT(40) DEF StreamInFlight, StreamFresh, ClearScreen
  <2>2. h \in Handler /\ h.pc \in {"load", "fresh"} /\ h.kind = "stream" /\ h.answer = "none"
    <3>1. pc \in {"load", "fresh"}
      OBVIOUS
    <3>2. h \in Handler
      BY <3>1, ZenonT(40) DEF Handler
    <3>3. h.pc = pc /\ h.kind = "stream" /\ h.answer = handler[c].answer
      BY DEF Handler
    <3>4. QED
      BY <1>1, <3>1, <3>2, <3>3 DEF NoHandler
  <2>3. handler'[c] = h /\ tab'[c] = cleared
    BY <2>1 DEF IInv, TypeOK
  <2>4. ShownIsSeen(c)' /\ HandlerOK(c)'
    BY <1>1, <2>2, <2>3 DEF ShownIsSeen, HandlerOK, Decisions, Tab
  <2> HIDE DEF h
  <2>5. QED
    BY <1>1, <2>1, <2>2, <2>4, ClientStep
<1>5. QED
  BY <1>2, <1>3, <1>4 DEF OpenStream

\* A decision is taken only in a tab that shows a draft.
LEMMA ReviewPreserves ==
    ASSUME IInv, NEW c \in Clients,
           ReviewRefused(c) \/ \E decision \in Decisions : Review(c, decision)
    PROVE  IInv'
<1> USE ClientTypes
<1> DEFINE cleared == [tab[c] EXCEPT !.shown = NoText]
<1>1. tab[c].thread \in Threads /\ handler[c] = NoHandler /\ cleared \in Tab
  BY DEF Review, ReviewRefused, CanRequest, Idle, HandlerOK, Tab
<1>2. CASE ReviewRefused(c)
  <2>1. tab' = [tab EXCEPT ![c] = cleared]
    BY <1>2 DEF ReviewRefused, ClearScreen
  <2>2. ShownIsSeen(c)' /\ HandlerOK(c)'
    BY <1>1, <1>2, <2>1, IdleIsOK DEF ReviewRefused, ShownIsSeen, Tab, IInv, TypeOK
  <2>3. QED
    BY <1>1, <1>2, <2>1, <2>2, ClientStep DEF ReviewRefused
<1>3. ASSUME NEW decision \in Decisions, Review(c, decision) PROVE IInv'
  <2> DEFINE h == [handler[c] EXCEPT !.pc = "load", !.kind = decision]
  <2>1. handler' = [handler EXCEPT ![c] = h] /\ handler'[c] = h
    BY <1>3 DEF Review, IInv, TypeOK
  <2>2. h \in Handler /\ h.pc = "load" /\ h.kind = decision /\ h.answer = "none"
    <3>1. h \in Handler
      BY ZenonT(40) DEF Handler, Decisions
    <3>2. h.pc = "load" /\ h.kind = decision /\ h.answer = handler[c].answer
      BY DEF Handler
    <3>3. QED
      BY <1>1, <3>1, <3>2 DEF NoHandler
  <2>3. \E x \in Texts : <<tab[c].thread, x>> \in seen
    BY <1>3 DEF Review, ShownIsSeen, Tab
  <2>4. UNCHANGED <<version, letter, checkpoint, tab, seen>>
    BY <1>3 DEF Review
  <2>5. ShownIsSeen(c)' /\ HandlerOK(c)'
    BY <1>1, <2>1, <2>2, <2>3, <2>4 DEF ShownIsSeen, HandlerOK
  <2> HIDE DEF h
  <2>6. QED
    BY <2>1, <2>2, <2>4, <2>5, ClientStep
<1>4. QED
  BY <1>2, <1>3

\* A step that changes only one handler.
LEMMA HandlerStep ==
    ASSUME IInv, NEW c \in Clients, NEW h \in Handler,
           handler' = [handler EXCEPT ![c] = h],
           UNCHANGED <<version, letter, checkpoint, tab, seen>>,
           handler'[c] = h => HandlerOK(c)'
    PROVE  IInv'
<1>1. handler'[c] = h
  BY DEF IInv, TypeOK
<1>2. ShownIsSeen(c)'
  BY ClientTypes DEF ShownIsSeen
<1>3. QED
  BY <1>1, <1>2, ClientStep, ClientTypes

\* Steps that end a request: a failed node, a lost connection.
LEMMA EndPreserves ==
    ASSUME IInv, NEW c \in Clients, NodeRaises(c) \/ Disconnect(c)
    PROVE  IInv'
BY HandlerStep, IdleIsOK, ClientTypes DEF NodeRaises, Disconnect, Finish

\* Loading a checkpoint gives the run a state it may be in.
LEMMA LoadPreserves ==
    ASSUME IInv, NEW c \in Clients, ChooseResume(c) \/ Load(c)
    PROVE  IInv'
<1> USE ClientTypes
<1> DEFINE t == tab[c].thread
<1>1. t \in Threads /\ handler[c].kind \in Decisions \cup {"stream"}
  BY DEF ChooseResume, Load, HandlerOK
<1>2. ASSUME NEW u \in Threads, ChooseResume(c),
             handler' = [handler EXCEPT ![c].pc = "begin", ![c].resume = u]
      PROVE  IInv'
  <2> DEFINE h == [handler[c] EXCEPT !.pc = "begin", !.resume = u]
  <2>1. handler' = [handler EXCEPT ![c] = h] /\ h \in Handler
    BY <1>2, ZenonT(40) DEF Handler
  <2>2. h.pc = "begin" /\ h.kind = handler[c].kind /\ h.answer = handler[c].answer
    BY DEF Handler
  <2>3. UNCHANGED <<version, letter, checkpoint, tab, seen>>
    BY <1>2 DEF ChooseResume
  <2>4. handler'[c] = h => HandlerOK(c)'
    BY <1>1, <2>2, <2>3 DEF HandlerOK
  <2> HIDE DEF h
  <2>5. QED
    BY <2>1, <2>3, <2>4, HandlerStep
<1>3. CASE Load(c)
  <2> DEFINE cp == checkpoint[t]
             answer == IF cp.next = "human_review" /\ handler[c].kind # "stream"
                       THEN handler[c].kind ELSE "none"
             h == [handler[c] EXCEPT !.pc = "run", !.node = cp.next, !.draft = cp.draft,
                                     !.resume = cp.resume, !.answer = answer]
  <2>1. cp \in Checkpoint
    BY <1>1 DEF IInv, TypeOK
  <2>2. answer \in Decisions \cup {"none"} /\ (answer # "none" => handler[c].kind \in Decisions)
    BY <1>1
  <2>4. handler' = [handler EXCEPT ![c] = h]
    BY <1>3, ZenonT(40) DEF Load, Snapshot
  <2> HIDE DEF answer
  <2>5. h \in Handler
    BY <2>1, <2>2, ZenonT(40) DEF Handler, Checkpoint
  <2>6. /\ h.pc = "run" /\ h.kind = handler[c].kind /\ h.answer = answer
        /\ h.node = cp.next /\ h.draft = cp.draft
    BY DEF Handler
  <2>7. UNCHANGED <<version, letter, checkpoint, tab, seen>>
    BY <1>3 DEF Load
  <2>8. cp.next \in {"human_review", "END"} => cp.draft \in Texts
    BY <1>1 DEF IInv, DraftBeforeReview
  <2>9. handler'[c] = h => HandlerOK(c)'
    BY <1>1, <2>1, <2>2, <2>6, <2>7, <2>8 DEF HandlerOK
  <2> HIDE DEF h
  <2>10. QED
    BY <2>4, <2>5, <2>7, <2>9, HandlerStep
<1>4. QED
  BY <1>2, <1>3 DEF ChooseResume

\* A saved checkpoint that reaches human_review or END has the run's draft.
LEMMA AdvancePreserves ==
    ASSUME IInv, NEW c \in Clients, NEW node \in Nodes, NEW draft \in Texts \cup {NoText},
           handler[c].pc = "run", Advance(c, node, draft),
           node \in {"human_review", "END"} => draft \in Texts,
           node = "END" => handler[c].kind \in Decisions
    PROVE  IInv'
<1> USE ClientTypes
<1> DEFINE t == tab[c].thread
           h == [handler[c] EXCEPT !.node = node, !.draft = draft, !.answer = "none"]
           cp == [next |-> node, draft |-> draft, resume |-> handler[c].resume]
<1>1. handler' = [handler EXCEPT ![c] = h] /\ checkpoint' = [checkpoint EXCEPT ![t] = cp]
  BY DEF Advance, Save
<1>2. h \in Handler /\ cp \in Checkpoint
  BY DEF Handler, Checkpoint
<1>3. /\ h.pc = "run" /\ h.kind = handler[c].kind /\ h.answer = "none"
      /\ h.node = node /\ h.draft = draft
  BY DEF Handler
<1>4. UNCHANGED <<version, letter, tab, seen>>
  BY DEF Advance
<1>5. handler'[c] = h
  BY <1>1 DEF IInv, TypeOK
<1>6. HandlerOK(c)'
  BY <1>3, <1>4, <1>5 DEF HandlerOK
<1>7. /\ cp.next \in {"human_review", "END"} => cp.draft \in Texts
      /\ cp.next = "END" => \E x \in Texts : <<t, x>> \in seen
  BY DEF HandlerOK
<1> HIDE DEF h, cp
<1>8. QED
  BY <1>1, <1>2, <1>4, <1>6, <1>7, CheckpointStep

\* The nodes of the graph.
LEMMA NodePreserves ==
    ASSUME IInv, NEW c \in Clients,
           Prepare(c) \/ WriteCoverLetter(c) \/ HumanReview(c)
    PROVE  IInv'
<1> USE ClientTypes
<1>1. handler[c].draft \in Texts \cup {NoText} /\ handler[c].pc = "run"
  BY DEF Prepare, WriteCoverLetter, HumanReview, AtNode, Handler
<1>2. CASE Prepare(c)
  <2>1. PICK node \in {"analyze_requirements", "retrieve_memories"} :
          Advance(c, Successor[node], handler[c].draft)
    BY <1>2 DEF Prepare, WorkNodes
  <2>2. Successor[node] \in {"retrieve_memories", "write_cover_letter"}
    BY DEF Successor
  <2>3. QED
    BY <1>1, <2>1, <2>2, AdvancePreserves DEF Nodes, WorkNodes
<1>3. CASE WriteCoverLetter(c)
  <2>1. PICK x \in Texts : Advance(c, "human_review", x)
    BY <1>3 DEF WriteCoverLetter, Successor
  <2>2. QED
    BY <1>1, <2>1, AdvancePreserves DEF Nodes
<1>4. CASE HumanReview(c)
  <2>1. handler[c].draft \in Texts
    BY <1>1, <1>4 DEF HumanReview, AtNode, HandlerOK
  <2>2. CASE handler[c].answer = "approve" /\ Advance(c, "END", handler[c].draft)
    <3>1. handler[c].kind \in Decisions
      BY <2>2 DEF HandlerOK
    <3>2. QED
      BY <1>1, <2>1, <2>2, <3>1, AdvancePreserves DEF Nodes
  <2>3. CASE Advance(c, "write_cover_letter", handler[c].draft)
    BY <1>1, <2>3, AdvancePreserves DEF Nodes, WorkNodes
  <2>4. QED
    BY <1>4, <2>2, <2>3 DEF HumanReview
<1>5. QED
  BY <1>2, <1>3, <1>4

\* A fresh run saves a checkpoint at the first node.
LEMMA BeginPreserves ==
    ASSUME IInv, NEW c \in Clients, Begin(c)
    PROVE  IInv'
<1> USE ClientTypes
<1> DEFINE t == tab[c].thread
           first == "analyze_requirements"
           draft == checkpoint[t].draft
           h == [handler[c] EXCEPT !.pc = "run", !.node = first, !.draft = draft]
           cp == [next |-> first, draft |-> draft, resume |-> handler[c].resume]
<1>1. t \in Threads /\ handler[c].kind \in Decisions \cup {"stream"}
  BY DEF Begin, HandlerOK
<1>2. draft \in Texts \cup {NoText}
  BY <1>1 DEF IInv, TypeOK, Checkpoint
<1>3. /\ handler' = [handler EXCEPT ![c] = h] /\ checkpoint' = [checkpoint EXCEPT ![t] = cp]
      /\ UNCHANGED <<version, letter, tab, seen>>
  BY DEF Begin, Save, Snapshot
<1> HIDE DEF draft
<1>4. h \in Handler /\ cp \in Checkpoint
  BY <1>2, ZenonT(40) DEF Handler, Checkpoint, Nodes, WorkNodes
<1>5. h.pc = "run" /\ h.kind = handler[c].kind /\ h.answer = handler[c].answer /\ h.node = first
  BY DEF Handler
<1>6. handler'[c] = h
  BY <1>3 DEF IInv, TypeOK
<1>7. HandlerOK(c)'
  BY <1>1, <1>3, <1>5, <1>6 DEF HandlerOK
<1>8. cp.next = first
  OBVIOUS
<1> HIDE DEF h, cp
<1>9. QED
  BY <1>3, <1>4, <1>7, <1>8, CheckpointStep

\* The run is over: the draft is presented, or handed to the review route.
LEMMA ReturnPreserves ==
    ASSUME IInv, NEW c \in Clients,
           Interrupt(c) \/ GraphReturns(c)
    PROVE  IInv'
<1> USE ClientTypes
<1> DEFINE t == tab[c].thread
           x == handler[c].draft
<1>1. /\ t \in Threads /\ x \in Texts
      /\ handler[c].kind \in Decisions \cup {"stream"}
      /\ handler[c].pc = "run"
  BY DEF Interrupt, GraphReturns, AtNode, HandlerOK
<1>2. CASE Interrupt(c) /\ handler[c].kind = "stream"
  <2> DEFINE p == [tab[c] EXCEPT !.shown = x]
  <2>1. /\ tab' = [tab EXCEPT ![c] = p] /\ p \in Tab
        /\ handler' = [handler EXCEPT ![c] = NoHandler]
        /\ seen' = seen \cup {<<t, x>>}
        /\ seen' \subseteq Threads \X Texts
        /\ UNCHANGED <<version, letter, checkpoint>>
    BY <1>1, <1>2 DEF Interrupt, Show, Finish, Tab
  <2>2. ShownIsSeen(c)' /\ HandlerOK(c)'
    BY <2>1, IdleIsOK DEF ShownIsSeen, Tab, IInv, TypeOK
  <2> HIDE DEF p
  <2>3. QED
    BY <2>1, <2>2, ClientStep
<1>3. CASE GraphReturns(c) /\ handler[c].kind = "stream"
  BY <1>3, HandlerStep, IdleIsOK DEF GraphReturns, Finish
<1>4. CASE handler[c].kind # "stream"
  <2> DEFINE h == [handler[c] EXCEPT !.pc = "latest"]
  <2>1. handler' = [handler EXCEPT ![c] = h] /\ h \in Handler
    BY <1>4 DEF Interrupt, GraphReturns, Handler
  <2>2. /\ h.pc = "latest" /\ h.kind = handler[c].kind /\ h.answer = handler[c].answer
        /\ h.draft = x
    BY DEF Handler
  <2>3. UNCHANGED <<version, letter, checkpoint, tab, seen>>
    BY <1>4 DEF Interrupt, GraphReturns
  <2>4. handler'[c] = h => HandlerOK(c)'
    BY <1>1, <2>2, <2>3 DEF HandlerOK
  <2> HIDE DEF h
  <2>5. QED
    BY <2>1, <2>3, <2>4, HandlerStep
<1>5. QED
  BY <1>2, <1>3, <1>4

\* get_latest returns some document.
LEMMA ReadLatestPreserves ==
    ASSUME IInv, NEW c \in Clients, ReadLatest(c)
    PROVE  IInv'
<1> USE ClientTypes
<1>1. PICK u \in Threads :
        handler' = [handler EXCEPT ![c].pc = "update", ![c].target = u]
  BY DEF ReadLatest
<1> DEFINE h == [handler[c] EXCEPT !.pc = "update", !.target = u]
<1>2. handler' = [handler EXCEPT ![c] = h] /\ h \in Handler
  BY <1>1, ZenonT(40) DEF Handler
<1>3. /\ h.pc = "update" /\ h.kind = handler[c].kind /\ h.answer = handler[c].answer
      /\ h.draft = handler[c].draft /\ h.target = u
  BY DEF Handler
<1>4. /\ UNCHANGED <<version, letter, checkpoint, tab, seen>>
      /\ handler[c].pc = "latest"
  BY DEF ReadLatest
<1>5. handler'[c] = h => HandlerOK(c)'
  BY <1>3, <1>4 DEF HandlerOK
<1> HIDE DEF h
<1>6. QED
  BY <1>2, <1>4, <1>5, HandlerStep

\* A decision is recorded in a letter of the same type.
LEMMA RecordPreserves ==
    ASSUME IInv, NEW c \in Clients, RecordApproval(c) \/ RecordRevision(c)
    PROVE  IInv'
<1> USE ClientTypes
<1> DEFINE u == handler[c].target
           p == [tab[c] EXCEPT !.shown = NoText]
<1>1. u \in Threads /\ handler[c].draft \in Texts /\ tab[c].thread \in Threads
  BY DEF RecordApproval, RecordRevision, HandlerOK
<1>2. /\ tab' = [tab EXCEPT ![c] = p] /\ p \in Tab
      /\ handler' = [handler EXCEPT ![c] = NoHandler]
      /\ UNCHANGED <<version, checkpoint, seen>>
  BY DEF RecordApproval, RecordRevision, ClearScreen, Finish, Tab
<1>3. letter' \in [Threads -> Letter]
  <2>1. letter[u] \in Letter /\ Result(handler[c].draft) \in Texts
    BY <1>1, TextsAssumption DEF IInv, TypeOK, Result
  <2>2. CASE RecordApproval(c)
    <3> DEFINE l == [letter[u] EXCEPT !.content = Result(handler[c].draft), !.is_approved = TRUE]
    <3>1. letter' = [letter EXCEPT ![u] = l]
      BY <2>2 DEF RecordApproval
    <3>2. l \in Letter
      BY <2>1 DEF Letter
    <3>3. QED
      BY <1>1, <3>1, <3>2 DEF IInv, TypeOK
  <2>3. CASE RecordRevision(c)
    <3> DEFINE l == [letter[u] EXCEPT !.feedback = tab[c].thread]
    <3>1. letter' = [letter EXCEPT ![u] = l]
      BY <2>3 DEF RecordRevision
    <3>2. l \in Letter
      BY <1>1, <2>1 DEF Letter
    <3>3. QED
      BY <1>1, <3>1, <3>2 DEF IInv, TypeOK
  <2>4. QED
    BY <2>2, <2>3
<1>4. TypeOK'
  BY <1>2, <1>3 DEF IInv, TypeOK
<1>5. DraftBeforeReview' /\ EndWasPresented'
  BY <1>2 DEF IInv, DraftBeforeReview, EndWasPresented
<1>6. ASSUME NEW d \in Clients PROVE ShownIsSeen(d)' /\ HandlerOK(d)'
  <2>1. CASE d = c
    BY <1>2, <2>1, IdleIsOK DEF ShownIsSeen, Tab, IInv, TypeOK
  <2>2. CASE d # c
    BY <1>2, <2>2 DEF ShownIsSeen, HandlerOK, IInv, TypeOK
  <2>3. QED
    BY <2>1, <2>2
<1>7. QED
  BY <1>4, <1>5, <1>6 DEF IInv

\* A restart leaves the stores and the tabs alone.
LEMMA CrashPreserves == IInv /\ Crash => IInv'
<1> SUFFICES ASSUME IInv, Crash PROVE IInv'
  OBVIOUS
<1>1. /\ handler' = [c \in Clients |-> NoHandler]
      /\ UNCHANGED <<version, letter, checkpoint, tab, seen>>
  BY DEF Crash
<1>2. NoHandler \in Handler
  BY DEF Handler, NoHandler
<1>3. TypeOK'
  BY <1>1, <1>2 DEF IInv, TypeOK
<1>4. DraftBeforeReview' /\ EndWasPresented'
  BY <1>1 DEF IInv, DraftBeforeReview, EndWasPresented
<1>5. ASSUME NEW c \in Clients PROVE ShownIsSeen(c)' /\ HandlerOK(c)'
  BY <1>1, IdleIsOK DEF IInv, ShownIsSeen
<1>6. QED
  BY <1>3, <1>4, <1>5 DEF IInv

\* Every step keeps the invariant.
LEMMA NextPreserves == IInv /\ [Next]_vars => IInv'
<1> SUFFICES ASSUME IInv, [Next]_vars PROVE IInv'
  OBVIOUS
<1>1. ASSUME NEW c \in Clients, UserStep(c) PROVE IInv'
  BY <1>1, StartPreserves, StreamPreserves, ReviewPreserves DEF UserStep
<1>2. ASSUME NEW c \in Clients, ServerStep(c) PROVE IInv'
  BY <1>2, StartPreserves, LoadPreserves, BeginPreserves, NodePreserves, ReturnPreserves,
     ReadLatestPreserves, RecordPreserves
  DEF ServerStep
<1>3. ASSUME NEW c \in Clients, NodeRaises(c) \/ Disconnect(c) PROVE IInv'
  BY <1>3, EndPreserves
<1>4. CASE Crash
  BY <1>4, CrashPreserves
<1>5. CASE UNCHANGED vars
  BY <1>5 DEF vars, IInv, TypeOK, DraftBeforeReview, EndWasPresented,
              ShownIsSeen, HandlerOK
<1>6. QED
  BY <1>1, <1>2, <1>3, <1>4, <1>5 DEF Next

\* Every reachable state satisfies the invariant.
LEMMA InvariantHolds == Spec => []IInv
BY InitEstablishes, NextPreserves, PTL DEF Spec

\* Types of documents, checkpoints, tabs and handlers, for any number of tabs.
THEOREM TypeCorrect == Spec => []TypeOK
<1>1. IInv => TypeOK
  BY DEF IInv
<1>2. QED
  BY <1>1, InvariantHolds, PTL

\* However many tabs race and however often the server restarts, a review
\* that gets past the graph has a draft of the writer to save.
THEOREM ReviewsReturnDrafts == Spec => []ReviewReturnsDraft
<1>1. IInv => ReviewReturnsDraft
  BY SentinelAssumption DEF IInv, HandlerOK, ReviewReturnsDraft
<1>2. QED
  BY <1>1, InvariantHolds, PTL

\* No thread completes before a draft of it was presented to the user.
THEOREM CompletionWasReviewed == Spec => []EndWasPresented
<1>1. IInv => EndWasPresented
  BY DEF IInv
<1>2. QED
  BY <1>1, InvariantHolds, PTL

\* With one tab an application has at most one generation in progress.
\* (DocumentVersions says of overlapping starts what is left of this.)
AtMostOneInProgress ==
    \A t, u \in Threads : InProgress(t) /\ InProgress(u) => t = u

\* With one tab nothing can come between the check and the creation.
CheckStillHolds ==
    \A c \in Clients : handler[c].pc = "create" => \A t \in Threads : ~InProgress(t)

\* A letter is never taken back: what is not in progress stays so unless its
\* document is created.
LEMMA ProgressOnlyEnds ==
    ASSUME IInv, Next, version' = version, NEW t \in Threads, InProgress(t)'
    PROVE  InProgress(t)
<1>1. CASE UNCHANGED letter
  BY <1>1 DEF InProgress
<1>2. ASSUME NEW c \in Clients, RecordApproval(c) \/ RecordRevision(c)
      PROVE  InProgress(t)
  <2>1. letter'[t].is_approved = letter[t].is_approved \/ letter'[t].is_approved = TRUE
    BY <1>2 DEF RecordApproval, RecordRevision, IInv, TypeOK, Letter
  <2>2. letter[t].is_approved = FALSE
    BY <2>1 DEF InProgress, IInv, TypeOK, Letter
  <2>3. letter'[t].content = letter[t].content \/ letter'[t].is_approved = TRUE
    BY <1>2 DEF RecordApproval, RecordRevision, IInv, TypeOK, Letter
  <2>4. QED
    BY <2>2, <2>3 DEF InProgress
<1>3. QED
  BY <1>1, <1>2, ZenonT(40)
  DEF Next, UserStep, ServerStep, OpenStream, StartBlocked, StartAccepted, StartRefused,
      StartCreates, StreamCompleted, StreamAwaitsReview, StreamInFlight, StreamFresh,
      ChooseResume, Begin, Review, ReviewRefused, Load, Prepare, WriteCoverLetter, Advance,
      NodeRaises, Interrupt, HumanReview, GraphReturns, ReadLatest, Disconnect, Crash

\* A handler gets to the creation of a document only through the check.
LEMMA OnlyTheCheckAccepts ==
    ASSUME IInv, Next, NEW c \in Clients, handler[c].pc # "create", handler'[c].pc = "create"
    PROVE  StartAccepted(c)
<1> USE DEF IInv, TypeOK, Handler, Finish, NoHandler
<1>1. ASSUME NEW d \in Clients, StartAccepted(d) PROVE StartAccepted(c)
  BY <1>1 DEF StartAccepted
<1>2. ASSUME NEW d \in Clients, UserStep(d), ~StartAccepted(d) PROVE FALSE
  <2>1. ASSUME NEW decision \in Decisions, Review(d, decision) PROVE FALSE
    BY <2>1 DEF Review
  <2>2. QED
    BY <1>2, <2>1 DEF UserStep, OpenStream, StartBlocked, StreamCompleted, StreamAwaitsReview,
                      StreamInFlight, StreamFresh, ReviewRefused
<1>3. ASSUME NEW d \in Clients, StartRefused(d) \/ StartCreates(d) \/ NodeRaises(d) \/ Disconnect(d)
      PROVE  FALSE
  BY <1>3 DEF StartRefused, StartCreates, NodeRaises, Disconnect
<1>4. ASSUME NEW d \in Clients, ChooseResume(d) \/ Begin(d) PROVE FALSE
  BY <1>4 DEF ChooseResume, Begin
<1>5. ASSUME NEW d \in Clients, Load(d) PROVE FALSE
  <2>1. handler'[d].pc = "run" /\ \A e \in Clients \ {d} : handler'[e] = handler[e]
    BY <1>5 DEF Load
  <2>2. QED
    BY <2>1
<1>6. ASSUME NEW d \in Clients, Prepare(d) \/ WriteCoverLetter(d) \/ HumanReview(d) PROVE FALSE
  <2>1. ASSUME NEW node, NEW next, NEW draft, AtNode(d, node), Advance(d, next, draft)
        PROVE  FALSE
    <3>1. handler[d].pc = "run"
      BY <2>1 DEF AtNode
    <3>2. handler'[d].pc = "run" /\ \A e \in Clients \ {d} : handler'[e] = handler[e]
      BY <2>1, <3>1 DEF Advance
    <3>3. QED
      BY <3>2
  <2>2. QED
    BY <1>6, <2>1 DEF Prepare, WriteCoverLetter, HumanReview
<1>7. ASSUME NEW d \in Clients, Interrupt(d) \/ GraphReturns(d) \/ ReadLatest(d) PROVE FALSE
  BY <1>7 DEF Interrupt, GraphReturns, ReadLatest
<1>8. ASSUME NEW d \in Clients, RecordApproval(d) \/ RecordRevision(d) PROVE FALSE
  BY <1>8 DEF RecordApproval, RecordRevision
<1>9. ~Crash
  BY DEF Crash
<1>10. QED
  BY <1>1, <1>2, <1>3, <1>4, <1>5, <1>6, <1>7, <1>8, <1>9 DEF Next, ServerStep

\* Only a start adds a document.
LEMMA OnlyCreationsAdd ==
    ASSUME Next
    PROVE  version' = version \/ \E c \in Clients : StartCreates(c)
BY ZenonT(40)
DEF Next, UserStep, ServerStep, OpenStream, StartBlocked, StartAccepted, StartRefused,
    StreamCompleted, StreamAwaitsReview, StreamInFlight, StreamFresh, ChooseResume,
    Begin, Review, ReviewRefused, Load, Prepare, WriteCoverLetter, Advance, NodeRaises,
    Interrupt, HumanReview, GraphReturns, ReadLatest, RecordApproval, RecordRevision,
    Disconnect, Crash

\* With one tab the duplicate detection is atomic: no step comes between the
\* check and the creation.
LEMMA CheckIsAtomic ==
    ASSUME \A c, d \in Clients : c = d,
           IInv, AtMostOneInProgress, CheckStillHolds, [Next]_vars
    PROVE  AtMostOneInProgress' /\ CheckStillHolds'
<1>1. ASSUME NEW c \in Clients, StartCreates(c)
      PROVE  AtMostOneInProgress' /\ CheckStillHolds'
  <2>1. PICK t \in Threads : Ledger!Create(t)
    BY <1>1 DEF StartCreates
  <2>2. \A u \in Threads \ {t} : version'[u] = version[u] /\ letter'[u] = letter[u]
    BY <1>1, <2>1 DEF StartCreates, Ledger!Create, IInv, TypeOK
  <2>3. \A u \in Threads \ {t} : ~InProgress(u)'
    BY <1>1, <2>2 DEF StartCreates, CheckStillHolds, InProgress
  <2>4. \A d \in Clients : handler'[d].pc = "idle"
    BY <1>1 DEF StartCreates, Finish, NoHandler, IInv, TypeOK
  <2>5. QED
    BY <2>3, <2>4 DEF AtMostOneInProgress, CheckStillHolds
<1>2. CASE Next /\ version' = version
  <2>1. AtMostOneInProgress'
    BY <1>2, ProgressOnlyEnds DEF AtMostOneInProgress
  <2>2. ASSUME NEW c \in Clients, handler'[c].pc = "create"
        PROVE  \A t \in Threads : ~InProgress(t)
    <3>1. CASE handler[c].pc = "create"
      BY <3>1 DEF CheckStillHolds
    <3>2. CASE handler[c].pc # "create"
      BY <1>2, <2>2, <3>2, OnlyTheCheckAccepts DEF StartAccepted
    <3>3. QED
      BY <3>1, <3>2
  <2>3. CheckStillHolds'
    BY <1>2, <2>2, ProgressOnlyEnds DEF CheckStillHolds
  <2>4. QED
    BY <2>1, <2>3
<1>3. CASE UNCHANGED vars
  BY <1>3 DEF vars, AtMostOneInProgress, CheckStillHolds, InProgress
<1>4. QED
  BY <1>1, <1>2, <1>3, OnlyCreationsAdd

\* A user with one tab never has two generations in progress.
LEMMA OneTabOneGeneration ==
    ASSUME \A c, d \in Clients : c = d
    PROVE  Spec => []AtMostOneInProgress
<1> DEFINE Inv == AtMostOneInProgress /\ CheckStillHolds
<1>1. Init => Inv
  BY DEF Init, AtMostOneInProgress, CheckStillHolds, InProgress, NoHandler
<1>2. IInv /\ Inv /\ [Next]_vars => Inv'
  BY CheckIsAtomic
<1>3. QED
  BY <1>1, <1>2, InvariantHolds, PTL DEF Spec

-----------------------------------------------------------------------------
\* The resume of a generation

\* The n-th document has version n, as DocumentVersions shows of the retries:
\* versions are distinct, and none is above the number of documents.
LedgerCounts ==
    /\ \A t \in Threads : version[t] <= Cardinality(Ledger!Documents)
    /\ \A t, u \in Ledger!Documents : version[t] = version[u] => t = u

\* What get_in_progress_for_application finds is what get_latest returns.
InProgressIsLatest == \A t \in Threads : InProgress(t) => Ledger!IsLatest(t)

\* A tab is on the latest document; its handler runs on the resume of the
\* tab's thread, and continues a run only where there is a checkpoint.
TabOnLatest(c) ==
    /\ tab[c].thread # NoThread => Ledger!IsLatest(tab[c].thread)
    /\ handler[c].pc \in {"begin", "run"} => handler[c].resume = tab[c].thread
    /\ handler[c].pc = "load" => checkpoint[tab[c].thread].next # "none"

\* What one tab keeps of the documents.
LatestInv == AtMostOneInProgress /\ CheckStillHolds /\ LedgerCounts /\ InProgressIsLatest

\* What one tab keeps of its runs and their checkpoints.
OwnInv == ResumeIsOwn /\ \A c \in Clients : TabOnLatest(c)

\* The new document is the latest, and the versions still count.
LEMMA CreatedIsLatest ==
    ASSUME IInv, LedgerCounts, NEW t \in Threads, Ledger!Create(t)
    PROVE  LedgerCounts' /\ Ledger!IsLatest(t)'
<1> DEFINE n == Cardinality(Ledger!Documents)
<1>1. Ledger!Documents \in SUBSET Threads /\ t \notin Ledger!Documents
  BY DEF Ledger!Documents, Ledger!Create
<1>2. IsFiniteSet(Ledger!Documents) /\ n \in Nat
  BY <1>1, ThreadsAssumption, FS_Subset, FS_CardinalityType
<1>3. version' = [version EXCEPT ![t] = n + 1]
  BY DEF Ledger!Create, Ledger!Cardinality, Cardinality
<1>4. /\ version'[t] = n + 1
      /\ \A u \in Threads \ {t} : version'[u] = version[u]
      /\ \A u \in Threads : version[u] \in Nat /\ version[u] <= n
  BY <1>3 DEF IInv, TypeOK, LedgerCounts
<1>5. Ledger!Documents' = Ledger!Documents \cup {t}
  BY <1>2, <1>4 DEF Ledger!Documents
<1>6. Cardinality(Ledger!Documents') = n + 1
  BY <1>1, <1>2, <1>5, FS_AddElement
<1>7. LedgerCounts'
  <2>1. \A u \in Threads : version'[u] <= n + 1
    BY <1>2, <1>4
  <2>2. \A u, w \in Ledger!Documents' : version'[u] = version'[w] => u = w
    BY <1>1, <1>2, <1>4, <1>5 DEF LedgerCounts
  <2>3. QED
    BY <1>6, <2>1, <2>2 DEF LedgerCounts
<1>8. Ledger!IsLatest(t)'
  <2>1. \A u \in Ledger!Documents' : version'[u] <= version'[t]
    BY <1>1, <1>2, <1>4, <1>5
  <2>2. QED
    BY <1>5, <2>1 DEF Ledger!IsLatest
<1>9. QED
  BY <1>7, <1>8

\* There is one latest document.
LEMMA LatestIsOne ==
    ASSUME IInv, LedgerCounts, NEW t, NEW u, Ledger!IsLatest(t), Ledger!IsLatest(u)
    PROVE  t = u
<1>1. /\ t \in Ledger!Documents /\ u \in Ledger!Documents
      /\ version[t] <= version[u] /\ version[u] <= version[t]
  BY DEF Ledger!IsLatest
<1>2. version[t] \in Nat /\ version[u] \in Nat
  BY <1>1 DEF Ledger!Documents, IInv, TypeOK
<1>3. version[t] = version[u]
  BY <1>1, <1>2
<1>4. QED
  BY <1>1, <1>3 DEF LedgerCounts

\* The documents of one tab: at most one is in progress, and it is the latest.
LEMMA LatestPreserved ==
    ASSUME \A c, d \in Clients : c = d, IInv, LatestInv, [Next]_vars
    PROVE  LatestInv'
<1>1. AtMostOneInProgress' /\ CheckStillHolds'
  BY CheckIsAtomic DEF LatestInv
<1>2. CASE version' = version
  <2>1. LedgerCounts'
    BY <1>2 DEF LatestInv, LedgerCounts, Ledger!Documents
  <2>2. ASSUME NEW t \in Threads, InProgress(t)' PROVE Ledger!IsLatest(t)'
    <3>1. InProgress(t)
      BY <1>2, <2>2, ProgressOnlyEnds DEF vars, InProgress
    <3>2. Ledger!IsLatest(t)
      BY <3>1 DEF LatestInv, InProgressIsLatest
    <3>3. QED
      BY <1>2, <3>2 DEF Ledger!IsLatest, Ledger!Documents
  <2>3. QED
    BY <1>1, <2>1, <2>2 DEF LatestInv, InProgressIsLatest
<1>3. ASSUME NEW c \in Clients, StartCreates(c) PROVE LatestInv'
  <2>1. PICK t \in Threads : Ledger!Create(t)
    BY <1>3 DEF StartCreates
  <2>2. LedgerCounts' /\ Ledger!IsLatest(t)'
    BY <2>1, CreatedIsLatest DEF LatestInv
  <2>3. \A u \in Threads \ {t} : version'[u] = version[u] /\ letter'[u] = letter[u]
    BY <1>3, <2>1 DEF StartCreates, Ledger!Create, IInv, TypeOK
  <2>4. \A u \in Threads \ {t} : ~InProgress(u)'
    BY <1>3, <2>3 DEF StartCreates, LatestInv, CheckStillHolds, InProgress
  <2>5. QED
    BY <1>1, <2>2, <2>4 DEF LatestInv, InProgressIsLatest
<1>4. QED
  BY <1>2, <1>3, OnlyCreationsAdd DEF vars

\* A step that leaves the only tab on its thread, and no document is added.
LEMMA StaysOnLatest ==
    ASSUME IInv, LatestInv, OwnInv, NEW c \in Clients, \A d \in Clients : d = c,
           version' = version, tab'[c].thread = tab[c].thread,
           ResumeIsOwn',
           handler'[c].pc \in {"begin", "run"} => handler'[c].resume = tab[c].thread,
           handler'[c].pc = "load" => checkpoint'[tab[c].thread].next # "none"
    PROVE  OwnInv'
<1>1. TabOnLatest(c)'
  BY DEF OwnInv, TabOnLatest, Ledger!IsLatest, Ledger!Documents
<1>2. QED
  BY <1>1 DEF OwnInv

\* A step after which no run of the only tab begins or goes on.
LEMMA RunsNothing ==
    ASSUME IInv, LatestInv, OwnInv, NEW c \in Clients, \A d \in Clients : d = c,
           version' = version, tab'[c].thread = tab[c].thread, checkpoint' = checkpoint,
           handler'[c].pc \notin {"load", "begin", "run"}
    PROVE  OwnInv'
BY StaysOnLatest DEF OwnInv, ResumeIsOwn

\* The tab moves to the document that is in progress, or to the one it creates.
LEMMA StartIsOwn ==
    ASSUME IInv, LatestInv, OwnInv, NEW c \in Clients, \A d \in Clients : d = c,
           \/ StartBlocked(c) \/ StartAccepted(c) \/ StartRefused(c) \/ StartCreates(c)
    PROVE  OwnInv'
<1> USE DEF IInv, TypeOK, Tab, Handler
<1>1. CASE StartAccepted(c)
  BY <1>1, RunsNothing DEF StartAccepted
<1>2. CASE StartRefused(c)
  BY <1>2, RunsNothing DEF StartRefused, Finish, NoHandler
<1>3. CASE StartBlocked(c) \/ StartCreates(c)
  <2>1. PICK t \in Threads : tab'[c].thread = t /\ Ledger!IsLatest(t)'
    <3>1. CASE StartBlocked(c)
      <4>1. PICK t \in Threads : InProgress(t) /\ tab'[c].thread = t
        BY <3>1 DEF StartBlocked
      <4>2. Ledger!IsLatest(t)
        BY <4>1 DEF LatestInv, InProgressIsLatest
      <4>3. version' = version
        BY <3>1 DEF StartBlocked
      <4>4. QED
        BY <4>1, <4>2, <4>3 DEF Ledger!IsLatest, Ledger!Documents
    <3>2. CASE StartCreates(c)
      <4>1. PICK t \in Threads : Ledger!Create(t) /\ tab'[c].thread = t
        BY <3>2 DEF StartCreates
      <4>2. Ledger!IsLatest(t)'
        BY <4>1, CreatedIsLatest DEF LatestInv
      <4>3. QED
        BY <4>1, <4>2
    <3>3. QED
      BY <1>3, <3>1, <3>2
  <2>2. handler'[c].pc = "idle" /\ checkpoint' = checkpoint
    BY <1>3 DEF StartBlocked, StartCreates, Idle, Finish, NoHandler
  <2>3. TabOnLatest(c)'
    BY <2>1, <2>2 DEF TabOnLatest
  <2>4. QED
    BY <2>2, <2>3 DEF OwnInv, ResumeIsOwn
<1>4. QED
  BY <1>1, <1>2, <1>3

\* A request on a thread: it ends at once, or continues where a checkpoint is.
LEMMA RequestIsOwn ==
    ASSUME IInv, LatestInv, OwnInv, NEW c \in Clients, \A d \in Clients : d = c,
           \/ OpenStream(c) \/ ReviewRefused(c)
           \/ \E decision \in Decisions : Review(c, decision)
    PROVE  OwnInv'
<1> USE DEF IInv, TypeOK, Tab, Handler
<1>1. CASE StreamCompleted(c) \/ StreamAwaitsReview(c) \/ ReviewRefused(c)
  BY <1>1, RunsNothing
  DEF StreamCompleted, StreamAwaitsReview, ReviewRefused, ClearScreen, Show, CanRequest, Idle
<1>2. CASE StreamFresh(c)
  BY <1>2, RunsNothing DEF StreamFresh, ClearScreen
<1>3. CASE StreamInFlight(c)
  <2>1. /\ handler'[c].pc = "load" /\ checkpoint' = checkpoint /\ version' = version
        /\ tab'[c].thread = tab[c].thread /\ checkpoint[tab[c].thread].next # "none"
    BY <1>3 DEF StreamInFlight, ClearScreen, Snapshot, WorkNodes
  <2>2. ResumeIsOwn'
    BY <2>1 DEF OwnInv, ResumeIsOwn
  <2>3. QED
    BY <2>1, <2>2, StaysOnLatest
<1>4. ASSUME NEW decision \in Decisions, Review(c, decision) PROVE OwnInv'
  <2>1. /\ checkpoint' = checkpoint /\ version' = version
        /\ tab' = tab /\ checkpoint[tab[c].thread].next # "none"
    BY <1>4 DEF Review, Snapshot
  <2>2. handler'[c].pc = "load"
    <3>1. handler' = [handler EXCEPT ![c] = [handler[c] EXCEPT !.pc = "load", !.kind = decision]]
      BY <1>4 DEF Review
    <3>2. handler'[c] = [handler[c] EXCEPT !.pc = "load", !.kind = decision]
      BY <3>1
    <3>3. QED
      BY <3>2
  <2>3. ResumeIsOwn'
    BY <2>1 DEF OwnInv, ResumeIsOwn
  <2>4. QED
    BY <2>1, <2>2, <2>3, StaysOnLatest
<1>5. QED
  BY <1>1, <1>2, <1>3, <1>4 DEF OpenStream

\* get_latest returns the document of the tab, and a loaded checkpoint has
\* the resume of its thread.
LEMMA ChoiceIsOwn ==
    ASSUME IInv, LatestInv, OwnInv, NEW c \in Clients, \A d \in Clients : d = c,
           ChooseResume(c) \/ Load(c)
    PROVE  OwnInv'
<1>1. tab[c].thread \in Threads /\ tab[c].thread # NoThread
  BY SentinelAssumption DEF IInv, HandlerOK, ChooseResume, Load
<1>2. UNCHANGED <<version, checkpoint, tab>>
  BY DEF ChooseResume, Load
<1>3. handler'[c].pc \in {"begin", "run"} /\ handler'[c].resume = tab[c].thread
  <2>1. CASE ChooseResume(c)
    <3>1. PICK t \in Threads : /\ Ledger!IsLatest(t)
                               /\ handler' = [handler EXCEPT ![c].pc = "begin", ![c].resume = t]
      BY <2>1 DEF ChooseResume
    <3>2. t = tab[c].thread
      <4>1. Ledger!IsLatest(tab[c].thread)
        BY <1>1 DEF OwnInv, TabOnLatest
      <4>2. QED
        BY <3>1, <4>1, LatestIsOne DEF LatestInv
    <3>3. QED
      BY <3>1, <3>2 DEF IInv, TypeOK, Handler
  <2>2. CASE Load(c)
    <3>1. checkpoint[tab[c].thread].resume = tab[c].thread
      BY <1>1, <2>2 DEF Load, OwnInv, TabOnLatest, ResumeIsOwn
    <3>2. handler'[c].pc = "run" /\ handler'[c].resume = checkpoint[tab[c].thread].resume
      BY <2>2 DEF Load, Snapshot, IInv, TypeOK, Handler
    <3>3. QED
      BY <3>1, <3>2
  <2>3. QED
    BY <2>1, <2>2
<1>4. ResumeIsOwn'
  BY <1>2 DEF OwnInv, ResumeIsOwn
<1>5. QED
  BY <1>2, <1>3, <1>4, StaysOnLatest

\* What a run saves has the resume of the run.
LEMMA SaveIsOwn ==
    ASSUME IInv, LatestInv, OwnInv, NEW c \in Clients, \A d \in Clients : d = c,
           NEW node, NEW draft,
           handler[c].pc \in {"begin", "run"},
           Save(c, node, draft, handler[c].resume),
           version' = version, tab' = tab,
           handler'[c].pc = "run", handler'[c].resume = handler[c].resume
    PROVE  OwnInv'
<1>1. handler[c].resume = tab[c].thread
  BY DEF OwnInv, TabOnLatest
<1>2. \A t \in Threads : \/ checkpoint'[t] = checkpoint[t]
                         \/ t = tab[c].thread /\ checkpoint'[t].resume = handler[c].resume
  BY DEF Save, IInv, TypeOK
<1>3. ResumeIsOwn'
  BY <1>1, <1>2 DEF OwnInv, ResumeIsOwn
<1>4. QED
  BY <1>1, <1>3, StaysOnLatest

\* The graph's own steps.
LEMMA GraphIsOwn ==
    ASSUME IInv, LatestInv, OwnInv, NEW c \in Clients, \A d \in Clients : d = c,
           Begin(c) \/ Prepare(c) \/ WriteCoverLetter(c) \/ HumanReview(c)
    PROVE  OwnInv'
<1>1. CASE Begin(c)
  <2>1. handler'[c].pc = "run" /\ handler'[c].resume = handler[c].resume
    BY <1>1 DEF Begin, IInv, TypeOK, Handler
  <2>2. /\ Save(c, "analyze_requirements", Snapshot(c).draft, handler[c].resume)
        /\ handler[c].pc = "begin" /\ version' = version /\ tab' = tab
    BY <1>1 DEF Begin
  <2>3. QED
    BY <2>1, <2>2, SaveIsOwn
<1>2. ASSUME NEW node, NEW next, NEW draft, AtNode(c, node), Advance(c, next, draft)
      PROVE  OwnInv'
  <2>1. handler[c].pc = "run"
    BY <1>2 DEF AtNode
  <2>2. handler'[c].pc = "run" /\ handler'[c].resume = handler[c].resume
    BY <1>2, <2>1 DEF Advance, IInv, TypeOK, Handler
  <2>3. Save(c, next, draft, handler[c].resume) /\ version' = version /\ tab' = tab
    BY <1>2 DEF Advance
  <2>4. QED
    BY <2>1, <2>2, <2>3, SaveIsOwn
<1>3. QED
  BY <1>1, <1>2 DEF Prepare, WriteCoverLetter, HumanReview

\* The rest of a review, and the ends of a request.
LEMMA EndIsOwn ==
    ASSUME IInv, LatestInv, OwnInv, NEW c \in Clients, \A d \in Clients : d = c,
           \/ Interrupt(c) \/ GraphReturns(c) \/ ReadLatest(c)
           \/ RecordApproval(c) \/ RecordRevision(c)
           \/ NodeRaises(c) \/ Disconnect(c) \/ Crash
    PROVE  OwnInv'
<1> USE DEF IInv, TypeOK, Tab, Handler, Finish, NoHandler
<1>1. handler'[c].pc \notin {"load", "begin", "run"}
  <2>1. CASE Interrupt(c) \/ GraphReturns(c) \/ ReadLatest(c)
    BY <2>1 DEF Interrupt, GraphReturns, ReadLatest
  <2>2. CASE RecordApproval(c) \/ RecordRevision(c) \/ NodeRaises(c) \/ Disconnect(c) \/ Crash
    BY <2>2 DEF RecordApproval, RecordRevision, NodeRaises, Disconnect, Crash
  <2>3. QED
    BY <2>1, <2>2
<1>2. tab'[c].thread = tab[c].thread
  BY DEF Interrupt, GraphReturns, ReadLatest, RecordApproval, RecordRevision, NodeRaises,
         Disconnect, Crash, Show, ClearScreen
<1>3. version' = version /\ checkpoint' = checkpoint
  BY DEF Interrupt, GraphReturns, ReadLatest, RecordApproval, RecordRevision, NodeRaises,
         Disconnect, Crash
<1>4. QED
  BY <1>1, <1>2, <1>3, RunsNothing

\* The only tab stays on the latest document, restarts included.
LEMMA OneTabOnLatest ==
    ASSUME \A c, d \in Clients : c = d
    PROVE  Spec => [](LatestInv /\ OwnInv)
<1>1. Init => LatestInv /\ OwnInv
  <2> SUFFICES ASSUME Init PROVE LatestInv /\ OwnInv
    OBVIOUS
  <2>1. Ledger!Documents = {} /\ \A t \in Threads : version[t] = 0
    BY DEF Init, Ledger!Documents
  <2>2. LedgerCounts
    BY <2>1, FS_EmptySet DEF LedgerCounts
  <2>3. AtMostOneInProgress /\ CheckStillHolds /\ InProgressIsLatest
    BY <2>1 DEF Init, AtMostOneInProgress, CheckStillHolds, InProgressIsLatest, InProgress, NoHandler
  <2>4. OwnInv
    BY DEF Init, OwnInv, ResumeIsOwn, TabOnLatest, NoHandler
  <2>5. QED
    BY <2>2, <2>3, <2>4 DEF LatestInv
<1>2. IInv /\ LatestInv /\ OwnInv /\ [Next]_vars => LatestInv' /\ OwnInv'
  <2> SUFFICES ASSUME IInv, LatestInv, OwnInv, [Next]_vars PROVE LatestInv' /\ OwnInv'
    OBVIOUS
  <2>1. LatestInv'
    BY LatestPreserved
  <2>2. ASSUME NEW c \in Clients, UserStep(c) \/ ServerStep(c) \/ NodeRaises(c) \/ Disconnect(c)
        PROVE  OwnInv'
    <3>1. \A d \in Clients : d = c
      OBVIOUS
    <3>2. CASE UserStep(c)
      BY <3>1, <3>2, StartIsOwn, RequestIsOwn DEF UserStep
    <3>3. CASE ServerStep(c)
      BY <3>1, <3>3, StartIsOwn, ChoiceIsOwn, GraphIsOwn, EndIsOwn DEF ServerStep
    <3>4. CASE NodeRaises(c) \/ Disconnect(c)
      BY <3>1, <3>4, EndIsOwn
    <3>5. QED
      BY <2>2, <3>2, <3>3, <3>4
  <2>3. CASE Crash
    <3>1. PICK c \in Clients : \A d \in Clients : d = c
      BY <2>3 DEF Crash
    <3>2. QED
      BY <2>1, <2>3, <3>1, EndIsOwn
  <2>4. CASE UNCHANGED vars
    BY <2>1, <2>4 DEF vars, OwnInv, ResumeIsOwn, TabOnLatest, Ledger!IsLatest, Ledger!Documents
  <2>5. QED
    BY <2>1, <2>2, <2>3, <2>4 DEF Next
<1>3. QED
  BY <1>1, <1>2, InvariantHolds, PTL DEF Spec

\* A user with one tab gets each letter written from the resume its document
\* names, although the stream route asks for the latest document and not for
\* the thread's: with one tab the two are the same, crashes included.
THEOREM OneTabOwnResume ==
    ASSUME \A c, d \in Clients : c = d
    PROVE  Spec => []ResumeIsOwn
<1>1. OwnInv => ResumeIsOwn
  BY DEF OwnInv
<1>2. QED
  BY <1>1, OneTabOnLatest, PTL
-----------------------------------------------------------------------------
\* The approval gate of one tab

\* A run is where its thread's checkpoint is, a fresh one has none to lose,
\* and no request works on a thread whose letter is approved.  An approval
\* goes from human_review to END and from there to the tab's own document.
RunOK(c) ==
    LET h  == handler[c]
        cp == checkpoint[tab[c].thread]
    IN  /\ h.pc \notin {"idle", "create"} => ~letter[tab[c].thread].is_approved
        /\ h.pc \in {"fresh", "begin"} => cp.next = "none" /\ h.kind = "stream"
        /\ h.pc = "run" => cp.next = h.node /\ cp.draft = h.draft
        /\ h.kind = "approve" =>
             /\ h.pc = "load" => cp.next = "human_review"
             /\ h.pc = "run" => \/ h.node = "human_review" /\ h.answer = "approve"
                                \/ h.node = "END"
             /\ h.pc \in {"latest", "update"} => cp.next = "END"
        /\ h.pc = "update" => h.target = tab[c].thread

ApprovedIsComplete == \A t \in Threads : letter[t].is_approved => checkpoint[t].next = "END"

RunInv == ApprovedIsComplete /\ \A c \in Clients : RunOK(c)

\* A tab that shows a draft of a thread under review shows the draft under
\* review, and what an approval works on was presented.
ScreenOK(c) ==
    LET h  == handler[c]
        cp == checkpoint[tab[c].thread]
    IN  /\ h.pc \in {"idle", "create"} /\ tab[c].shown # NoText /\ cp.next = "human_review"
          => cp.draft = tab[c].shown
        /\ h.kind = "stream" => tab[c].shown = NoText
        /\ h.kind = "approve" /\ h.pc = "load" => <<tab[c].thread, cp.draft>> \in seen
        /\ h.kind = "approve" /\ h.pc \in {"run", "latest", "update"}
          => <<tab[c].thread, h.draft>> \in seen

ScreenInv == \A c \in Clients : ScreenOK(c)

\* With one tab, what holds of it holds of all.
LEMMA OneTabStep ==
    ASSUME NEW c \in Clients, \A d \in Clients : d = c,
           ApprovedIsComplete', RunOK(c)', ScreenInv => ScreenOK(c)'
    PROVE  RunInv' /\ (ScreenInv => ScreenInv')
BY DEF RunInv, ScreenInv

\* A step that answers a request, or leaves it before the graph.
LEMMA RequestEnds ==
    ASSUME IInv, RunInv, NEW c \in Clients, \A d \in Clients : d = c,
           UNCHANGED <<letter, checkpoint>>,
           handler'[c].pc \in {"idle", "create"}, handler'[c].kind # "stream",
           ScreenInv => LET p == tab'[c] IN
             p.shown # NoText /\ checkpoint[p.thread].next = "human_review"
             => checkpoint[p.thread].draft = p.shown
    PROVE  RunInv' /\ (ScreenInv => ScreenInv')
<1>1. ApprovedIsComplete'
  BY DEF RunInv, ApprovedIsComplete
<1>2. RunOK(c)'
  BY DEF RunOK
<1>3. ScreenInv => ScreenOK(c)'
  BY DEF ScreenOK
<1>4. QED
  BY <1>1, <1>2, <1>3, OneTabStep

\* The handler of a start, and requests that are answered at once.
LEMMA AnsweredAtOnce ==
    ASSUME IInv, RunInv, NEW c \in Clients, \A d \in Clients : d = c,
           \/ StartBlocked(c) \/ StartAccepted(c) \/ StartRefused(c) \/ StartCreates(c)
           \/ StreamCompleted(c) \/ StreamAwaitsReview(c) \/ ReviewRefused(c)
    PROVE  RunInv' /\ (ScreenInv => ScreenInv')
<1> USE DEF IInv, TypeOK, Tab
<1>1. /\ UNCHANGED <<letter, checkpoint>>
      /\ handler[c].pc \in {"idle", "create"}
  BY DEF StartBlocked, StartAccepted, StartRefused, StartCreates, StreamCompleted,
         StreamAwaitsReview, ReviewRefused, CanRequest, Idle
<1>2. handler'[c].pc \in {"idle", "create"} /\ handler'[c].kind # "stream"
  <2>1. CASE StartAccepted(c)
    <3>1. handler'[c] = [handler[c] EXCEPT !.pc = "create", !.kind = "start"]
      BY <2>1 DEF StartAccepted
    <3>2. QED
      BY <3>1 DEF Handler
  <2>2. CASE StartRefused(c) \/ StartCreates(c)
    BY <2>2 DEF StartRefused, StartCreates, Finish, NoHandler
  <2>3. CASE handler' = handler /\ Idle(c)
    <3>1. handler[c] = NoHandler
      BY <2>3 DEF Idle, HandlerOK
    <3>2. QED
      BY <2>3, <3>1 DEF NoHandler
  <2>4. QED
    BY <2>1, <2>2, <2>3 DEF StartBlocked, StreamCompleted, StreamAwaitsReview, ReviewRefused,
                            CanRequest
<1>3. \/ tab'[c].shown = NoText
      \/ tab' = tab
      \/ tab'[c].shown = checkpoint[tab[c].thread].draft /\ tab'[c].thread = tab[c].thread
  <2>1. CASE StartBlocked(c) \/ StartCreates(c) \/ StreamCompleted(c) \/ ReviewRefused(c)
    BY <2>1 DEF StartBlocked, StartCreates, StreamCompleted, ReviewRefused, ClearScreen
  <2>2. CASE StartAccepted(c) \/ StartRefused(c)
    BY <2>2 DEF StartAccepted, StartRefused
  <2>3. CASE StreamAwaitsReview(c)
    BY <2>3 DEF StreamAwaitsReview, Show, Snapshot
  <2>4. QED
    BY <2>1, <2>2, <2>3
<1>4. ScreenInv => LET p == tab'[c] IN
        p.shown # NoText /\ checkpoint[p.thread].next = "human_review"
        => checkpoint[p.thread].draft = p.shown
  BY <1>1, <1>3 DEF ScreenInv, ScreenOK
<1>5. QED
  BY <1>1, <1>2, <1>4, RequestEnds

\* A failed node, a lost connection, and the end of a stream's run.
LEMMA StreamEnds ==
    ASSUME IInv, RunInv, NEW c \in Clients, \A d \in Clients : d = c,
           \/ NodeRaises(c) \/ Disconnect(c)
           \/ handler[c].kind = "stream" /\ (Interrupt(c) \/ GraphReturns(c))
    PROVE  RunInv' /\ (ScreenInv => ScreenInv')
<1>1. UNCHANGED <<letter, checkpoint>> /\ handler' = [handler EXCEPT ![c] = NoHandler]
  BY DEF NodeRaises, Disconnect, Interrupt, GraphReturns, Finish
<1>2. handler'[c].pc = "idle" /\ handler'[c].kind = "none"
  BY <1>1 DEF IInv, TypeOK, NoHandler
<1>3. RunOK(c)
  BY DEF RunInv
<1>4. ScreenInv => LET p == tab'[c] IN
        p.shown # NoText /\ checkpoint[p.thread].next = "human_review"
        => checkpoint[p.thread].draft = p.shown
  <2>1. CASE NodeRaises(c)
    <3>1. tab' = tab /\ checkpoint[tab[c].thread].next \in WorkNodes
      BY <1>3, <2>1 DEF NodeRaises, AtNode, RunOK, WorkNodes
    <3>2. QED
      BY <3>1 DEF WorkNodes
  <2>2. CASE Disconnect(c)
    BY <2>2 DEF Disconnect, ScreenInv, ScreenOK
  <2>3. CASE GraphReturns(c)
    <3>1. tab' = tab /\ checkpoint[tab[c].thread].next = "END"
      BY <1>3, <2>3 DEF GraphReturns, AtNode, RunOK
    <3>2. QED
      BY <3>1
  <2>4. CASE handler[c].kind = "stream" /\ Interrupt(c)
    <3>1. checkpoint[tab[c].thread].draft = handler[c].draft
      BY <1>3, <2>4 DEF Interrupt, AtNode, RunOK
    <3>2. tab'[c].thread = tab[c].thread /\ tab'[c].shown = handler[c].draft
      BY <2>4 DEF Interrupt, Show, IInv, TypeOK, Tab
    <3>3. QED
      BY <3>1, <3>2
  <2>5. QED
    BY <2>1, <2>2, <2>3, <2>4
<1>5. QED
  BY <1>1, <1>2, <1>4, RequestEnds

\* A stream that runs the graph: afresh where nothing is saved, and otherwise
\* on the work that a checkpoint has left.  Neither finds an approved letter.
LEMMA StreamRuns ==
    ASSUME IInv, RunInv, NEW c \in Clients, \A d \in Clients : d = c,
           StreamFresh(c) \/ StreamInFlight(c)
    PROVE  RunInv' /\ (ScreenInv => ScreenInv')
<1> DEFINE t == tab[c].thread
<1>1. PICK pc \in {"fresh", "load"} :
        /\ handler' = [handler EXCEPT ![c].pc = pc, ![c].kind = "stream"]
        /\ pc = "fresh" => checkpoint[t].next = "none"
        /\ checkpoint[t].next # "END"
  BY DEF StreamFresh, StreamInFlight, Snapshot, WorkNodes
<1>2. UNCHANGED <<letter, checkpoint>> /\ tab' = [tab EXCEPT ![c].shown = NoText]
  BY DEF StreamFresh, StreamInFlight, ClearScreen
<1>3. handler[c] \in Handler /\ tab[c] \in Tab
  BY DEF IInv, TypeOK
<1>4. handler'[c] = [handler[c] EXCEPT !.pc = pc, !.kind = "stream"]
  BY <1>1 DEF IInv, TypeOK
<1>5. handler'[c].pc = pc /\ handler'[c].kind = "stream"
  BY <1>3, <1>4 DEF Handler
<1>6. tab'[c].thread = t /\ tab'[c].shown = NoText
  BY <1>2, <1>3 DEF IInv, TypeOK, Tab
<1>7. t \in Threads
  <2>1. t # NoThread
    BY DEF StreamFresh, StreamInFlight, CanRequest
  <2>2. QED
    BY <1>3, <2>1 DEF Tab
<1>8. ~letter[t].is_approved
  BY <1>1, <1>7 DEF RunInv, ApprovedIsComplete
<1>9. ApprovedIsComplete'
  BY <1>2 DEF RunInv, ApprovedIsComplete
<1>10. RunOK(c)'
  BY <1>1, <1>2, <1>5, <1>6, <1>8 DEF RunOK
<1>11. ScreenOK(c)'
  BY <1>1, <1>5, <1>6 DEF ScreenOK
<1>12. QED
  BY <1>9, <1>10, <1>11, OneTabStep

\* A decision is taken on the draft under review, which the tab shows.
LEMMA ReviewRuns ==
    ASSUME IInv, RunInv, NEW c \in Clients, \A d \in Clients : d = c,
           NEW decision \in Decisions, Review(c, decision)
    PROVE  RunInv' /\ (ScreenInv => ScreenInv')
<1> DEFINE t == tab[c].thread
<1>1. /\ UNCHANGED <<letter, checkpoint, tab, seen>>
      /\ tab[c].shown # NoText /\ checkpoint[t].next = "human_review"
      /\ handler[c].pc = "idle"
  BY DEF Review, Snapshot, CanRequest, Idle
<1>2. handler' = [handler EXCEPT ![c] = [handler[c] EXCEPT !.pc = "load", !.kind = decision]]
  BY DEF Review
<1>3. handler'[c] = [handler[c] EXCEPT !.pc = "load", !.kind = decision]
  BY <1>2 DEF IInv, TypeOK
<1>4. handler'[c].pc = "load" /\ handler'[c].kind = decision /\ decision # "stream"
  BY <1>3 DEF IInv, TypeOK, Handler, Decisions
<1>5. <<t, tab[c].shown>> \in seen /\ t \in Threads
  BY <1>1 DEF IInv, TypeOK, ShownIsSeen
<1>6. ApprovedIsComplete'
  BY <1>1 DEF RunInv, ApprovedIsComplete
<1>7. ~letter[t].is_approved
  BY <1>1, <1>5 DEF RunInv, ApprovedIsComplete
<1>8. RunOK(c)'
  BY <1>1, <1>4, <1>7 DEF RunOK
<1>9. ASSUME ScreenInv PROVE ScreenOK(c)'
  <2>1. checkpoint[t].draft = tab[c].shown
    BY <1>1, <1>9 DEF ScreenInv, ScreenOK
  <2>2. QED
    BY <1>1, <1>4, <1>5, <2>1 DEF ScreenOK
<1>10. QED
  BY <1>6, <1>8, <1>9, OneTabStep

\* The resume is chosen, or the checkpoint is loaded: with one tab it is still
\* the one that the request found.
LEMMA RunStarts ==
    ASSUME IInv, RunInv, NEW c \in Clients, \A d \in Clients : d = c,
           ChooseResume(c) \/ Load(c)
    PROVE  RunInv' /\ (ScreenInv => ScreenInv')
<1> DEFINE t  == tab[c].thread
           cp == checkpoint[t]
<1>1. UNCHANGED <<letter, checkpoint, tab, seen>>
  BY DEF ChooseResume, Load
<1>2. RunOK(c) /\ handler[c] \in Handler /\ HandlerOK(c)
  BY DEF RunInv, IInv, TypeOK
<1>3. ApprovedIsComplete'
  BY <1>1 DEF RunInv, ApprovedIsComplete
<1>4. CASE ChooseResume(c)
  <2>1. PICK u \in Threads : handler' = [handler EXCEPT ![c].pc = "begin", ![c].resume = u]
    BY <1>4 DEF ChooseResume
  <2>2. handler'[c] = [handler[c] EXCEPT !.pc = "begin", !.resume = u]
    BY <2>1 DEF IInv, TypeOK
  <2>3. handler'[c].pc = "begin" /\ handler'[c].kind = handler[c].kind
    BY <1>2, <2>2 DEF Handler
  <2>4. handler[c].pc = "fresh"
    BY <1>4 DEF ChooseResume
  <2>5. RunOK(c)'
    BY <1>1, <1>2, <2>3, <2>4 DEF RunOK
  <2>6. ScreenInv => ScreenOK(c)'
    BY <1>1, <1>2, <2>3, <2>4 DEF RunOK, ScreenInv, ScreenOK
  <2>7. QED
    BY <1>3, <2>5, <2>6, OneTabStep
<1>5. CASE Load(c)
  <2>1. PICK a : /\ handler' = [handler EXCEPT ![c].pc = "run", ![c].node = cp.next,
                                  ![c].draft = cp.draft, ![c].resume = cp.resume, ![c].answer = a]
                 /\ cp.next = "human_review" /\ handler[c].kind = "approve" => a = "approve"
    BY <1>5 DEF Load, Snapshot
  <2>2. handler'[c] = [handler[c] EXCEPT !.pc = "run", !.node = cp.next, !.draft = cp.draft,
                                         !.resume = cp.resume, !.answer = a]
    BY <2>1 DEF IInv, TypeOK
  <2>3. /\ handler'[c].pc = "run" /\ handler'[c].kind = handler[c].kind
        /\ handler'[c].node = cp.next /\ handler'[c].draft = cp.draft /\ handler'[c].answer = a
    BY <1>2, <2>2 DEF Handler
  <2>4. handler[c].pc = "load"
    BY <1>5 DEF Load
  <2>5. RunOK(c)'
    BY <1>1, <1>2, <2>1, <2>3, <2>4 DEF RunOK
  <2>6. ScreenInv => ScreenOK(c)'
    BY <1>1, <2>3, <2>4 DEF ScreenInv, ScreenOK
  <2>7. QED
    BY <1>3, <2>5, <2>6, OneTabStep
<1>6. QED
  BY <1>4, <1>5

\* A checkpoint is saved by the run that is where the thread is.
LEMMA RunSaves ==
    ASSUME IInv, RunInv, NEW c \in Clients, \A d \in Clients : d = c,
           NEW node, NEW draft,
           handler[c].pc \in {"begin", "run"},
           Save(c, node, draft, handler[c].resume),
           UNCHANGED <<letter, tab, seen>>,
           handler'[c].pc = "run", handler'[c].kind = handler[c].kind,
           handler'[c].node = node, handler'[c].draft = draft,
           handler[c].kind = "approve" => node = "END" /\ draft = handler[c].draft
    PROVE  RunInv' /\ (ScreenInv => ScreenInv')
<1> DEFINE t == tab[c].thread
<1>1. RunOK(c) /\ HandlerOK(c) /\ t \in Threads
  BY DEF RunInv, IInv, HandlerOK
<1>2. /\ checkpoint'[t] = [next |-> node, draft |-> draft, resume |-> handler[c].resume]
      /\ \A u \in Threads \ {t} : checkpoint'[u] = checkpoint[u]
  BY <1>1 DEF Save, IInv, TypeOK
<1>3. checkpoint'[t].next = node /\ checkpoint'[t].draft = draft
  BY <1>2
<1>4. ~letter[t].is_approved
  BY <1>1 DEF RunOK
<1>5. ApprovedIsComplete'
  BY <1>1, <1>2, <1>4 DEF RunInv, ApprovedIsComplete
<1>6. RunOK(c)'
  BY <1>3, <1>4 DEF RunOK
<1>7. ASSUME ScreenInv PROVE ScreenOK(c)'
  <2>1. ScreenOK(c)
    BY <1>7 DEF ScreenInv
  <2>2. handler[c].kind = "approve" => <<t, draft>> \in seen
    BY <1>1, <2>1 DEF ScreenOK, RunOK
  <2>3. QED
    BY <2>1, <2>2 DEF ScreenOK
<1>8. QED
  BY <1>5, <1>6, <1>7, OneTabStep

\* The first checkpoint of a thread, and the nodes: an approval runs only
\* human_review, and saves the draft it loaded.
LEMMA GraphRuns ==
    ASSUME IInv, RunInv, NEW c \in Clients, \A d \in Clients : d = c,
           Begin(c) \/ Prepare(c) \/ WriteCoverLetter(c) \/ HumanReview(c)
    PROVE  RunInv' /\ (ScreenInv => ScreenInv')
<1>1. RunOK(c) /\ handler[c] \in Handler
  BY DEF RunInv, IInv, TypeOK
<1>2. CASE Begin(c)
  <2> DEFINE draft == checkpoint[tab[c].thread].draft
  <2>1. handler' = [handler EXCEPT ![c].pc = "run", ![c].node = "analyze_requirements",
                                   ![c].draft = draft]
    BY <1>2 DEF Begin, Snapshot
  <2>2. handler'[c] = [handler[c] EXCEPT !.pc = "run", !.node = "analyze_requirements",
                                         !.draft = draft]
    BY <2>1 DEF IInv, TypeOK
  <2>3. /\ handler'[c].pc = "run" /\ handler'[c].kind = handler[c].kind
        /\ handler'[c].node = "analyze_requirements" /\ handler'[c].draft = draft
    BY <1>1, <2>2 DEF Handler
  <2>4. /\ Save(c, "analyze_requirements", draft, handler[c].resume)
        /\ UNCHANGED <<letter, tab, seen>> /\ handler[c].pc = "begin"
    BY <1>2 DEF Begin, Snapshot
  <2>5. handler[c].kind # "approve"
    BY <1>1, <2>4 DEF RunOK
  <2>6. QED
    BY <2>3, <2>4, <2>5, RunSaves
<1>3. ASSUME NEW node, NEW next, NEW draft, AtNode(c, node), Advance(c, next, draft),
             handler[c].kind = "approve" => next = "END" /\ draft = handler[c].draft
      PROVE  RunInv' /\ (ScreenInv => ScreenInv')
  <2>1. handler'[c] = [handler[c] EXCEPT !.node = next, !.draft = draft, !.answer = "none"]
    BY <1>3 DEF Advance, IInv, TypeOK
  <2>2. /\ handler'[c].pc = handler[c].pc /\ handler'[c].kind = handler[c].kind
        /\ handler'[c].node = next /\ handler'[c].draft = draft
    BY <1>1, <2>1 DEF Handler
  <2>3. Save(c, next, draft, handler[c].resume) /\ UNCHANGED <<letter, tab, seen>>
    BY <1>3 DEF Advance
  <2>4. handler[c].pc = "run"
    BY <1>3 DEF AtNode
  <2>5. QED
    BY <1>3, <2>2, <2>3, <2>4, RunSaves
<1>4. CASE Prepare(c)
  <2>1. PICK node \in WorkNodes \ {"write_cover_letter"} :
          AtNode(c, node) /\ Advance(c, Successor[node], handler[c].draft)
    BY <1>4 DEF Prepare
  <2>2. handler[c].kind # "approve"
    BY <1>1, <2>1 DEF AtNode, RunOK, WorkNodes
  <2>3. QED
    BY <1>3, <2>1, <2>2
<1>5. CASE WriteCoverLetter(c)
  <2>1. PICK x \in Texts : Advance(c, Successor["write_cover_letter"], x)
    BY <1>5 DEF WriteCoverLetter
  <2>2. AtNode(c, "write_cover_letter") /\ handler[c].kind # "approve"
    BY <1>1, <1>5 DEF WriteCoverLetter, AtNode, RunOK
  <2>3. QED
    BY <1>3, <2>1, <2>2
<1>6. CASE HumanReview(c)
  <2>1. PICK next : /\ Advance(c, next, handler[c].draft)
                    /\ handler[c].answer = "approve" => next = "END"
    BY <1>6 DEF HumanReview
  <2>2. AtNode(c, "human_review") /\ (handler[c].kind = "approve" => handler[c].answer = "approve")
    BY <1>1, <1>6 DEF HumanReview, AtNode, RunOK
  <2>3. QED
    BY <1>3, <2>1, <2>2
<1>7. QED
  BY <1>2, <1>4, <1>5, <1>6

\* What the graph returned goes to the latest document: the tab's own.
LEMMA ReviewGoesOn ==
    ASSUME IInv, LatestInv, OwnInv, RunInv, NEW c \in Clients, \A d \in Clients : d = c,
           \/ handler[c].kind # "stream" /\ (Interrupt(c) \/ GraphReturns(c))
           \/ ReadLatest(c)
    PROVE  RunInv' /\ (ScreenInv => ScreenInv')
<1> DEFINE t == tab[c].thread
<1>1. RunOK(c) /\ HandlerOK(c) /\ handler[c] \in Handler
  BY DEF RunInv, IInv, TypeOK
<1>2. UNCHANGED <<letter, checkpoint, tab, seen>>
  BY DEF Interrupt, GraphReturns, ReadLatest
<1>3. ApprovedIsComplete'
  BY <1>2 DEF RunInv, ApprovedIsComplete
<1>4. CASE handler[c].kind # "stream" /\ (Interrupt(c) \/ GraphReturns(c))
  <2>1. handler' = [handler EXCEPT ![c].pc = "latest"]
    BY <1>4 DEF Interrupt, GraphReturns
  <2>2. handler'[c] = [handler[c] EXCEPT !.pc = "latest"]
    BY <2>1 DEF IInv, TypeOK
  <2>3. /\ handler'[c].pc = "latest" /\ handler'[c].kind = handler[c].kind
        /\ handler'[c].draft = handler[c].draft
    BY <1>1, <2>2 DEF Handler
  <2>4. handler[c].pc = "run" /\ (handler[c].kind = "approve" => checkpoint[t].next = "END")
    BY <1>1, <1>4 DEF Interrupt, GraphReturns, AtNode, RunOK
  <2>5. RunOK(c)'
    BY <1>1, <1>2, <2>3, <2>4 DEF RunOK
  <2>6. ScreenInv => ScreenOK(c)'
    BY <1>2, <2>3, <2>4 DEF ScreenInv, ScreenOK
  <2>7. QED
    BY <1>3, <2>5, <2>6, OneTabStep
<1>5. CASE ReadLatest(c)
  <2>1. PICK u \in Threads : /\ Ledger!IsLatest(u)
                             /\ handler' = [handler EXCEPT ![c].pc = "update", ![c].target = u]
    BY <1>5 DEF ReadLatest
  <2>2. u = t
    <3>1. t \in Threads /\ handler[c].pc = "latest"
      BY <1>1, <1>5 DEF ReadLatest, HandlerOK
    <3>2. Ledger!IsLatest(t)
      BY <3>1, SentinelAssumption DEF OwnInv, TabOnLatest
    <3>3. QED
      BY <2>1, <3>2, LatestIsOne DEF LatestInv
  <2>3. handler'[c] = [handler[c] EXCEPT !.pc = "update", !.target = u]
    BY <2>1 DEF IInv, TypeOK
  <2>4. /\ handler'[c].pc = "update" /\ handler'[c].kind = handler[c].kind
        /\ handler'[c].draft = handler[c].draft /\ handler'[c].target = u
    BY <1>1, <2>3 DEF Handler
  <2>5. handler[c].pc = "latest"
    BY <1>5 DEF ReadLatest
  <2>6. RunOK(c)'
    BY <1>1, <1>2, <2>2, <2>4, <2>5 DEF RunOK
  <2>7. ScreenInv => ScreenOK(c)'
    BY <1>2, <2>4, <2>5 DEF ScreenInv, ScreenOK
  <2>8. QED
    BY <1>3, <2>6, <2>7, OneTabStep
<1>6. QED
  BY <1>4, <1>5

\* The decision is recorded, and the screen is cleared.
LEMMA ReviewRecorded ==
    ASSUME IInv, RunInv, NEW c \in Clients, \A d \in Clients : d = c,
           RecordApproval(c) \/ RecordRevision(c)
    PROVE  RunInv' /\ (ScreenInv => ScreenInv')
<1> DEFINE t == tab[c].thread
<1>1. RunOK(c) /\ HandlerOK(c) /\ handler[c].pc = "update" /\ handler[c].target = t /\ t \in Threads
  BY DEF RunInv, RunOK, IInv, HandlerOK, RecordApproval, RecordRevision
<1>2. /\ checkpoint' = checkpoint /\ handler' = [handler EXCEPT ![c] = NoHandler]
      /\ tab' = [tab EXCEPT ![c].shown = NoText]
  BY DEF RecordApproval, RecordRevision, Finish, ClearScreen
<1>3. handler'[c].pc = "idle" /\ handler'[c].kind = "none" /\ tab'[c].shown = NoText
  BY <1>2 DEF IInv, TypeOK, NoHandler, Tab
<1>4. ApprovedIsComplete'
  <2>1. CASE RecordApproval(c)
    <3>1. checkpoint[t].next = "END"
      BY <1>1, <2>1 DEF RecordApproval, RunOK
    <3>2. \A u \in Threads \ {t} : letter'[u] = letter[u]
      BY <1>1, <2>1 DEF RecordApproval, IInv, TypeOK
    <3>3. QED
      BY <1>2, <3>1, <3>2 DEF RunInv, ApprovedIsComplete
  <2>2. CASE RecordRevision(c)
    <3>1. \A u \in Threads : letter'[u].is_approved = letter[u].is_approved
      BY <2>2 DEF RecordRevision, IInv, TypeOK, Letter
    <3>2. QED
      BY <1>2, <3>1 DEF RunInv, ApprovedIsComplete
  <2>3. QED
    BY <2>1, <2>2
<1>5. RunOK(c)'
  BY <1>3 DEF RunOK
<1>6. ScreenOK(c)'
  BY <1>3 DEF ScreenOK
<1>7. QED
  BY <1>4, <1>5, <1>6, OneTabStep

\* Every step of the only tab keeps both, and a restart keeps the first.
LEMMA RunPreserved ==
    ASSUME IInv, LatestInv, OwnInv, RunInv, NEW c \in Clients, \A d \in Clients : d = c,
           UserStep(c) \/ ServerStep(c) \/ NodeRaises(c) \/ Disconnect(c)
    PROVE  RunInv' /\ (ScreenInv => ScreenInv')
<1>1. CASE UserStep(c)
  BY <1>1, AnsweredAtOnce, StreamRuns, ReviewRuns DEF UserStep, OpenStream
<1>2. CASE Interrupt(c) \/ GraphReturns(c) \/ ReadLatest(c)
  BY <1>2, StreamEnds, ReviewGoesOn
<1>3. CASE ServerStep(c)
  BY <1>2, <1>3, AnsweredAtOnce, RunStarts, GraphRuns, ReviewRecorded DEF ServerStep
<1>4. CASE NodeRaises(c) \/ Disconnect(c)
  BY <1>4, StreamEnds
<1>5. QED
  BY <1>1, <1>3, <1>4

\* A restart leaves no run behind.
LEMMA CrashKeepsRuns ==
    ASSUME IInv, RunInv, Crash
    PROVE  RunInv'
<1>1. /\ UNCHANGED <<letter, checkpoint, tab>>
      /\ \A c \in Clients : handler'[c] = NoHandler
  BY DEF Crash
<1>2. ASSUME NEW c \in Clients PROVE RunOK(c)'
  BY <1>1 DEF RunOK, NoHandler
<1>3. ApprovedIsComplete'
  BY <1>1 DEF RunInv, ApprovedIsComplete
<1>4. QED
  BY <1>2, <1>3 DEF RunInv

\* The runs of the only tab, restarts included.
LEMMA OneTabRuns ==
    ASSUME \A c, d \in Clients : c = d
    PROVE  Spec => []RunInv
<1>1. Init => RunInv
  <2> SUFFICES ASSUME Init PROVE RunInv
    OBVIOUS
  <2>1. ApprovedIsComplete
    BY DEF Init, ApprovedIsComplete
  <2>2. ASSUME NEW c \in Clients PROVE RunOK(c)
    BY DEF Init, RunOK, NoHandler
  <2>3. QED
    BY <2>1, <2>2 DEF RunInv
<1>2. IInv /\ LatestInv /\ OwnInv /\ RunInv /\ [Next]_vars => RunInv'
  <2> SUFFICES ASSUME IInv, LatestInv, OwnInv, RunInv, [Next]_vars PROVE RunInv'
    OBVIOUS
  <2>1. ASSUME NEW c \in Clients, UserStep(c) \/ ServerStep(c) \/ NodeRaises(c) \/ Disconnect(c)
        PROVE  RunInv'
    BY <2>1, RunPreserved
  <2>2. CASE Crash
    BY <2>2, CrashKeepsRuns
  <2>3. CASE UNCHANGED vars
    BY <2>3 DEF vars, RunInv, ApprovedIsComplete, RunOK
  <2>4. QED
    BY <2>1, <2>2, <2>3 DEF Next
<1>3. QED
  BY <1>1, <1>2, InvariantHolds, OneTabOnLatest, PTL DEF Spec

\* Only Begin and Advance save a checkpoint.
LEMMA OnlyRunsSave ==
    ASSUME Next, checkpoint' # checkpoint
    PROVE  \E c \in Clients : \/ Begin(c) \/ Prepare(c) \/ WriteCoverLetter(c)
                              \/ HumanReview(c)
BY ZenonT(40)
DEF Next, UserStep, ServerStep, OpenStream, StartBlocked, StartAccepted, StartRefused,
    StartCreates, StreamCompleted, StreamAwaitsReview, StreamInFlight, StreamFresh,
    ChooseResume, Review, ReviewRefused, Load, NodeRaises, Interrupt, GraphReturns,
    ReadLatest, RecordApproval, RecordRevision, Disconnect, Crash

\* With one tab a draft under review stays there until the user answers it:
\* neither a stream that starts afresh nor a run that was left behind takes
\* the thread away from human_review.
THEOREM OneTabReviewHolds ==
    ASSUME \A c, d \in Clients : c = d
    PROVE  Spec => ReviewHolds
<1> DEFINE A == \A t \in Threads :
             checkpoint[t].next = "human_review" /\ checkpoint'[t].next # "human_review"
             => \E c \in Clients : tab[c].thread = t /\ HumanReview(c)
<1>1. IInv /\ RunInv /\ [Next]_vars => [A]_vars
  <2> SUFFICES ASSUME IInv, RunInv, Next, NEW t \in Threads,
                      checkpoint[t].next = "human_review", checkpoint'[t].next # "human_review"
               PROVE  \E c \in Clients : tab[c].thread = t /\ HumanReview(c)
    OBVIOUS
  <2>1. PICK c \in Clients : Begin(c) \/ Prepare(c) \/ WriteCoverLetter(c) \/ HumanReview(c)
    BY OnlyRunsSave
  <2>2. RunOK(c)
    BY DEF RunInv
  <2>3. tab[c].thread = t
    <3>1. PICK node, draft : Save(c, node, draft, handler[c].resume)
      BY <2>1 DEF Begin, Prepare, WriteCoverLetter, HumanReview, Advance
    <3>2. QED
      BY <3>1 DEF Save, IInv, TypeOK
  <2>4. ~Begin(c) /\ ~Prepare(c) /\ ~WriteCoverLetter(c)
    BY <2>2, <2>3 DEF Begin, Prepare, WriteCoverLetter, AtNode, RunOK, WorkNodes
  <2>5. QED
    BY <2>1, <2>3, <2>4
<1>2. QED
  BY <1>1, InvariantHolds, OneTabRuns, PTL DEF Spec, ReviewHolds

\* A decision is recorded in the document of the thread that was reviewed, as
\* long as the user has one tab: then the latest document is that one.
THEOREM OneTabRecordsOwn ==
    ASSUME \A c, d \in Clients : c = d
    PROVE  Spec => ReviewUpdatesOwnDocument
<1> DEFINE A == \A c \in Clients :
             RecordApproval(c) \/ RecordRevision(c) => handler[c].target = tab[c].thread
<1>1. RunInv /\ [Next]_vars => [A]_vars
  BY DEF RunInv, RunOK, RecordApproval, RecordRevision
<1>2. QED
  BY <1>1, OneTabRuns, PTL DEF Spec, ReviewUpdatesOwnDocument

\* What the only tab shows and approves, as long as the server stays up.
LEMMA OneTabScreen ==
    ASSUME \A c, d \in Clients : c = d
    PROVE  SpecWithoutCrash => []ScreenInv
<1>1. Init => ScreenInv
  BY DEF Init, ScreenInv, ScreenOK, NoHandler
<1>2. IInv /\ LatestInv /\ OwnInv /\ RunInv /\ ScreenInv /\ [NextWithoutCrash]_vars
      => ScreenInv'
  <2> SUFFICES ASSUME IInv, LatestInv, OwnInv, RunInv, ScreenInv, [NextWithoutCrash]_vars
               PROVE  ScreenInv'
    OBVIOUS
  <2>1. ASSUME NEW c \in Clients, UserStep(c) \/ ServerStep(c) \/ NodeRaises(c) \/ Disconnect(c)
        PROVE  ScreenInv'
    BY <2>1, RunPreserved
  <2>2. CASE UNCHANGED vars
    BY <2>2 DEF vars, ScreenInv, ScreenOK
  <2>3. QED
    BY <2>1, <2>2 DEF NextWithoutCrash
<1>3. [NextWithoutCrash]_vars => [Next]_vars
  BY DEF NextWithoutCrash, Next
<1>4. QED
  BY <1>1, <1>2, <1>3, InvariantHolds, OneTabOnLatest, OneTabRuns, PTL
  DEF Spec, SpecWithoutCrash

\* A step that presents a text is a step of the gate.
LEMMA ShowPresents ==
    ASSUME NEW c \in Clients, NEW x \in Texts, tab[c].thread \in Threads,
           Show(c, x), UNCHANGED letter
    PROVE  Gate!Next
<1>1. Gate!Present(tab[c].thread, x)
  BY DEF Show, Gate!Present
<1>2. QED
  BY <1>1 DEF Gate!Next

\* An approval is a step of the gate: the text was presented for the document,
\* and the document had none.
LEMMA ApprovalApproves ==
    ASSUME IInv, RunInv, ScreenInv, NEW c \in Clients, RecordApproval(c)
    PROVE  Gate!Next
<1> DEFINE text == [u \in Threads |-> IF letter[u].is_approved THEN letter[u].content ELSE NoText]
<1>1. handler[c].pc = "update" /\ handler[c].kind = "approve" /\ seen' = seen
  BY DEF RecordApproval
<1>2. PICK t \in Threads : t = tab[c].thread
  BY <1>1 DEF IInv, HandlerOK
<1>3. PICK x \in Texts : x = handler[c].draft
  BY <1>1 DEF IInv, HandlerOK
<1>4. handler[c].target = t /\ ~letter[t].is_approved
  BY <1>1, <1>2 DEF RunInv, RunOK
<1>5. <<t, x>> \in seen
  BY <1>1, <1>2, <1>3 DEF ScreenInv, ScreenOK
<1>6. letter' = [letter EXCEPT ![t] = [letter[t] EXCEPT !.content = x, !.is_approved = TRUE]]
  <2>1. Result(handler[c].draft) = x
    BY <1>3, SentinelAssumption DEF Result
  <2>2. QED
    BY <1>4, <2>1, ZenonT(40) DEF RecordApproval
<1>7. /\ letter'[t].is_approved = TRUE /\ letter'[t].content = x
      /\ \A u \in Threads \ {t} : letter'[u] = letter[u]
  BY <1>6 DEF IInv, TypeOK, Letter
<1>8. text' = [text EXCEPT ![t] = x] /\ text[t] = NoText
  BY <1>4, <1>7
<1>9. Gate!Approve(t, x)
  BY <1>1, <1>5, <1>8 DEF Gate!Approve
<1>10. QED
  BY <1>9 DEF Gate!Next

\* A tab that opens the stream of a thread under review, or a stream whose run
\* comes to its review, presents a draft; the run of a decision shows nothing.
LEMMA PresentsOrNot ==
    ASSUME IInv, NEW c \in Clients, StreamAwaitsReview(c) \/ Interrupt(c)
    PROVE  Gate!Next \/ UNCHANGED Gate!vars
<1>1. tab[c].thread \in Threads /\ letter' = letter
  BY DEF StreamAwaitsReview, CanRequest, Interrupt, AtNode, IInv, TypeOK, Tab, HandlerOK
<1>2. CASE StreamAwaitsReview(c)
  <2>1. PICK x : x = checkpoint[tab[c].thread].draft
    OBVIOUS
  <2>2. x \in Texts /\ Show(c, x)
    BY <1>1, <1>2, <2>1 DEF StreamAwaitsReview, Snapshot, IInv, DraftBeforeReview
  <2>3. QED
    BY <1>1, <2>2, ShowPresents
<1>3. CASE Interrupt(c) /\ handler[c].kind = "stream"
  <2>1. PICK x : x = handler[c].draft
    OBVIOUS
  <2>2. x \in Texts /\ Show(c, x)
    BY <1>3, <2>1 DEF Interrupt, AtNode, IInv, HandlerOK
  <2>3. QED
    BY <1>1, <2>2, ShowPresents
<1>4. CASE Interrupt(c) /\ handler[c].kind # "stream"
  BY <1>4 DEF Interrupt, Gate!vars
<1>5. QED
  BY <1>2, <1>3, <1>4

\* Every other step leaves the gate alone.
LEMMA OthersLeaveGate ==
    ASSUME IInv, NextWithoutCrash,
           \A c \in Clients : ~(RecordApproval(c) \/ StreamAwaitsReview(c) \/ Interrupt(c))
    PROVE  UNCHANGED Gate!vars
<1>1. CASE UNCHANGED <<letter, seen>>
  BY <1>1 DEF Gate!vars
<1>2. ASSUME NEW c \in Clients, RecordRevision(c) PROVE UNCHANGED Gate!vars
  <2>1. seen' = seen /\ handler[c].target \in Threads
    BY <1>2 DEF RecordRevision, IInv, HandlerOK
  <2>2. \A u \in Threads : /\ letter'[u].is_approved = letter[u].is_approved
                           /\ letter'[u].content = letter[u].content
    BY <1>2, <2>1 DEF RecordRevision, IInv, TypeOK, Letter
  <2>3. QED
    BY <2>1, <2>2 DEF Gate!vars
<1>3. QED
  BY <1>1, <1>2, ZenonT(60)
  DEF NextWithoutCrash, UserStep, ServerStep, OpenStream, StartBlocked, StartAccepted,
      StartRefused, StartCreates, StreamCompleted, StreamInFlight, StreamFresh, ChooseResume,
      Begin, Review, ReviewRefused, Load, Prepare, WriteCoverLetter, Advance, NodeRaises,
      HumanReview, GraphReturns, ReadLatest, Disconnect

\* The promise of document_record.py for a user with one tab whose server
\* stays up: what is approved was presented for that document, and stays.
THEOREM OneTabImplementsGate ==
    ASSUME \A c, d \in Clients : c = d
    PROVE  SpecWithoutCrash => ImplementsGate
<1>1. Init => Gate!Init
  BY DEF Init, Gate!Init
<1>2. IInv /\ RunInv /\ ScreenInv /\ [NextWithoutCrash]_vars => [Gate!Next]_(Gate!vars)
  <2> SUFFICES ASSUME IInv, RunInv, ScreenInv, [NextWithoutCrash]_vars
               PROVE  Gate!Next \/ UNCHANGED Gate!vars
    OBVIOUS
  <2>1. CASE UNCHANGED vars
    BY <2>1 DEF vars, Gate!vars
  <2>2. ASSUME NEW c \in Clients, RecordApproval(c) PROVE Gate!Next
    BY <2>2, ApprovalApproves
  <2>3. CASE \E c \in Clients : StreamAwaitsReview(c) \/ Interrupt(c)
    BY <2>3, PresentsOrNot
  <2>4. QED
    BY <2>1, <2>2, <2>3, OthersLeaveGate
<1>3. [NextWithoutCrash]_vars => [Next]_vars
  BY DEF NextWithoutCrash, Next
<1>4. QED
  BY <1>1, <1>2, <1>3, InvariantHolds, OneTabRuns, OneTabScreen, PTL
  DEF Spec, SpecWithoutCrash, ImplementsGate, Gate!Spec

=============================================================================
