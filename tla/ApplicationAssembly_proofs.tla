--------------------- MODULE ApplicationAssembly_proofs ---------------------
(***************************************************************************)
(* Proofs about ApplicationAssembly, for any number of tabs and            *)
(* applications.  The inductive invariant IInv says what a handler may     *)
(* rely on between two of its awaits, that a package is coherent wherever  *)
(* a copy of it is, and who still has to record a decided thread.          *)
(***************************************************************************)
EXTENDS ApplicationAssembly, TLAPS

Coherent(p) ==
    p.next \in {"generate_micro_pitch", "human_review", "END"} =>
      p.letter = "fresh"

\* What holds of a handler at each of its awaits.
HandlerOK(h) ==
    /\ h.pc \in {"begin", "load", "run", "record", "patch", "edit", "put"} => h.app \in Apps
    /\ h.pc = "begin" => h.kind = "start" /\ h.answer = "none"
    /\ h.pc \in {"load", "record"} => h.kind \in Decisions
    /\ h.pc = "run" => /\ h.package.next \in WorkNodes \cup {"human_review"}
                       /\ h.kind \in Decisions \cup {"start"}
                       /\ h.answer # "none" => h.answer = h.kind
    /\ h.pc = "patch" => h.target \in ApplicationStatus \ {"saved"}
    /\ h.pc = "put" => h.package.next # "none"
    /\ Coherent(h.package)

Handlers == \A c \in Clients : HandlerOK(handler[c])

Packages == \A a \in Apps : Coherent(checkpoint[a])

\* Threads and handlers belong to applications that were created.
Known ==
    /\ \A a \in Apps : checkpoint[a].next # "none" => status[a] # "absent"
    /\ \A c \in Clients : handler[c].app \in Apps => status[handler[c].app] # "absent"
    /\ \A c \in Clients :
         handler[c].pc \in {"load", "edit"} => checkpoint[handler[c].app].next # "none"

Deciding(c, a) ==
    handler[c].pc = "record" /\ handler[c].kind \in {"approve", "reject"} /\ handler[c].app = a

Released(a) == ~InProgress(a) \/ a \in cut \/ \E c \in Clients : Deciding(c, a)

\* A thread that ended is released, and so is one of which an edit holds a copy
\* of the end.
Decided ==
    /\ \A a \in Apps : checkpoint[a].next = "END" => Released(a)
    /\ \A c \in Clients :
         handler[c].pc = "put" /\ handler[c].package.next = "END" => Released(handler[c].app)

\* Unless two starts overlapped, what the check found still holds at the insert.
CheckHolds ==
    /\ \A c, d \in Clients : handler[c].pc = "create" /\ handler[d].pc = "create" => c = d
    /\ \A c \in Clients : handler[c].pc = "create" => \A a \in Apps : ~InProgress(a)
    /\ \A a, b \in Apps : InProgress(a) /\ InProgress(b) => a = b

Starts == overlap \/ CheckHolds

IInv == TypeOK /\ Handlers /\ Packages /\ Known /\ Decided /\ Starts

\* There is no document, no checkpoint and no request.
LEMMA InitEstablishes == Init => IInv
<1> SUFFICES ASSUME Init PROVE IInv
  OBVIOUS
<1>1. Empty \in Package /\ NoHandler \in Handler
  BY DEF Empty, Package, NoHandler, Handler, Nodes
<1>2. TypeOK
  BY <1>1 DEF Init, TypeOK
<1>3. Handlers /\ Packages
  BY DEF Init, Handlers, Packages, HandlerOK, Coherent, NoHandler, Empty
<1>4. Known /\ Decided /\ Starts
  BY SentinelAssumption
  DEF Init, Known, Decided, Starts, CheckHolds, InProgress, NoHandler, Empty
<1>5. QED
  BY <1>2, <1>3, <1>4 DEF IInv

-----------------------------------------------------------------------------
\* What one step does to the handler of one client, and to the checkpoints.

HandlerMoves(c) ==
    /\ handler' = [handler EXCEPT ![c] = handler'[c]]
    /\ handler'[c] \in Handler
    /\ HandlerOK(handler'[c])

Written(a) ==
    \/ UNCHANGED checkpoint
    \/ \E p \in Package : /\ Coherent(p)
                          /\ p.next # "none"
                          /\ checkpoint' = [checkpoint EXCEPT ![a] = p]

\* What the invariant says of the handler of one client.
LEMMA ClientTypes ==
    ASSUME IInv, NEW c \in Clients
    PROVE  /\ handler \in [Clients -> Handler]
           /\ handler[c] \in Handler /\ HandlerOK(handler[c])
           /\ handler[c].package \in Package
           /\ handler[c].app \in Apps \cup {NoApp}
  BY DEF IInv, TypeOK, Handlers, Handler

\* Replacing the handler of c by a sound one.
LEMMA Replace ==
    ASSUME IInv, NEW c \in Clients, NEW h \in Handler, HandlerOK(h),
           handler' = [handler EXCEPT ![c] = h]
    PROVE  HandlerMoves(c)
  BY DEF IInv, TypeOK, HandlerMoves

\* The handler of an idle client is sound.
LEMMA NoHandlerOK == NoHandler \in Handler /\ HandlerOK(NoHandler) /\ Empty \in Package
<1>1. Empty \in Package
  BY DEF Empty, Package, Nodes
<1>2. NoHandler \in Handler
  BY <1>1 DEF NoHandler, Handler
<1>3. HandlerOK(NoHandler)
  BY DEF NoHandler, HandlerOK, Coherent, Empty
<1>4. QED
  BY <1>1, <1>2, <1>3

\* A request that is answered leaves its client idle.
LEMMA FinishMoves ==
    ASSUME IInv, NEW c \in Clients, Finish(c)
    PROVE  HandlerMoves(c) /\ handler'[c].pc = "idle" /\ handler'[c].app = NoApp
<1>1. handler'[c] = NoHandler
  BY DEF Finish, IInv, TypeOK
<1>2. HandlerMoves(c)
  BY NoHandlerOK, Replace DEF Finish
<1>3. QED
  BY <1>1, <1>2 DEF NoHandler

\* A request is accepted.
LEMMA AcceptMoves ==
    ASSUME IInv, NEW c \in Clients, NEW a \in Apps \cup {NoApp},
           NEW pc \in {"create", "begin", "load", "edit"},
           NEW kind \in {"start", "edit"} \cup Decisions,
           pc # "create" => a \in Apps,
           pc = "begin" => kind = "start",
           pc = "load" => kind \in Decisions,
           Accept(c, pc, kind, a)
    PROVE  HandlerMoves(c) /\ handler'[c].pc = pc /\ handler'[c].app = a
<1> DEFINE h == [NoHandler EXCEPT !.pc = pc, !.kind = kind, !.app = a]
<1>1. h.pc = pc /\ h.kind = kind /\ h.app = a /\ h.package = Empty /\ h.answer = "none"
  BY DEF NoHandler
<1>2. h \in Handler
  BY NoHandlerOK, ZenonT(40) DEF Handler
<1>3. HandlerOK(h)
  BY <1>1 DEF HandlerOK, Coherent, Empty
<1>4. handler' = [handler EXCEPT ![c] = h]
  BY DEF Accept
<1> HIDE DEF h
<1>5. handler'[c] = h
  BY <1>4 DEF IInv, TypeOK
<1>6. QED
  BY <1>1, <1>2, <1>3, <1>4, <1>5, Replace

\* A node returns and its checkpoint is saved.
LEMMA SaveMoves ==
    ASSUME IInv, NEW c \in Clients, NEW p \in Package,
           handler[c].pc = "run",
           Coherent(p),
           p.next \in WorkNodes \cup {"human_review", "END"},
           p.next = "END" => handler[c].answer \in {"approve", "reject"},
           Save(c, p)
    PROVE  /\ HandlerMoves(c)
           /\ Written(handler[c].app)
           /\ handler'[c].app = handler[c].app
           /\ handler'[c].pc = IF p.next = "END" THEN "record" ELSE "run"
           /\ handler'[c].kind = handler[c].kind
           /\ checkpoint' = [checkpoint EXCEPT ![handler[c].app] = p]
<1> USE ClientTypes
<1> DEFINE g == [handler[c] EXCEPT !.package = p, !.answer = "none"]
           r == [g EXCEPT !.pc = "record", !.package = Empty]
           h == IF p.next = "END" THEN r ELSE g
<1>1. /\ g.pc = "run" /\ g.kind = handler[c].kind /\ g.app = handler[c].app
      /\ g.package = p /\ g.answer = "none" /\ g.target = handler[c].target
  BY DEF Handler
<1>2. g \in Handler
  BY ZenonT(40) DEF Handler
<1> HIDE DEF g
<1>3. /\ r.pc = "record" /\ r.kind = handler[c].kind /\ r.app = handler[c].app
      /\ r.package = Empty /\ r.answer = "none"
  BY <1>1, <1>2 DEF Handler
<1>4. r \in Handler
  BY <1>2, NoHandlerOK, ZenonT(40) DEF Handler
<1> HIDE DEF r
<1>5. handler[c].kind \in Decisions \cup {"start"} /\ handler[c].app \in Apps
  BY DEF HandlerOK
<1>6. p.next = "END" => handler[c].kind \in Decisions
  BY DEF HandlerOK
<1>7. CASE p.next = "END"
  <2>1. HandlerOK(r)
    BY <1>3, <1>5, <1>6, <1>7 DEF HandlerOK, Coherent, Empty
  <2>2. handler' = [handler EXCEPT ![c] = r]
    BY <1>7 DEF Save, Returned, g, r
  <2>3. handler'[c] = r
    BY <2>2
  <2>4. QED
    BY <1>3, <1>4, <1>7, <2>1, <2>2, <2>3, Replace DEF Save, Written
<1>8. CASE p.next # "END"
  <2>1. HandlerOK(g)
    BY <1>1, <1>5, <1>8 DEF HandlerOK
  <2>2. handler' = [handler EXCEPT ![c] = g]
    BY <1>8 DEF Save, g
  <2>3. handler'[c] = g
    BY <2>2
  <2>4. QED
    BY <1>1, <1>2, <1>8, <2>1, <2>2, <2>3, Replace DEF Save, Written, WorkNodes, Successor
<1>9. QED
  BY <1>7, <1>8

\* The same of the nodes of the graph.
NodeMoves(c) ==
    /\ HandlerMoves(c)
    /\ Written(handler[c].app)
    /\ handler[c].app \in Apps /\ handler'[c].app = handler[c].app
    /\ handler[c].pc = "run" /\ handler'[c].pc \in {"run", "record"}
    /\ \A a \in Apps :
         checkpoint'[a].next = "END" => checkpoint[a].next = "END" \/ Deciding(c, a)'
    /\ UNCHANGED <<status, threaded, overlap, cut>>

\* A node that writes a coherent package moves the handler on and keeps it sound.
LEMMA SavedNode ==
    ASSUME IInv, NEW c \in Clients, NEW p \in Package,
           handler[c].pc = "run",
           Coherent(p),
           p.next \in WorkNodes \cup {"human_review", "END"},
           p.next = "END" => handler[c].answer \in {"approve", "reject"},
           Save(c, p)
    PROVE  NodeMoves(c)
<1> USE ClientTypes
<1>1. /\ HandlerMoves(c) /\ Written(handler[c].app)
      /\ handler'[c].app = handler[c].app /\ handler'[c].kind = handler[c].kind
      /\ handler'[c].pc = IF p.next = "END" THEN "record" ELSE "run"
      /\ checkpoint' = [checkpoint EXCEPT ![handler[c].app] = p]
  BY SaveMoves
<1>2. handler[c].app \in Apps
  BY DEF HandlerOK
<1>3. p.next = "END" => handler[c].kind \in {"approve", "reject"}
  BY DEF HandlerOK
<1>4. checkpoint'[handler[c].app] = p
      /\ \A a \in Apps \ {handler[c].app} : checkpoint'[a] = checkpoint[a]
  BY <1>1, <1>2 DEF IInv, TypeOK
<1>5. ASSUME NEW a \in Apps, checkpoint'[a].next = "END"
      PROVE  checkpoint[a].next = "END" \/ Deciding(c, a)'
  BY <1>1, <1>3, <1>4, <1>5 DEF Deciding
<1>6. QED
  BY <1>1, <1>2, <1>5 DEF NodeMoves, Save

\* All nodes of the graph write coherent packages.
LEMMA NodesMove ==
    ASSUME IInv, NEW c \in Clients,
           PlainNode(c) \/ TailorResume(c) \/ GenerateCoverLetter(c) \/ HumanReview(c)
    PROVE  NodeMoves(c)
<1> USE ClientTypes
<1>1. ASSUME NEW node \in WorkNodes \ {"tailor_resume", "generate_cover_letter"}, At(c, node),
             Save(c, [handler[c].package EXCEPT !.next = Successor[node]])
      PROVE  NodeMoves(c)
  <2> DEFINE p == [handler[c].package EXCEPT !.next = Successor[node]]
  <2>1. handler[c].pc = "run" /\ handler[c].package.next = node
    BY <1>1 DEF At
  <2>2. /\ Successor[node] \in WorkNodes \cup {"human_review"}
        /\ Successor[node] = "human_review" => node = "generate_micro_pitch"
        /\ Successor[node] # "generate_micro_pitch"
    BY <1>1 DEF WorkNodes, Successor
  <2>3. p.next = Successor[node] /\ p.letter = handler[c].package.letter /\ p \in Package
    BY <2>2 DEF Package, Nodes
  <2>4. Successor[node] # "END"
    BY <2>2 DEF WorkNodes, Successor
  <2>5. Coherent(p)
    BY <2>1, <2>2, <2>3, <2>4 DEF Coherent, HandlerOK
  <2> HIDE DEF p
  <2>6. QED
    BY <1>1, <2>1, <2>2, <2>3, <2>4, <2>5, SavedNode DEF p
<1>2. CASE TailorResume(c)
  <2> DEFINE p == [next |-> Successor["tailor_resume"], letter |-> "stale"]
  <2>1. p.next = "generate_cover_letter" /\ p \in Package
    BY DEF Successor, Package, Nodes, WorkNodes
  <2>2. handler[c].pc = "run" /\ Save(c, p)
    BY <1>2 DEF TailorResume, At
  <2> HIDE DEF p
  <2>3. QED
    BY <2>1, <2>2, SavedNode DEF Coherent, WorkNodes, Successor
<1>3. CASE GenerateCoverLetter(c)
  <2> DEFINE p == [next |-> Successor["generate_cover_letter"], letter |-> "fresh"]
  <2>1. p.next = "generate_micro_pitch" /\ p.letter = "fresh" /\ p \in Package
    BY DEF Successor, Package, Nodes, WorkNodes
  <2>2. handler[c].pc = "run" /\ Save(c, p)
    BY <1>3 DEF GenerateCoverLetter, At
  <2> HIDE DEF p
  <2>3. QED
    BY <2>1, <2>2, SavedNode DEF Coherent, WorkNodes, Successor
<1>4. ASSUME HumanReview(c), NEW next \in {"END", "tailor_resume"},
             Save(c, [handler[c].package EXCEPT !.next = next]),
             next = "END" => handler[c].answer \in {"approve", "reject"}
      PROVE  NodeMoves(c)
  <2> DEFINE p == [handler[c].package EXCEPT !.next = next]
  <2>1. handler[c].pc = "run" /\ handler[c].package.next = "human_review"
    BY <1>4 DEF HumanReview, At
  <2>2. p.next = next /\ p.letter = handler[c].package.letter /\ p \in Package
    BY DEF Package, Nodes, WorkNodes, Successor
  <2>3. Coherent(p)
    BY <2>1, <2>2 DEF Coherent, HandlerOK
  <2>4. Save(c, p)
    BY <1>4
  <2> HIDE DEF p
  <2>5. next \in WorkNodes \cup {"human_review", "END"}
    BY DEF WorkNodes, Successor
  <2>6. QED
    BY <1>4, <2>1, <2>2, <2>3, <2>4, <2>5, SavedNode
<1>5. QED
  BY <1>1, <1>2, <1>3, <1>4 DEF PlainNode, HumanReview

\* The other steps of a request.
LEMMA LoadMoves ==
    ASSUME IInv, NEW c \in Clients, Load(c)
    PROVE  HandlerMoves(c) /\ handler'[c].app = handler[c].app /\ handler'[c].pc \in {"run", "record"}
<1> USE ClientTypes
<1> DEFINE latest == checkpoint[handler[c].app]
           answer == IF latest.next = "human_review" THEN handler[c].kind ELSE "none"
           r == [handler[c] EXCEPT !.pc = "record", !.package = Empty]
           g == [handler[c] EXCEPT !.pc = "run", !.package = latest, !.answer = answer]
<1>1. handler[c].app \in Apps /\ handler[c].kind \in Decisions /\ handler[c].pc = "load"
  BY DEF Load, HandlerOK
<1>2. latest \in Package /\ Coherent(latest)
  BY <1>1 DEF IInv, TypeOK, Packages
<1>3. latest.next \in Nodes
  BY <1>1, <1>2 DEF IInv, Known, Package
<1>4. CASE latest.next = "END"
  <2>1. handler' = [handler EXCEPT ![c] = r]
    BY <1>4 DEF Load, Returned
  <2>2. r.pc = "record" /\ r.kind = handler[c].kind /\ r.app = handler[c].app /\ r.package = Empty
    BY DEF Handler
  <2>3. r \in Handler
    BY NoHandlerOK, ZenonT(40) DEF Handler
  <2> HIDE DEF r
  <2>4. HandlerOK(r)
    BY <1>1, <2>2 DEF HandlerOK, Coherent, Empty
  <2>5. QED
    BY <2>1, <2>2, <2>3, <2>4, Replace
<1>5. CASE latest.next # "END"
  <2>1. handler' = [handler EXCEPT ![c] = g]
    BY <1>5 DEF Load, Returned
  <2>2. answer \in Decisions \cup {"none"} /\ (answer # "none" => answer = handler[c].kind)
    BY <1>1
  <2> HIDE DEF answer, latest
  <2>3. /\ g.pc = "run" /\ g.kind = handler[c].kind /\ g.app = handler[c].app
        /\ g.package = latest /\ g.answer = answer
    BY DEF Handler
  <2>4. g \in Handler
    BY <1>2, <2>2, ZenonT(40) DEF Handler
  <2> HIDE DEF g
  <2>5. HandlerOK(g)
    BY <1>1, <1>2, <1>3, <1>5, <2>2, <2>3 DEF HandlerOK, Nodes
  <2>6. QED
    BY <2>1, <2>3, <2>4, <2>5, Replace
<1>6. QED
  BY <1>4, <1>5

\* The first checkpoint of a thread is empty but for its next node.
LEMMA BeginMoves ==
    ASSUME IInv, NEW c \in Clients, Begin(c)
    PROVE  /\ HandlerMoves(c) /\ Written(handler[c].app)
           /\ handler'[c].app = handler[c].app /\ handler'[c].pc = "run"
           /\ checkpoint'[handler[c].app].next = "decode_jd"
<1> USE ClientTypes
<1> DEFINE first == [Empty EXCEPT !.next = "decode_jd"]
           h == [handler[c] EXCEPT !.pc = "run", !.package = first]
<1>1. first.next = "decode_jd" /\ first \in Package
  BY NoHandlerOK DEF Empty, Package, Nodes, WorkNodes, Successor
<1>2. handler' = [handler EXCEPT ![c] = h] /\ checkpoint' = [checkpoint EXCEPT ![handler[c].app] = first]
  BY DEF Begin
<1> HIDE DEF first
<1>3. /\ h.pc = "run" /\ h.kind = handler[c].kind /\ h.app = handler[c].app
      /\ h.package = first /\ h.answer = handler[c].answer
  BY DEF Handler
<1>4. h \in Handler
  BY <1>1, ZenonT(40) DEF Handler
<1> HIDE DEF h
<1>5. handler[c].kind = "start" /\ handler[c].answer = "none" /\ handler[c].app \in Apps
  BY DEF Begin, HandlerOK
<1>6. HandlerOK(h)
  BY <1>1, <1>3, <1>5 DEF HandlerOK, Coherent, WorkNodes, Successor
<1>7. Written(handler[c].app)
  BY <1>1, <1>2 DEF Written, Coherent
<1>8. QED
  BY <1>1, <1>2, <1>3, <1>4, <1>5, <1>6, <1>7, Replace DEF IInv, TypeOK

\* An interrupt answers a start and leaves a review to record its decision.
LEMMA InterruptMoves ==
    ASSUME IInv, NEW c \in Clients, Interrupt(c)
    PROVE  /\ HandlerMoves(c)
           /\ handler'[c].app \in {handler[c].app, NoApp}
           /\ handler'[c].pc \in {"idle", "record"}
<1> USE ClientTypes
<1>1. CASE handler[c].kind = "start"
  BY <1>1, FinishMoves DEF Interrupt
<1>2. CASE handler[c].kind # "start"
  <2> DEFINE r == [handler[c] EXCEPT !.pc = "record", !.package = Empty]
  <2>1. handler' = [handler EXCEPT ![c] = r]
    BY <1>2 DEF Interrupt, Returned
  <2>2. r.pc = "record" /\ r.kind = handler[c].kind /\ r.app = handler[c].app /\ r.package = Empty
    BY DEF Handler
  <2>3. r \in Handler
    BY NoHandlerOK, ZenonT(40) DEF Handler
  <2> HIDE DEF r
  <2>4. handler[c].app \in Apps /\ handler[c].kind \in Decisions
    BY <1>2 DEF Interrupt, At, HandlerOK
  <2>5. HandlerOK(r)
    BY <2>2, <2>4 DEF HandlerOK, Coherent, Empty
  <2>6. QED
    BY <2>1, <2>2, <2>3, <2>5, Replace
<1>3. QED
  BY <1>1, <1>2

\* An edit takes a copy of the latest checkpoint.
LEMMA EditMoves ==
    ASSUME IInv, NEW c \in Clients, EditLoads(c)
    PROVE  /\ HandlerMoves(c)
           /\ handler'[c].app = handler[c].app /\ handler'[c].pc = "put"
           /\ handler'[c].package.next = checkpoint[handler[c].app].next
<1> USE ClientTypes
<1> DEFINE latest == checkpoint[handler[c].app]
<1>1. handler[c].app \in Apps /\ latest \in Package /\ latest.next # "none" /\ Coherent(latest)
  BY DEF EditLoads, HandlerOK, IInv, TypeOK, Known, Packages
<1>2. PICK letter \in {"fresh", latest.letter} :
        handler' = [handler EXCEPT ![c].pc = "put", ![c].package = [latest EXCEPT !.letter = letter]]
  BY DEF EditLoads
<1> HIDE DEF latest
<1> DEFINE p == [latest EXCEPT !.letter = letter]
           h == [handler[c] EXCEPT !.pc = "put", !.package = p]
<1>3. p \in Package /\ p.next = latest.next /\ p.letter \in {"fresh", latest.letter}
  BY <1>1 DEF Package
<1>4. handler' = [handler EXCEPT ![c] = h]
  BY <1>2
<1> HIDE DEF p
<1>5. h.pc = "put" /\ h.app = handler[c].app /\ h.package = p
  BY DEF Handler
<1>6. h \in Handler
  BY <1>3, ZenonT(40) DEF Handler
<1> HIDE DEF h
<1>7. HandlerOK(h)
  BY <1>1, <1>3, <1>5 DEF HandlerOK, Coherent
<1>8. QED
  BY <1>3, <1>4, <1>5, <1>6, <1>7, Replace DEF latest

\* An edit puts its copy back, whatever the thread holds by then.
LEMMA PutWrites ==
    ASSUME IInv, NEW c \in Clients, EditPuts(c)
    PROVE  /\ Written(handler[c].app)
           /\ handler[c].app \in Apps
           /\ checkpoint' = [checkpoint EXCEPT ![handler[c].app] = handler[c].package]
  BY ClientTypes DEF EditPuts, Written, HandlerOK

\* A status change waits with a target other than "saved".
LEMMA PatchMoves ==
    ASSUME IInv, NEW c \in Clients, NEW a \in Apps, NEW s \in PatchTargets, Patch(c, a, s)
    PROVE  HandlerMoves(c) /\ handler'[c].app = a /\ handler'[c].pc = "patch"
<1> DEFINE h == [NoHandler EXCEPT !.pc = "patch", !.kind = "patch", !.app = a, !.target = s]
<1>1. handler' = [handler EXCEPT ![c] = h]
  BY DEF Patch
<1>2. h.pc = "patch" /\ h.app = a /\ h.target = s /\ h.package = Empty
  BY DEF NoHandler
<1>3. s \in ApplicationStatus \ {"saved"}
  BY TargetsAssumption DEF Patch, Stored, ValidTransitions, ApplicationStatus
<1>4. h \in Handler
  BY <1>3, NoHandlerOK, ZenonT(40) DEF Handler
<1> HIDE DEF h
<1>5. HandlerOK(h)
  BY <1>2, <1>3 DEF HandlerOK, Coherent, Empty
<1>6. QED
  BY <1>1, <1>2, <1>4, <1>5, Replace, ClientTypes

-----------------------------------------------------------------------------
\* What one step does to the documents.

StatusMoves(a) ==
    \/ status'[a] = status[a] /\ threaded'[a] = threaded[a]
    \/ /\ status[a] = "absent" /\ status'[a] = "saved"
       /\ threaded'[a] => \E c \in Clients : StartCreates(c)
    \/ /\ status[a] \notin {"absent", "deleted"} /\ status'[a] \notin {"absent", "saved"}
       /\ threaded'[a] = threaded[a]

DocumentsMove ==
    /\ status' \in [Apps -> ApplicationStatus \cup {"absent", "deleted"}]
    /\ threaded' \in [Apps -> BOOLEAN]
    /\ \A a \in Apps : StatusMoves(a)

\* Most steps leave the documents alone.
LEMMA DocumentsStay ==
    ASSUME IInv, UNCHANGED <<status, threaded>> PROVE DocumentsMove
  BY DEF DocumentsMove, StatusMoves, IInv, TypeOK

\* An update never writes "saved" and never creates a document.
LEMMA SetStatusMoves ==
    ASSUME IInv, NEW a \in Apps, NEW s \in ApplicationStatus \ {"saved"}, SetStatus(a, s),
           UNCHANGED threaded
    PROVE  DocumentsMove
  BY DEF SetStatus, Stored, DocumentsMove, StatusMoves, ApplicationStatus, IInv, TypeOK

\* A document is created under an id that was not used.
LEMMA CreateMoves ==
    ASSUME IInv, NEW a \in Apps, NEW hasThread \in BOOLEAN, Create(a, hasThread),
           hasThread => \E c \in Clients : StartCreates(c)
    PROVE  DocumentsMove
  BY DEF Create, DocumentsMove, StatusMoves, ApplicationStatus, IInv, TypeOK

\* A review records its decision by an update.
LEMMA RecordMoves ==
    ASSUME IInv, NEW c \in Clients, Record(c)
    PROVE  DocumentsMove
<1> USE ClientTypes
<1>1. handler[c].app \in Apps /\ handler[c].kind \in Decisions
  BY DEF Record, HandlerOK
<1>2. CASE handler[c].kind = "approve"
  <2>1. SetStatus(handler[c].app, "applied") /\ UNCHANGED threaded
    BY <1>2 DEF Record
  <2>2. QED
    BY <1>1, <2>1, SetStatusMoves DEF ApplicationStatus
<1>3. CASE handler[c].kind = "reject"
  <2>1. SetStatus(handler[c].app, "withdrawn") /\ UNCHANGED threaded
    BY <1>3 DEF Record
  <2>2. QED
    BY <1>1, <2>1, SetStatusMoves DEF ApplicationStatus
<1>4. CASE handler[c].kind = "revise"
  BY <1>4, DocumentsStay DEF Record
<1>5. QED
  BY <1>1, <1>2, <1>3, <1>4 DEF Decisions

\* Every step moves the documents in one of the three ways of StatusMoves.
LEMMA DocumentStep == IInv /\ [Next]_vars => DocumentsMove
<1> SUFFICES ASSUME IInv, [Next]_vars PROVE DocumentsMove
  OBVIOUS
<1> USE ClientTypes
<1>1. ASSUME NEW c \in Clients, StartCreates(c) \/ AddApplication(c) PROVE DocumentsMove
  BY <1>1, CreateMoves DEF StartCreates, AddApplication
<1>2. ASSUME NEW c \in Clients, PatchWrites(c) PROVE DocumentsMove
  <2>1. handler[c].app \in Apps /\ handler[c].target \in ApplicationStatus \ {"saved"}
    BY <1>2 DEF PatchWrites, HandlerOK
  <2>2. QED
    BY <1>2, <2>1, SetStatusMoves DEF PatchWrites
<1>3. ASSUME NEW c \in Clients, NEW a \in Apps, Delete(c, a) PROVE DocumentsMove
  BY <1>3 DEF Delete, Stored, DocumentsMove, StatusMoves, ApplicationStatus, IInv, TypeOK
<1>4. ASSUME NEW c \in Clients, Record(c) PROVE DocumentsMove
  BY <1>4, RecordMoves
<1>5. ASSUME UNCHANGED <<status, threaded>> PROVE DocumentsMove
  BY <1>5, DocumentsStay
<1>6. ASSUME NEW c \in Clients,
             PlainNode(c) \/ TailorResume(c) \/ GenerateCoverLetter(c) \/ HumanReview(c)
      PROVE  UNCHANGED <<status, threaded>>
  BY <1>6, NodesMove DEF NodeMoves
<1>7. QED
  BY <1>1, <1>2, <1>3, <1>4, <1>5, <1>6
  DEF Next, UserStep, ServerStep, vars, StartAccepted, Begin, Load, Interrupt, NodeRaises,
      EditLoads, EditPuts, Review, Patch, Edit, Crash

\* What one step does to the handlers and the checkpoints.
AppKnown(c) ==
    \/ handler'[c].app \in {handler[c].app, NoApp}
    \/ handler'[c].app \in Apps /\ status'[handler'[c].app] # "absent"

ClientMoves(c) ==
    /\ HandlerMoves(c)
    /\ AppKnown(c)
    /\ \/ UNCHANGED checkpoint
       \/ handler[c].app \in Apps /\ Written(handler[c].app)
    /\ handler'[c].pc \in {"load", "edit"} => checkpoint[handler'[c].app].next # "none"

LEMMA RequestMoves ==
    ASSUME IInv, NEW c \in Clients, UserStep(c)
    PROVE  ClientMoves(c)
<1> USE ClientTypes
<1>1. CASE StartAccepted(c)
  BY <1>1, AcceptMoves DEF StartAccepted, ClientMoves, AppKnown
<1>2. CASE AddApplication(c)
  BY <1>2 DEF AddApplication, Idle, ClientMoves, AppKnown, HandlerMoves
<1>3. ASSUME NEW a \in Apps, NEW decision \in Decisions, Review(c, a, decision) PROVE ClientMoves(c)
  <2>1. Accept(c, "load", decision, a) /\ UNCHANGED <<status, checkpoint>>
        /\ Stored(a) /\ checkpoint[a].next = "human_review"
    BY <1>3 DEF Review
  <2>2. HandlerMoves(c) /\ handler'[c].pc = "load" /\ handler'[c].app = a
    BY <2>1, AcceptMoves
  <2>3. QED
    BY <2>1, <2>2 DEF ClientMoves, AppKnown, Stored, ApplicationStatus
<1>4. ASSUME NEW a \in Apps, Edit(c, a) PROVE ClientMoves(c)
  <2>1. Accept(c, "edit", "edit", a) /\ UNCHANGED <<status, checkpoint>>
        /\ Stored(a) /\ checkpoint[a].next = "human_review"
    BY <1>4 DEF Edit
  <2>2. HandlerMoves(c) /\ handler'[c].pc = "edit" /\ handler'[c].app = a
    BY <2>1, AcceptMoves
  <2>3. QED
    BY <2>1, <2>2 DEF ClientMoves, AppKnown, Stored, ApplicationStatus
<1>5. ASSUME NEW a \in Apps, NEW s \in PatchTargets, Patch(c, a, s) PROVE ClientMoves(c)
  <2>1. UNCHANGED <<status, checkpoint>> /\ Stored(a)
    BY <1>5 DEF Patch
  <2>2. QED
    BY <1>5, <2>1, PatchMoves DEF ClientMoves, AppKnown, Stored, ApplicationStatus
<1>6. ASSUME NEW a \in Apps, Delete(c, a) PROVE ClientMoves(c)
  BY <1>6 DEF Delete, Idle, ClientMoves, AppKnown, HandlerMoves
<1>7. QED
  BY <1>1, <1>2, <1>3, <1>4, <1>5, <1>6 DEF UserStep

LEMMA ServerMoves ==
    ASSUME IInv, NEW c \in Clients, ServerStep(c) \/ NodeRaises(c)
    PROVE  ClientMoves(c)
<1> USE ClientTypes
<1>1. CASE StartCreates(c)
  <2>1. PICK a \in Apps : Create(a, TRUE) /\ Accept(c, "begin", "start", a)
    BY <1>1 DEF StartCreates
  <2>2. HandlerMoves(c) /\ handler'[c].pc = "begin" /\ handler'[c].app = a
    BY <2>1, AcceptMoves
  <2>3. status'[a] # "absent" /\ UNCHANGED checkpoint
    BY <1>1, <2>1 DEF StartCreates, Create, IInv, TypeOK
  <2>4. QED
    BY <2>2, <2>3 DEF ClientMoves, AppKnown
<1>2. CASE Begin(c)
  BY <1>2, BeginMoves DEF Begin, HandlerOK, ClientMoves, AppKnown
<1>3. CASE Load(c)
  BY <1>3, LoadMoves DEF Load, ClientMoves, AppKnown
<1>4. CASE PlainNode(c) \/ TailorResume(c) \/ GenerateCoverLetter(c) \/ HumanReview(c)
  BY <1>4, NodesMove DEF NodeMoves, ClientMoves, AppKnown
<1>5. CASE NodeRaises(c) \/ Record(c) \/ PatchWrites(c)
  BY <1>5, FinishMoves DEF NodeRaises, Record, PatchWrites, ClientMoves, AppKnown
<1>6. CASE Interrupt(c)
  BY <1>6, InterruptMoves DEF Interrupt, ClientMoves, AppKnown
<1>7. CASE EditLoads(c)
  BY <1>7, EditMoves DEF EditLoads, ClientMoves, AppKnown
<1>8. CASE EditPuts(c)
  BY <1>8, FinishMoves, PutWrites DEF EditPuts, ClientMoves, AppKnown
<1>9. QED
  BY <1>1, <1>2, <1>3, <1>4, <1>5, <1>6, <1>7, <1>8 DEF ServerStep

-----------------------------------------------------------------------------
\* The parts of the invariant, one by one.

\* A step is one of some client's request, a restart or a stutter.
LEMMA WhoMoves == [Next]_vars =>
                    \/ \E c \in Clients : UserStep(c) \/ ServerStep(c) \/ NodeRaises(c)
                    \/ Crash
                    \/ UNCHANGED vars
  BY DEF Next

\* Types, handlers and packages.
LEMMA TypesPreserved == IInv /\ [Next]_vars => TypeOK' /\ Handlers' /\ Packages'
<1> SUFFICES ASSUME IInv, [Next]_vars PROVE TypeOK' /\ Handlers' /\ Packages'
  OBVIOUS
<1>1. /\ status' \in [Apps -> ApplicationStatus \cup {"absent", "deleted"}]
      /\ threaded' \in [Apps -> BOOLEAN]
  BY DocumentStep DEF DocumentsMove
<1>2. overlap' \in BOOLEAN /\ cut' \subseteq Apps
  <2>1. CASE Crash
    <3>1. \A c \in Clients : handler[c].pc = "record" => handler[c].app \in Apps
      BY ClientTypes DEF HandlerOK
    <3>2. QED
      BY <2>1, <3>1 DEF Crash, IInv, TypeOK
  <2>2. ASSUME NEW c \in Clients,
               PlainNode(c) \/ TailorResume(c) \/ GenerateCoverLetter(c) \/ HumanReview(c)
        PROVE  UNCHANGED <<overlap, cut>>
    BY <2>2, NodesMove DEF NodeMoves
  <2>3. ASSUME NEW c \in Clients, StartAccepted(c) PROVE overlap' \in BOOLEAN /\ cut' \subseteq Apps
    BY <2>3 DEF StartAccepted, IInv, TypeOK
  <2>4. ASSUME UNCHANGED <<overlap, cut>> PROVE overlap' \in BOOLEAN /\ cut' \subseteq Apps
    BY <2>4 DEF IInv, TypeOK
  <2>5. QED
    BY <2>1, <2>2, <2>3, <2>4
    DEF Next, UserStep, ServerStep, vars, StartCreates, Begin, Load, Interrupt, NodeRaises, Record,
        EditLoads, EditPuts, AddApplication, Review, Patch, PatchWrites, Edit, Delete
<1>3. /\ handler' \in [Clients -> Handler] /\ Handlers'
      /\ checkpoint' \in [Apps -> Package] /\ Packages'
  <2>1. ASSUME NEW c \in Clients, ClientMoves(c)
        PROVE  /\ handler' \in [Clients -> Handler] /\ Handlers'
               /\ checkpoint' \in [Apps -> Package] /\ Packages'
    <3>1. handler' \in [Clients -> Handler] /\ Handlers'
      BY <2>1 DEF ClientMoves, HandlerMoves, IInv, TypeOK, Handlers
    <3>2. checkpoint' \in [Apps -> Package] /\ Packages'
      BY <2>1 DEF ClientMoves, Written, IInv, TypeOK, Packages
    <3>3. QED
      BY <3>1, <3>2
  <2>2. CASE Crash
    BY <2>2, NoHandlerOK DEF Crash, IInv, TypeOK, Handlers, Packages
  <2>3. CASE UNCHANGED vars
    BY <2>3 DEF vars, IInv, TypeOK, Handlers, Packages
  <2>4. QED
    BY <2>1, <2>2, <2>3, WhoMoves, RequestMoves, ServerMoves
<1>4. QED
  BY <1>1, <1>2, <1>3 DEF TypeOK

\* An application that a thread or a handler belongs to does not vanish.
LEMMA KnownPreserved == IInv /\ [Next]_vars => Known'
<1> SUFFICES ASSUME IInv, [Next]_vars PROVE Known'
  OBVIOUS
<1>1. \A a \in Apps : status[a] # "absent" => status'[a] # "absent"
  BY DocumentStep DEF DocumentsMove, StatusMoves
<1>2. ASSUME NEW c \in Clients, ClientMoves(c) PROVE Known'
  <2>1. \A d \in Clients \ {c} : handler'[d] = handler[d]
    BY <1>2 DEF ClientMoves, HandlerMoves, IInv, TypeOK
  <2>2. \A a \in Apps : \/ checkpoint'[a] = checkpoint[a]
                        \/ checkpoint'[a].next # "none" /\ a = handler[c].app
    BY <1>2 DEF ClientMoves, Written, IInv, TypeOK
  <2>3. \A a \in Apps : checkpoint'[a].next # "none" => status'[a] # "absent"
    BY <1>1, <2>2 DEF IInv, Known
  <2>4. handler'[c].app \in Apps => status'[handler'[c].app] # "absent"
    BY <1>1, <1>2, SentinelAssumption DEF ClientMoves, AppKnown, IInv, Known
  <2>5. \A d \in Clients : handler'[d].app \in Apps => status'[handler'[d].app] # "absent"
    BY <1>1, <2>1, <2>4 DEF IInv, Known
  <2>6. \A d \in Clients :
          handler'[d].pc \in {"load", "edit"} => handler'[d].app \in Apps
    BY TypesPreserved DEF Handlers, HandlerOK
  <2>7. \A d \in Clients :
          handler'[d].pc \in {"load", "edit"} => checkpoint[handler'[d].app].next # "none"
    BY <1>2, <2>1 DEF ClientMoves, IInv, Known
  <2>8. \A a \in Apps : checkpoint[a].next # "none" => checkpoint'[a].next # "none"
    BY <2>2
  <2>9. QED
    BY <2>3, <2>5, <2>6, <2>7, <2>8 DEF Known
<1>3. CASE Crash
  BY <1>3, SentinelAssumption DEF Crash, NoHandler, IInv, Known
<1>4. CASE UNCHANGED vars
  BY <1>4 DEF vars, IInv, Known
<1>5. QED
  BY <1>2, <1>3, <1>4, WhoMoves, RequestMoves, ServerMoves

\* What the steps of one request do to the parts of Decided and Starts.
StepEffects(c) ==
    /\ \A a \in Apps :
         checkpoint'[a].next = "END" =>
           \/ checkpoint[a].next = "END"
           \/ Deciding(c, a)'
           \/ /\ handler[c].pc = "put" /\ handler[c].package.next = "END"
              /\ handler[c].app = a
    /\ handler'[c].pc = "put" =>
         /\ handler[c].app \in Apps /\ handler'[c].app = handler[c].app
         /\ handler'[c].package.next = checkpoint[handler[c].app].next
    /\ handler'[c].pc = "create" => StartAccepted(c)
    /\ cut' = cut
    /\ overlap' = overlap \/ StartAccepted(c)

\* The effects of the steps that accept a request.
LEMMA RequestEffects ==
    ASSUME IInv, NEW c \in Clients, UserStep(c)
    PROVE  StepEffects(c)
<1> USE ClientTypes
<1>1. CASE StartAccepted(c)
  BY <1>1, AcceptMoves DEF StartAccepted, StepEffects
<1>2. CASE AddApplication(c)
  BY <1>2 DEF AddApplication, Idle, StepEffects
<1>3. ASSUME NEW a \in Apps, NEW decision \in Decisions, Review(c, a, decision) PROVE StepEffects(c)
  BY <1>3, AcceptMoves DEF Review, StepEffects
<1>4. ASSUME NEW a \in Apps, Edit(c, a) PROVE StepEffects(c)
  BY <1>4, AcceptMoves DEF Edit, StepEffects
<1>5. ASSUME NEW a \in Apps, NEW s \in PatchTargets, Patch(c, a, s) PROVE StepEffects(c)
  BY <1>5, PatchMoves DEF Patch, StepEffects
<1>6. ASSUME NEW a \in Apps, Delete(c, a) PROVE StepEffects(c)
  BY <1>6 DEF Delete, Idle, StepEffects
<1>7. QED
  BY <1>1, <1>2, <1>3, <1>4, <1>5, <1>6 DEF UserStep

\* The effects of the steps that serve one.
LEMMA ServerEffects ==
    ASSUME IInv, NEW c \in Clients, ServerStep(c) \/ NodeRaises(c)
    PROVE  StepEffects(c)
<1> USE ClientTypes
<1>1. CASE StartCreates(c)
  <2>1. PICK a \in Apps : Accept(c, "begin", "start", a)
    BY <1>1 DEF StartCreates
  <2>2. QED
    BY <1>1, <2>1, AcceptMoves DEF StartCreates, StepEffects
<1>2. CASE Begin(c)
  <2>1. handler[c].app \in Apps
    BY <1>2 DEF Begin, HandlerOK
  <2>2. \A a \in Apps : checkpoint'[a].next = "END" => checkpoint[a].next = "END"
    BY <1>2, <2>1, BeginMoves DEF Begin, IInv, TypeOK
  <2>3. QED
    BY <1>2, <2>2, BeginMoves DEF Begin, StepEffects
<1>3. CASE Load(c)
  BY <1>3, LoadMoves DEF Load, StepEffects
<1>4. CASE PlainNode(c) \/ TailorResume(c) \/ GenerateCoverLetter(c) \/ HumanReview(c)
  BY <1>4, NodesMove DEF NodeMoves, StepEffects
<1>5. CASE NodeRaises(c) \/ Record(c) \/ PatchWrites(c)
  BY <1>5, FinishMoves DEF NodeRaises, Record, PatchWrites, StepEffects
<1>6. CASE Interrupt(c)
  BY <1>6, InterruptMoves DEF Interrupt, StepEffects
<1>7. CASE EditLoads(c)
  BY <1>7, EditMoves DEF EditLoads, StepEffects, HandlerOK
<1>8. CASE EditPuts(c)
  <2>1. \A a \in Apps \ {handler[c].app} : checkpoint'[a] = checkpoint[a]
    BY <1>8, PutWrites DEF IInv, TypeOK
  <2>2. checkpoint'[handler[c].app] = handler[c].package
    BY <1>8, PutWrites DEF IInv, TypeOK
  <2>3. QED
    BY <1>8, <2>1, <2>2, FinishMoves DEF EditPuts, StepEffects
<1>9. QED
  BY <1>1, <1>2, <1>3, <1>4, <1>5, <1>6, <1>7, <1>8 DEF ServerStep

\* A handler that has to record a decision does nothing else.
LEMMA RecordIsNext ==
    ASSUME NEW c \in Clients, handler[c].pc = "record",
           UserStep(c) \/ ServerStep(c) \/ NodeRaises(c)
    PROVE  Record(c)
  BY DEF UserStep, ServerStep, StartAccepted, StartCreates, Begin, Load, PlainNode, TailorResume,
         GenerateCoverLetter, Interrupt, HumanReview, EditLoads, EditPuts, AddApplication, Review,
         Patch, PatchWrites, Edit, Delete, NodeRaises, At, Idle

\* What is released stays so, until the application is saved anew under its id.
LEMMA ReleasedStays ==
    ASSUME IInv, [Next]_vars, NEW a \in Apps, status[a] # "absent", Released(a)
    PROVE  Released(a)'
<1>1. CASE ~InProgress(a)
  BY <1>1, DocumentStep DEF DocumentsMove, StatusMoves, InProgress, Released
<1>2. cut \subseteq cut'
  BY WhoMoves, RequestEffects, ServerEffects DEF StepEffects, Crash, vars
<1>3. ASSUME NEW c \in Clients, Deciding(c, a), InProgress(a) PROVE Released(a)'
  <2>1. ASSUME NEW d \in Clients, UserStep(d) \/ ServerStep(d) \/ NodeRaises(d), c # d
        PROVE  Deciding(c, a)'
    <3>1. HandlerMoves(d)
      BY <2>1, RequestMoves, ServerMoves DEF ClientMoves
    <3>2. handler'[c] = handler[c]
      BY <2>1, <3>1 DEF HandlerMoves, IInv, TypeOK
    <3>3. QED
      BY <1>3, <3>2 DEF Deciding
  <2>2. CASE UserStep(c) \/ ServerStep(c) \/ NodeRaises(c)
    <3>1. Record(c) /\ handler[c].kind \in {"approve", "reject"} /\ handler[c].app = a
      BY <1>3, <2>2, RecordIsNext DEF Deciding
    <3>2. status'[a] \in {"applied", "withdrawn"}
      BY <1>3, <3>1 DEF Record, SetStatus, InProgress, Stored, ApplicationStatus, IInv, TypeOK
    <3>3. QED
      BY <3>2 DEF Released, InProgress
  <2>3. CASE Crash
    BY <1>3, <2>3 DEF Crash, Deciding, Released
  <2>4. CASE UNCHANGED vars
    BY <1>3, <2>4 DEF vars, Deciding, Released
  <2>5. QED
    BY <2>1, <2>2, <2>3, <2>4, WhoMoves DEF Released
<1>4. QED
  BY <1>1, <1>2, <1>3 DEF Released

\* A thread ends in a review that goes on to record its decision.
LEMMA DecidedPreserved == IInv /\ [Next]_vars => Decided'
<1> SUFFICES ASSUME IInv, [Next]_vars PROVE Decided'
  OBVIOUS
<1>1. ASSUME NEW a \in Apps, checkpoint[a].next = "END" PROVE Released(a)'
  <2>1. status[a] # "absent" /\ Released(a)
    BY <1>1 DEF IInv, Decided, Known
  <2>2. QED
    BY <2>1, ReleasedStays
<1>2. ASSUME NEW c \in Clients, NEW a \in Apps, handler[c].app = a,
             handler[c].pc = "put", handler[c].package.next = "END"
      PROVE  Released(a)'
  <2>1. status[a] # "absent" /\ Released(a)
    BY <1>2 DEF IInv, Decided, Known
  <2>2. QED
    BY <2>1, ReleasedStays
<1>3. ASSUME NEW c \in Clients, StepEffects(c), HandlerMoves(c) PROVE Decided'
  <2>1. ASSUME NEW a \in Apps, checkpoint'[a].next = "END" PROVE Released(a)'
    <3>1. \/ checkpoint[a].next = "END"
          \/ Deciding(c, a)'
          \/ handler[c].pc = "put" /\ handler[c].package.next = "END" /\ handler[c].app = a
      BY <1>3, <2>1 DEF StepEffects
    <3>2. Deciding(c, a)' => Released(a)'
      BY DEF Released
    <3>3. QED
      BY <1>1, <1>2, <3>1, <3>2
  <2>2. ASSUME NEW d \in Clients, NEW a \in Apps, handler'[d].app = a,
               handler'[d].pc = "put", handler'[d].package.next = "END"
        PROVE  Released(a)'
    <3>1. CASE d = c
      <4>1. checkpoint[a].next = "END"
        BY <1>3, <2>2, <3>1 DEF StepEffects
      <4>2. QED
        BY <1>1, <4>1
    <3>2. CASE d # c
      <4>1. handler'[d] = handler[d]
        BY <1>3, <3>2 DEF HandlerMoves, IInv, TypeOK
      <4>2. QED
        BY <1>2, <2>2, <4>1
    <3>3. QED
      BY <3>1, <3>2
  <2>3. \A d \in Clients : handler'[d].pc = "put" => handler'[d].app \in Apps
    BY TypesPreserved DEF Handlers, HandlerOK
  <2>4. QED
    BY <2>1, <2>2, <2>3 DEF Decided
<1>4. CASE Crash
  <2>1. \A a \in Apps : checkpoint'[a].next = "END" => Released(a)'
    BY <1>1, <1>4 DEF Crash
  <2>2. \A c \in Clients : handler'[c].pc = "idle"
    BY <1>4 DEF Crash, NoHandler
  <2>3. QED
    BY <2>1, <2>2 DEF Decided
<1>5. CASE UNCHANGED vars
  BY <1>5 DEF vars, IInv, Decided, Released, Deciding, InProgress
<1>6. QED
  BY <1>3, <1>4, <1>5, WhoMoves, RequestEffects, ServerEffects, RequestMoves, ServerMoves
  DEF ClientMoves

\* The start that was accepted alone finds nothing in progress when it inserts.
LEMMA StartsPreserved == IInv /\ [Next]_vars => Starts'
<1> SUFFICES ASSUME IInv, [Next]_vars PROVE Starts'
  OBVIOUS
<1>1. ASSUME NEW c \in Clients, StartAccepted(c) PROVE Starts'
  <2>1. CASE \E d \in Clients : handler[d].pc = "create"
    BY <1>1, <2>1 DEF StartAccepted, Starts
  <2>2. CASE \A d \in Clients : handler[d].pc # "create"
    <3>1. \A d \in Clients : handler'[d].pc = "create" => d = c
      BY <1>1, <2>2 DEF StartAccepted, Accept, IInv, TypeOK
    <3>2. \A a \in Apps : ~InProgress(a)'
      BY <1>1 DEF StartAccepted, InProgress
    <3>3. QED
      BY <3>1, <3>2 DEF Starts, CheckHolds
  <2>3. QED
    BY <2>1, <2>2
<1>2. ASSUME NEW c \in Clients, StartCreates(c), CheckHolds PROVE Starts'
  <2>1. PICK a \in Apps : Create(a, TRUE) /\ Accept(c, "begin", "start", a)
    BY <1>2 DEF StartCreates
  <2>2. HandlerMoves(c) /\ handler'[c].pc = "begin"
    BY <2>1, AcceptMoves
  <2>3. \A d \in Clients : handler'[d].pc # "create"
    BY <1>2, <2>2 DEF HandlerMoves, StartCreates, CheckHolds, IInv, TypeOK
  <2>4. \A b \in Apps : InProgress(b)' => b = a
    BY <1>2, <2>1 DEF Create, InProgress, StartCreates, CheckHolds, IInv, TypeOK
  <2>5. QED
    BY <2>3, <2>4 DEF Starts, CheckHolds
<1>3. ASSUME UNCHANGED overlap,
             \A c \in Clients : handler'[c].pc = "create" => handler[c].pc = "create",
             \A a \in Apps : InProgress(a)' => InProgress(a)
      PROVE  Starts'
  BY <1>3 DEF IInv, Starts, CheckHolds
<1>4. ASSUME NEW c \in Clients, UserStep(c) \/ ServerStep(c) \/ NodeRaises(c)
      PROVE  Starts'
  <2>1. StepEffects(c) /\ HandlerMoves(c)
    BY <1>4, RequestEffects, ServerEffects, RequestMoves, ServerMoves DEF ClientMoves
  <2>2. CASE \E d \in Clients : StartAccepted(d)
    BY <1>1, <2>2
  <2>3. ASSUME NEW d \in Clients, StartCreates(d) PROVE Starts'
    <3>1. CASE overlap
      BY <2>3, <3>1 DEF StartCreates, Starts
    <3>2. CASE CheckHolds
      BY <1>2, <2>3, <3>2
    <3>3. QED
      BY <3>1, <3>2 DEF IInv, Starts
  <2>4. CASE \A d \in Clients : ~StartAccepted(d) /\ ~StartCreates(d)
    <3>1. UNCHANGED overlap
      BY <2>1, <2>4 DEF StepEffects
    <3>2. \A d \in Clients : handler'[d].pc = "create" => handler[d].pc = "create"
      BY <2>1, <2>4 DEF StepEffects, HandlerMoves, IInv, TypeOK
    <3>3. \A a \in Apps : InProgress(a)' => InProgress(a)
      BY <2>4, DocumentStep DEF DocumentsMove, StatusMoves, InProgress
    <3>4. QED
      BY <1>3, <3>1, <3>2, <3>3
  <2>5. QED
    BY <2>2, <2>3, <2>4
<1>5. CASE Crash
  <2>1. \A c \in Clients : handler'[c].pc # "create"
    BY <1>5 DEF Crash, NoHandler
  <2>2. QED
    BY <1>3, <1>5, <2>1 DEF Crash, InProgress
<1>6. CASE UNCHANGED vars
  BY <1>3, <1>6 DEF vars, InProgress
<1>7. QED
  BY <1>4, <1>5, <1>6, WhoMoves

-----------------------------------------------------------------------------
(***************************************************************************)
(* Every reachable state satisfies the invariant.                          *)
(***************************************************************************)
THEOREM Inductive == Spec => []IInv
<1>1. IInv /\ [Next]_vars => IInv'
  BY TypesPreserved, KnownPreserved, DecidedPreserved, StartsPreserved DEF IInv
<1>2. QED
  BY InitEstablishes, <1>1, PTL DEF Spec

(***************************************************************************)
(* The variables keep their types, for any number of tabs and              *)
(* applications.                                                           *)
(***************************************************************************)
THEOREM TypeCorrect == Spec => []TypeOK
<1>1. IInv => TypeOK
  BY DEF IInv
<1>2. QED
  BY Inductive, <1>1, PTL

(***************************************************************************)
(* The check of start_assembly keeps assemblies from running side by side, *)
(* as long as no two starts overlap between check and insert.              *)
(***************************************************************************)
THEOREM OneAssemblyAtATime == Spec => []OneAssembly
<1>1. IInv => OneAssembly
  BY DEF IInv, Starts, CheckHolds, OneAssembly
<1>2. QED
  BY Inductive, <1>1, PTL

(***************************************************************************)
(* Whatever reviews and edits race, an edit of the pitch alone included,   *)
(* the letter of a package that is under review or decided was written     *)
(* from its resume, or the user typed one of the two since.                *)
(***************************************************************************)
THEOREM PackagesCohere == Spec => []PackageCoherent
<1>1. IInv => PackageCoherent
  BY DEF IInv, Packages, Coherent, PackageCoherent
<1>2. QED
  BY Inductive, <1>1, PTL

(***************************************************************************)
(* A decided thread whose requests are answered, none of them by a         *)
(* restart, no longer blocks the user's next start.                        *)
(***************************************************************************)
THEOREM DecisionReleases == Spec => []DecidedIsReleased
<1>1. IInv => DecidedIsReleased
  BY DEF IInv, Decided, Released, Deciding, DecidedIsReleased
<1>2. QED
  BY Inductive, <1>1, PTL

(***************************************************************************)
(* No late update brings a deleted application back, or one that advanced  *)
(* back to "saved".                                                        *)
(***************************************************************************)
THEOREM ApplicationsNeverReturn == Spec => NoWayBack
<1> DEFINE Forward == \A a \in Apps :
             /\ status[a] = "deleted" => status'[a] = "deleted"
             /\ status[a] # "absent" /\ status'[a] = "saved" => status[a] = "saved"
<1>1. IInv /\ [Next]_vars => [Forward]_vars
  BY DocumentStep DEF DocumentsMove, StatusMoves
<1>2. QED
  BY Inductive, <1>1, PTL DEF Spec, NoWayBack
=============================================================================
