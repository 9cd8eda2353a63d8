---------------------------- MODULE ApprovalGate ----------------------------
(***************************************************************************)
(* The human-in-the-loop gate that db/documents/document_record.py         *)
(* promises: "Generated documents are drafts until the user explicitly     *)
(* approves them.  This prevents agents from producing content that the    *)
(* user has not reviewed."  A text becomes the content of a document only  *)
(* after it was presented to the user for that document, and then for good.*)
(***************************************************************************)
CONSTANTS
    Threads,        \* one per document
    Texts,          \* drafts, the empty one included
    NoText          \* no content was approved yet

VARIABLES
    presented,      \* the pairs <<thread, text>> the user has been shown
    approvedText    \* thread -> the content approved for its document

vars == <<presented, approvedText>>

Init ==
    /\ presented = {}
    /\ approvedText = [t \in Threads |-> NoText]

Present(t, x) ==
    /\ presented' = presented \cup {<<t, x>>}
    /\ UNCHANGED approvedText

Approve(t, x) ==
    /\ <<t, x>> \in presented
    /\ approvedText[t] = NoText
    /\ approvedText' = [approvedText EXCEPT ![t] = x]
    /\ UNCHANGED presented

Next == \E t \in Threads, x \in Texts : Present(t, x) \/ Approve(t, x)

Spec == Init /\ [][Next]_vars
=============================================================================
