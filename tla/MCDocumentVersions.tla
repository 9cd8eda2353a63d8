------------------------- MODULE MCDocumentVersions -------------------------
(***************************************************************************)
(* An instance of DocumentVersions with more racing starts than attempts.  *)
(***************************************************************************)
EXTENDS DocumentVersions, TLC

CONSTANTS t1, t2, t3, t4

ThreadSymmetry == Permutations(Threads)
=============================================================================
