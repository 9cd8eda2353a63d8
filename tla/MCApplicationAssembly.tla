----------------------- MODULE MCApplicationAssembly ------------------------
(***************************************************************************)
(* Instances of ApplicationAssembly.                                       *)
(***************************************************************************)
EXTENDS ApplicationAssembly, TLC

CONSTANTS c1, c2, a1, a2

Symmetry == Permutations(Clients) \cup Permutations(Apps)
=============================================================================
