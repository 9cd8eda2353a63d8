-------------------------- MODULE MCRefreshTokens --------------------------
(***************************************************************************)
(* An instance of RefreshTokens: three clients, two logins, and token ids  *)
(* for a chain of rotations.                                               *)
(***************************************************************************)
EXTENDS RefreshTokens, TLC

CONSTANTS c1, c2, c3, f1, f2, j1, j2, j3, j4

Symmetry == Permutations(Clients) \cup Permutations(Families) \cup Permutations(Jtis)
=============================================================================
