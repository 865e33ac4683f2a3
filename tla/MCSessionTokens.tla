-------------------------- MODULE MCSessionTokens ---------------------------
(* A small instance of SessionTokens.                                      *)
EXTENDS SessionTokens, TLC

CONSTANTS r1, r2, t1, t2, t3, t4

MCRequests == {r1, r2}
MCTokens == {t1, t2, t3, t4}

Symmetry == Permutations(Requests) \cup Permutations(Tokens)
=============================================================================
