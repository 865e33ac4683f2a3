--------------------------- MODULE MCApiKeyCache ----------------------------
(* Small instances of ApiKeyCache.                                         *)
EXTENDS ApiKeyCache, TLC

CONSTANTS n1, n2, k1, k2, c1, c2, a1

OneNode == {n1}
TwoNodes == {n1, n2}
OneKey == {k1}
TwoKeys == {k1, k2}
OneCaller == {c1}
TwoCallers == {c1, c2}
OneAdmin == {a1}

Symmetry == Permutations(Nodes) \cup Permutations(Keys) \cup Permutations(Callers)
=============================================================================
