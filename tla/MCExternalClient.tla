-------------------------- MODULE MCExternalClient --------------------------
(* Small instances of ExternalClient.                                      *)
EXTENDS ExternalClient, TLC

CONSTANTS h1, a1, l1, l2, c1, c2, f1

OneHost == {h1}
NoApp == {}
OneApp == {a1}
TwoLoops == {l1, l2}
TwoConns == {c1, c2}
OneFilter == {f1}
TwoIds == {1, 2}
OneId == {1}

\* Connections and loops are interchangeable, and so are the goroutines of a kind.
Symmetry == Permutations(Conns) \cup Permutations(Loops) \cup Permutations(Filters)
            \cup Permutations(Hosts) \cup Permutations(Apps)
=============================================================================
