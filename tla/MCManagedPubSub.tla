-------------------------- MODULE MCManagedPubSub ---------------------------
(* A small instance of ManagedPubSub.                                      *)
EXTENDS ManagedPubSub

CONSTANTS r1, r2, s1, s2, f1, f2, f3

MCRegistrars == {r1, r2}
MCStoppers == {s1, s2}
MCFilters == {f1, f2, f3}
MCAllowed == {f1, f2}
=============================================================================
