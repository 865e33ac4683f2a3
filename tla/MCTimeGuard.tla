----------------------------- MODULE MCTimeGuard -----------------------------
(* A small instance of TimeGuard.                                          *)
EXTENDS TimeGuard

MCTimes == 0..6
=============================================================================
