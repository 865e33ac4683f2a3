------------------------------ MODULE HighWater ------------------------------
(***************************************************************************)
(* What a guard against a clock that is set back promises: it remembers a  *)
(* time that never decreases, and it accepts a reading of the clock only   *)
(* if that is at most Tolerance below the time it remembers, and is        *)
(* remembered itself.                                                      *)
(***************************************************************************)
EXTENDS Naturals

CONSTANTS Tolerance

VARIABLES
  high,      \* the time it remembers
  accepted   \* the reading the last step accepted, if it did

vars == <<high, accepted>>

Init == high = 0 /\ accepted = {}

Raise == high' \in Nat /\ high' > high /\ accepted' = {}

Accept(n) ==
  /\ high <= n + Tolerance
  /\ accepted' = {n}
  /\ UNCHANGED high

NoVerdict == accepted' = {} /\ UNCHANGED high

Next == Raise \/ NoVerdict \/ \E n \in 0..high : Accept(n)

Spec == Init /\ [][Next]_vars
=============================================================================
