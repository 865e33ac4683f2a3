-------------------------- MODULE TimeGuardProofs --------------------------
(***************************************************************************)
(* Theorems about TimeGuard, for every set of readings and every           *)
(* tolerance: it implements HighWater, because between the comparison and  *)
(* the verdict nothing but the call itself writes the state file.          *)
(***************************************************************************)
EXTENDS TimeGuard, TLAPS

\* What a call has established where it is.
Progress ==
  /\ at \in {"create", "fill", "rename"} => now > file.time
  /\ at = "rename" => tmp = Whole(now)
  /\ at = "return" => now <= file.time /\ file.time <= now + Tolerance

IInv ==
  /\ TypeOK
  /\ StateIsWhole
  /\ Progress

LEMMA ReadingsAreNumbers ==
  ASSUME NEW t \in Times \cup {0}
  PROVE  t \in Nat
<1>1. CASE t \in Times
  BY <1>1, TimeGuardAssumption DEF TimeGuardAssumption
<1>2. CASE t = 0
  BY <1>2
<1> QED BY <1>1, <1>2

LEMMA InitIInv == Init => IInv /\ file.time = 0
BY TimeGuardAssumption
DEF Init, IInv, TypeOK, StateIsWhole, Progress, Contents, Missing, Whole

LEMMA NextIInv == IInv /\ [Next]_vars => IInv'
<1> SUFFICES ASSUME IInv, [Next]_vars PROVE IInv'
  OBVIOUS
<1>0. file.time \in Nat /\ now \in Nat /\ Tolerance \in Nat
  <2>1. file.time \in Times \cup {0} /\ now \in Times \cup {0}
    BY DEF IInv, TypeOK, Contents
  <2>2. file.time \in Nat
    BY <2>1, ReadingsAreNumbers
  <2>3. now \in Nat
    BY <2>1, ReadingsAreNumbers
  <2> QED BY <2>2, <2>3, TimeGuardAssumption DEF TimeGuardAssumption
<1> USE TimeGuardAssumption DEF IInv, TypeOK, StateIsWhole, Progress, Contents
<1>1. ASSUME NEW n \in Times, CheckAndUpdate(n) PROVE IInv'
  BY <1>1 DEF CheckAndUpdate
<1>2. CASE Read
  <2>1. CASE Fail
    BY <2>1 DEF Fail
  <2>2. CASE ~RolledBack(file.time) /\ Continue(IF now > file.time THEN "create" ELSE "return")
             /\ UNCHANGED <<file, tmp>>
    <3>1. CASE now > file.time
      BY <2>2, <3>1 DEF Continue
    <3>2. CASE ~(now > file.time)
      <4>1. now <= file.time /\ file.time <= now + Tolerance
        BY <1>0, <2>2, <3>2 DEF RolledBack
      <4>2. at' = "return" /\ UNCHANGED <<file, tmp, now>> /\ accepted' = {}
        BY <2>2, <3>2 DEF Continue
      <4> QED BY <4>1, <4>2
    <3> QED BY <3>1, <3>2
  <2> QED BY <1>2, <2>1, <2>2 DEF Read
<1>3. CASE Create
  BY <1>3 DEF Create, Continue, Torn
<1>4. CASE Fill
  BY <1>4 DEF Fill, Continue, Whole
<1>5. CASE Rename
  BY <1>5 DEF Rename, Continue, Whole, Missing
<1>6. CASE Return
  BY <1>6 DEF Return
<1>7. CASE Abort
  BY <1>7 DEF Abort, Fail
<1>8. CASE UNCHANGED vars
  BY <1>8 DEF vars
<1> QED BY <1>1, <1>2, <1>3, <1>4, <1>5, <1>6, <1>7, <1>8 DEF Next

LEMMA Invariance == Spec => []IInv
BY InitIInv, NextIInv, PTL DEF Spec

-----------------------------------------------------------------------------

\* Type correctness of the files and of the call in progress.
THEOREM TypeCorrect == Spec => []TypeOK
<1>1. IInv => TypeOK
  BY DEF IInv
<1> QED BY <1>1, Invariance, PTL

\* Errors and crashes between the steps of writeState leave a state file that the
\* next readState can decode.
THEOREM NeverLockedOut == Spec => []StateIsWhole
<1>1. IInv => StateIsWhole
  BY DEF IInv
<1> QED BY <1>1, Invariance, PTL

\* A step of the guard is a step of the high water mark: Rename raises it, Return
\* accepts a reading that is on record within the tolerance, all others stutter or
\* give no verdict.
LEMMA StepIsPromised == IInv /\ IInv' /\ [Next]_vars => [Promise!Next]_(Promise!vars)
<1> SUFFICES ASSUME IInv, IInv', [Next]_vars PROVE [Promise!Next]_(Promise!vars)
  OBVIOUS
<1> USE TimeGuardAssumption DEF IInv, TypeOK, Progress, Contents, Promise!Next, Promise!vars
<1>1. ASSUME accepted' = {}, UNCHANGED file PROVE Promise!Next
  BY <1>1 DEF Promise!NoVerdict
<1>2. CASE Read \/ Create \/ Fill \/ Abort \/ \E n \in Times : CheckAndUpdate(n)
  BY <1>1, <1>2 DEF Read, Create, Fill, Abort, Fail, Continue, CheckAndUpdate
<1>3. CASE Rename
  <2>1. file'.time = now /\ now > file.time /\ accepted' = {}
    BY <1>3 DEF Rename, Continue, Whole
  <2> QED BY <2>1 DEF Promise!Raise
<1>4. CASE Return
  <2>1. now \in 0..file.time /\ file.time <= now + Tolerance
    BY <1>4 DEF Return
  <2>2. Promise!Accept(now)
    BY <1>4, <2>1 DEF Return, Promise!Accept
  <2> QED BY <2>1, <2>2
<1>5. CASE UNCHANGED vars
  BY <1>5 DEF vars
<1> QED BY <1>2, <1>3, <1>4, <1>5 DEF Next

\* Across errors, crashes and restarts CheckAndUpdate implements a high water mark:
\* the recorded time never decreases and what is accepted is covered by it.
THEOREM ImplementsHighWater == Spec => ClockCannotGoBack
<1>1. Init => Promise!Init
  BY InitIInv DEF Init, Promise!Init
<1> QED BY <1>1, StepIsPromised, Invariance, PTL DEF Spec, ClockCannotGoBack, Promise!Spec
=============================================================================
