------------------------------ MODULE TimeGuard ------------------------------
(***************************************************************************)
(* The guard against a clock that is set back (security/license/           *)
(* time_guard.go).  CheckAndUpdate compares a reading of the clock with    *)
(* the last one it verified, which a file keeps across restarts, and       *)
(* replaces the file by way of a temporary one.  Calls follow each other;  *)
(* any of them may be ended at any point by an error or by the end of the  *)
(* process.                                                                *)
(***************************************************************************)
EXTENDS Naturals

CONSTANTS
  Times,      \* readings of the clock, in seconds
  Tolerance   \* tolerance.Seconds()

ASSUME TimeGuardAssumption ==
  /\ Times \subseteq Nat
  /\ Tolerance \in Nat

VARIABLES
  file, tmp,  \* the state file and the temporary file
  at, now,    \* where the call is, and the reading it is about
  accepted    \* the reading the last step accepted, if it did

vars == <<file, tmp, at, now, accepted>>

Contents == [state : {"none", "torn", "whole"}, time : Times \cup {0}]

Missing == [state |-> "none", time |-> 0]
Torn == [state |-> "torn", time |-> 0]

\* Mutant: the tolerance is written into the record.
WholeWithTolerance(n) == [state |-> "whole", time |-> n + Tolerance]

Whole(n) == [state |-> "whole", time |-> n]

Init ==
  /\ file = Missing
  /\ tmp = Missing
  /\ at = "idle"
  /\ now = 0
  /\ accepted = {}

\* The call ends without accepting, with an error or with the process.
Fail == at' = "idle" /\ now' = 0 /\ accepted' = {} /\ UNCHANGED <<file, tmp>>

Continue(place) == at' = place /\ accepted' = {} /\ UNCHANGED now

CheckAndUpdate(n) ==
  /\ at = "idle"
  /\ at' = "read"
  /\ now' = n
  /\ accepted' = {}
  /\ UNCHANGED <<file, tmp>>

\* Mutant: the tolerance is added on the wrong side.
RolledForward(last) == last > 0 /\ last + Tolerance < now

RolledBack(last) == last > 0 /\ now + Tolerance < last

\* readState and the comparisons.  A state that cannot be decoded is an error, a
\* missing one is that of time 0.
Read ==
  /\ at = "read"
  /\ \/ (file.state = "torn" \/ RolledBack(file.time)) /\ Fail
     \/ /\ file.state # "torn"
        /\ ~RolledBack(file.time)
        /\ Continue(IF now > file.time THEN "create" ELSE "return")
        /\ UNCHANGED <<file, tmp>>

-----------------------------------------------------------------------------
(* writeState: os.WriteFile, which truncates and then fills the temporary  *)
(* file, and os.Rename.                                                    *)

\* Mutant: the state file is written in place.
CreateInPlace ==
  /\ at = "create"
  /\ file' = Torn
  /\ Continue("fill")
  /\ UNCHANGED tmp

Create ==
  /\ at = "create"
  /\ tmp' = Torn
  /\ Continue("fill")
  /\ UNCHANGED file

Fill ==
  /\ at = "fill"
  /\ tmp' = Whole(now)
  /\ Continue("rename")
  /\ UNCHANGED file

Rename ==
  /\ at = "rename"
  /\ file' = tmp
  /\ tmp' = Missing
  /\ Continue("return")

Return ==
  /\ at = "return"
  /\ at' = "idle"
  /\ now' = 0
  /\ accepted' = {now}
  /\ UNCHANGED <<file, tmp>>

\* An error of the file system, a context that was cancelled, or the end of the
\* process: the files stay as they are.
Abort == at # "idle" /\ Fail

Next ==
  \/ \E n \in Times : CheckAndUpdate(n)
  \/ Read \/ Create \/ Fill \/ Rename \/ Return \/ Abort

Spec == Init /\ [][Next]_vars

-----------------------------------------------------------------------------
(* Properties.                                                             *)

\* Type correctness; a file that does not exist records time 0.
TypeOK ==
  /\ file \in Contents
  /\ tmp \in Contents
  /\ at \in {"idle", "read", "create", "fill", "rename", "return"}
  /\ now \in Times \cup {0}
  /\ accepted \subseteq Times \cup {0}

\* Wherever writeState is interrupted, the next readState can decode the file: the
\* guard never locks the application out.
StateIsWhole == file.state # "torn"

Promise == INSTANCE HighWater WITH high <- file.time

\* Across errors, crashes and restarts CheckAndUpdate keeps the promise of a high
\* water mark: the time on record never decreases, and what is accepted is on
\* record and within the tolerance.
ClockCannotGoBack == Promise!Spec
=============================================================================
