------------------------- MODULE ManagedPubSubProofs ------------------------
(***************************************************************************)
(* Theorems about the registrar of topic handlers, for any number of       *)
(* goroutines, filters and topics.                                         *)
(***************************************************************************)
EXTENDS ManagedPubSub, TLAPS

\* Where a call may be: only a stopped registrar undoes a registration or has
\* entries to unsubscribe, and then it holds none itself.
CallsOK ==
  /\ stopped => items = {}
  /\ \A p \in Procs :
       /\ at[p] = "undo" => stopped
       /\ todo[p] # {} => stopped /\ at[p] = "stopping"
       /\ at[p] \in {"subscribe", "record", "undo"} <=> entry[p] # NoEntry

\* Every identifier in use is below the next one.
IdentifiersBelowNext ==
  /\ \A e \in items : e[2] < nextID
  /\ \A p \in Procs : entry[p] # NoEntry => entry[p][2] < nextID

\* A call about to record its entry finds it registered, and no Stop will take it.
RecordFindsEntry ==
  \A p \in Procs :
    /\ at[p] = "record" => entry[p] \in registered
    /\ entry[p] # NoEntry => \A q \in Procs : entry[p] \notin todo[q]

IInv ==
  /\ TypeOK
  /\ CallsOK
  /\ IdentifiersBelowNext
  /\ IdentifiersDiffer
  /\ HandlersHaveOwners
  /\ ManagedIsRegistered
  /\ RecordFindsEntry
-----------------------------------------------------------------------------
(* The inductive invariant.                                                *)

\* Before the first call nothing is registered: IInv holds.
LEMMA InitInv == Init => IInv
<1> SUFFICES ASSUME Init PROVE IInv
  OBVIOUS
<1>a. nextID \in 1..(MaxTopics + 1)
  BY PubSubAssumption DEF Init
<1>b. /\ at \in [Procs -> Places]
      /\ entry \in [Procs -> Entry \cup {NoEntry}]
      /\ todo \in [Procs -> SUBSET Entry]
  BY DEF Init, Places
<1>1. TypeOK
  BY <1>a, <1>b DEF Init, TypeOK
<1>2. CallsOK /\ RecordFindsEntry
  BY DEF Init, CallsOK, RecordFindsEntry
<1>3. IdentifiersBelowNext /\ IdentifiersDiffer
  BY DEF Init, IdentifiersBelowNext, IdentifiersDiffer
<1>4. HandlersHaveOwners /\ ManagedIsRegistered
  BY DEF Init, HandlersHaveOwners, ManagedIsRegistered
<1>5. QED
  BY <1>1, <1>2, <1>3, <1>4 DEF IInv

\* Every step of Topic and of Stop keeps IInv.
LEMMA InvStep == IInv /\ [Next]_vars => IInv'
<1> SUFFICES ASSUME IInv, [Next]_vars PROVE IInv'
  OBVIOUS
<1>a. \A e \in Entry : e # NoEntry /\ e[2] \in 1..MaxTopics
  BY DEF Entry, NoEntry
<1> USE PubSubAssumption, <1>a DEF IInv, Places, Procs, Goto
<1>1. ASSUME NEW p \in Registrars, NEW f \in Filters, TopicBegin(p, f)
      PROVE  IInv'
  <2>1. TypeOK'
    BY <1>1 DEF TypeOK, CallsOK, TopicBegin, Entry
  <2>a. <<f, nextID>> \in Entry
    BY <1>1 DEF TypeOK, TopicBegin, Entry
  <2>b. entry' = [entry EXCEPT ![p] = <<f, nextID>>] /\ <<f, nextID>> # NoEntry
    BY <1>1, <2>a, <1>a DEF TopicBegin
  <2>2. CallsOK'
    BY <1>1, <2>b DEF CallsOK, TypeOK, TopicBegin
  <2>3. IdentifiersBelowNext'
    BY <1>1 DEF IdentifiersBelowNext, TypeOK, CallsOK, TopicBegin
  <2>4. IdentifiersDiffer'
    BY <1>1
       DEF IdentifiersDiffer, TypeOK, CallsOK, IdentifiersBelowNext,
           TopicBegin
  <2>5. HandlersHaveOwners'
    BY <1>1 DEF HandlersHaveOwners, TypeOK, CallsOK, Owned, TopicBegin
  <2>6. ManagedIsRegistered'
    BY <1>1 DEF ManagedIsRegistered, RecordFindsEntry, TypeOK, CallsOK, TopicBegin
  <2>7. RecordFindsEntry'
    BY <1>1
       DEF RecordFindsEntry, IdentifiersDiffer, IdentifiersBelowNext, TypeOK,
           CallsOK, TopicBegin
  <2>8. QED
    BY <2>1, <2>2, <2>3, <2>4, <2>5, <2>6, <2>7
<1>2. ASSUME NEW p \in Registrars, SubscribeOk(p)
      PROVE  IInv'
  <2>1. TypeOK'
    BY <1>2 DEF TypeOK, CallsOK, SubscribeOk
  <2>2. CallsOK'
    BY <1>2 DEF CallsOK, TypeOK, SubscribeOk
  <2>3. IdentifiersBelowNext'
    BY <1>2 DEF IdentifiersBelowNext, TypeOK, CallsOK, SubscribeOk
  <2>4. IdentifiersDiffer'
    BY <1>2
       DEF IdentifiersDiffer, TypeOK, CallsOK, IdentifiersBelowNext,
           SubscribeOk
  <2>5. HandlersHaveOwners'
    BY <1>2 DEF HandlersHaveOwners, TypeOK, CallsOK, Owned, SubscribeOk
  <2>6. ManagedIsRegistered'
    BY <1>2 DEF ManagedIsRegistered, RecordFindsEntry, TypeOK, CallsOK, SubscribeOk
  <2>7. RecordFindsEntry'
    BY <1>2
       DEF RecordFindsEntry, IdentifiersDiffer, IdentifiersBelowNext, TypeOK,
           CallsOK, SubscribeOk
  <2>8. QED
    BY <2>1, <2>2, <2>3, <2>4, <2>5, <2>6, <2>7
<1>3. ASSUME NEW p \in Registrars, SubscribeFails(p)
      PROVE  IInv'
  <2>1. TypeOK'
    BY <1>3 DEF TypeOK, CallsOK, SubscribeFails
  <2>2. CallsOK'
    BY <1>3 DEF CallsOK, TypeOK, SubscribeFails
  <2>3. IdentifiersBelowNext'
    BY <1>3 DEF IdentifiersBelowNext, TypeOK, CallsOK, SubscribeFails
  <2>4. IdentifiersDiffer'
    BY <1>3
       DEF IdentifiersDiffer, TypeOK, CallsOK, IdentifiersBelowNext,
           SubscribeFails
  <2>5. HandlersHaveOwners'
    BY <1>3 DEF HandlersHaveOwners, TypeOK, CallsOK, Owned, SubscribeFails
  <2>6. ManagedIsRegistered'
    BY <1>3 DEF ManagedIsRegistered, RecordFindsEntry, TypeOK, CallsOK, SubscribeFails
  <2>7. RecordFindsEntry'
    BY <1>3
       DEF RecordFindsEntry, IdentifiersDiffer, IdentifiersBelowNext, TypeOK,
           CallsOK, SubscribeFails
  <2>8. QED
    BY <2>1, <2>2, <2>3, <2>4, <2>5, <2>6, <2>7
<1>4. ASSUME NEW p \in Registrars, Record(p)
      PROVE  IInv'
  <2>1. TypeOK'
    BY <1>4 DEF TypeOK, CallsOK, Record
  <2>2. CallsOK'
    BY <1>4 DEF CallsOK, TypeOK, Record
  <2>3. IdentifiersBelowNext'
    BY <1>4 DEF IdentifiersBelowNext, TypeOK, CallsOK, Record
  <2>4. IdentifiersDiffer'
    BY <1>4 DEF IdentifiersDiffer, TypeOK, CallsOK, IdentifiersBelowNext, Record
  <2>5. HandlersHaveOwners'
    BY <1>4 DEF HandlersHaveOwners, TypeOK, CallsOK, Owned, Record
  <2>6. ManagedIsRegistered'
    BY <1>4 DEF ManagedIsRegistered, RecordFindsEntry, TypeOK, CallsOK, Record
  <2>7. RecordFindsEntry'
    BY <1>4
       DEF RecordFindsEntry, IdentifiersDiffer, IdentifiersBelowNext, TypeOK,
           CallsOK, Record
  <2>8. QED
    BY <2>1, <2>2, <2>3, <2>4, <2>5, <2>6, <2>7
<1>5. ASSUME NEW p \in Registrars, Undo(p)
      PROVE  IInv'
  <2>1. TypeOK'
    BY <1>5 DEF TypeOK, CallsOK, Undo
  <2>2. CallsOK'
    BY <1>5 DEF CallsOK, TypeOK, Undo
  <2>3. IdentifiersBelowNext'
    BY <1>5 DEF IdentifiersBelowNext, TypeOK, CallsOK, Undo
  <2>4. IdentifiersDiffer'
    BY <1>5 DEF IdentifiersDiffer, TypeOK, CallsOK, IdentifiersBelowNext, Undo
  <2>5. HandlersHaveOwners'
    BY <1>5 DEF HandlersHaveOwners, TypeOK, CallsOK, Owned, Undo
  <2>6. ManagedIsRegistered'
    BY <1>5 DEF ManagedIsRegistered, RecordFindsEntry, TypeOK, CallsOK, Undo
  <2>7. RecordFindsEntry'
    BY <1>5
       DEF RecordFindsEntry, IdentifiersDiffer, IdentifiersBelowNext, TypeOK,
           CallsOK, Undo
  <2>8. QED
    BY <2>1, <2>2, <2>3, <2>4, <2>5, <2>6, <2>7
<1>6. ASSUME NEW p \in Stoppers, StopBegin(p)
      PROVE  IInv'
  <2>1. TypeOK'
    BY <1>6 DEF TypeOK, CallsOK, StopBegin
  <2>2. CallsOK'
    BY <1>6 DEF CallsOK, TypeOK, StopBegin
  <2>3. IdentifiersBelowNext'
    BY <1>6 DEF IdentifiersBelowNext, TypeOK, CallsOK, StopBegin
  <2>4. IdentifiersDiffer'
    BY <1>6
       DEF IdentifiersDiffer, TypeOK, CallsOK, IdentifiersBelowNext, StopBegin
  <2>5. HandlersHaveOwners'
    BY <1>6 DEF HandlersHaveOwners, TypeOK, CallsOK, Owned, StopBegin
  <2>6. ManagedIsRegistered'
    BY <1>6 DEF ManagedIsRegistered, RecordFindsEntry, TypeOK, CallsOK, StopBegin
  <2>7. RecordFindsEntry'
    BY <1>6
       DEF RecordFindsEntry, IdentifiersDiffer, IdentifiersBelowNext, TypeOK,
           CallsOK, StopBegin
  <2>8. QED
    BY <2>1, <2>2, <2>3, <2>4, <2>5, <2>6, <2>7
<1>7. ASSUME NEW p \in Stoppers, StopNext(p)
      PROVE  IInv'
  <2>1. TypeOK'
    BY <1>7 DEF TypeOK, CallsOK, StopNext
  <2>2. CallsOK'
    BY <1>7 DEF CallsOK, TypeOK, StopNext
  <2>3. IdentifiersBelowNext'
    BY <1>7 DEF IdentifiersBelowNext, TypeOK, CallsOK, StopNext
  <2>4. IdentifiersDiffer'
    BY <1>7
       DEF IdentifiersDiffer, TypeOK, CallsOK, IdentifiersBelowNext, StopNext
  <2>5. HandlersHaveOwners'
    BY <1>7 DEF HandlersHaveOwners, TypeOK, CallsOK, Owned, StopNext
  <2>6. ManagedIsRegistered'
    BY <1>7 DEF ManagedIsRegistered, RecordFindsEntry, TypeOK, CallsOK, StopNext
  <2>7. RecordFindsEntry'
    BY <1>7
       DEF RecordFindsEntry, IdentifiersDiffer, IdentifiersBelowNext, TypeOK,
           CallsOK, StopNext
  <2>8. QED
    BY <2>1, <2>2, <2>3, <2>4, <2>5, <2>6, <2>7
<1>8. ASSUME NEW p \in Stoppers, StopReturns(p)
      PROVE  IInv'
  <2>1. TypeOK'
    BY <1>8 DEF TypeOK, CallsOK, StopReturns
  <2>2. CallsOK'
    BY <1>8 DEF CallsOK, TypeOK, StopReturns
  <2>3. IdentifiersBelowNext'
    BY <1>8 DEF IdentifiersBelowNext, TypeOK, CallsOK, StopReturns
  <2>4. IdentifiersDiffer'
    BY <1>8
       DEF IdentifiersDiffer, TypeOK, CallsOK, IdentifiersBelowNext,
           StopReturns
  <2>5. HandlersHaveOwners'
    BY <1>8 DEF HandlersHaveOwners, TypeOK, CallsOK, Owned, StopReturns
  <2>6. ManagedIsRegistered'
    BY <1>8 DEF ManagedIsRegistered, RecordFindsEntry, TypeOK, CallsOK, StopReturns
  <2>7. RecordFindsEntry'
    BY <1>8
       DEF RecordFindsEntry, IdentifiersDiffer, IdentifiersBelowNext, TypeOK,
           CallsOK, StopReturns
  <2>8. QED
    BY <2>1, <2>2, <2>3, <2>4, <2>5, <2>6, <2>7
<1>9. CASE UNCHANGED vars
  BY <1>9
     DEF vars, TypeOK, CallsOK, IdentifiersBelowNext, IdentifiersDiffer, HandlersHaveOwners, ManagedIsRegistered, RecordFindsEntry, Owned
<1>10. QED
  BY <1>1, <1>2, <1>3, <1>4, <1>5, <1>6, <1>7, <1>8, <1>9
     DEF Next, TopicStep, StopStep

\* IInv holds in every state of every behaviour.
LEMMA SpecInv == Spec => []IInv
<1>1. IInv /\ [Next]_vars => IInv'
  BY InvStep
<1>2. QED
  BY InitInv, <1>1, PTL DEF Spec

-----------------------------------------------------------------------------
(* The theorems.                                                           *)

\* Type correctness of the registrar and its calls.
THEOREM TypeCorrect == Spec => []TypeOK
BY SpecInv, PTL DEF IInv

\* The second look at `stopped` in Topic closes the window in which Stop has taken
\* the entries and the new one is not among them: no handler loses its owner.
THEOREM NoForgottenHandler == Spec => []HandlersHaveOwners
BY SpecInv, PTL DEF IInv

\* What Topic recorded is registered until Stop takes it.
THEOREM RecordedIsRegistered == Spec => []ManagedIsRegistered
BY SpecInv, PTL DEF IInv

\* nextID, taken under the mutex, tells any two registrations apart.
THEOREM UniqueIdentifiers == Spec => []IdentifiersDiffer
BY SpecInv, PTL DEF IInv
-----------------------------------------------------------------------------
(* What StopRemovesHandlers rests on besides fairness: after Stop no call  *)
(* comes nearer to its beginning, none begins, and when all have returned  *)
(* nothing is registered.                                                  *)

\* When Stop was called and no call is in progress, only what a Subscribe that reported
\* an error has left behind is still registered.
QuietIsClean ==
  stopped /\ (\A p \in Procs : at[p] = "idle") => registered \subseteq orphans

\* The steps that a Topic call has left at its place, the one at hand included.
TopicLeft(place) ==
  CASE place = "subscribe" -> 3 [] place = "record" -> 2 [] place = "undo" -> 1 [] OTHER -> 0

\* Call p goes on: a Topic to a later place, a Stop by one entry or to its end.
Advances(p) ==
  \/ TopicLeft(at'[p]) < TopicLeft(at[p]) /\ UNCHANGED todo
  \/ at[p] = "stopping" /\ at'[p] = "idle" /\ UNCHANGED todo
  \/ /\ UNCHANGED at
     /\ \E e \in todo[p] : todo'[p] = todo[p] \ {e}

\* After Stop each step brings one call nearer to its end, and no call begins.
CallsRunOut ==
  [][stopped =>
       \E p \in Procs :
         /\ at[p] # "idle" /\ Advances(p)
         /\ \A q \in Procs \ {p} : at'[q] = at[q] /\ todo'[q] = todo[q]]_vars

\* The owners that HandlersHaveOwners promises are calls in progress then.
THEOREM QuietRegistrarIsClean == Spec => []QuietIsClean
<1>1. ASSUME IInv, stopped, \A p \in Procs : at[p] = "idle", NEW e \in registered
      PROVE  e \in orphans
  <2>1. items = {} /\ (\A p \in Procs : todo[p] = {})
    BY <1>1 DEF IInv, CallsOK
  <2>. QED  BY <1>1, <2>1 DEF IInv, HandlersHaveOwners, Owned
<1>2. IInv => QuietIsClean
  BY <1>1 DEF QuietIsClean
<1>. QED  BY <1>2, SpecInv, PTL

\* Topic looks at `stopped` first, so that from Stop on the calls in flight are all there
\* will ever be, and each of them has a bounded number of steps left.
THEOREM StoppedCallsRunOut == Spec => CallsRunOut
<1>. DEFINE Right ==
       stopped =>
         \E p \in Procs :
           /\ at[p] # "idle" /\ Advances(p)
           /\ \A q \in Procs \ {p} : at'[q] = at[q] /\ todo'[q] = todo[q]
<1>1. ASSUME IInv, Next PROVE Right
  <2>. SUFFICES ASSUME stopped PROVE Right
    OBVIOUS
  <2>0. at \in [Procs -> Places] /\ todo \in [Procs -> SUBSET Entry]
    BY <1>1 DEF IInv, TypeOK
  <2>1. ASSUME NEW r \in Registrars, TopicStep(r) PROVE Right
    <3>1. r \in Procs /\ UNCHANGED todo /\ \E place \in Places : Goto(r, place)
      BY <2>1 DEF Procs, Places, TopicStep, SubscribeOk, SubscribeFails, Record, Undo
    <3>2. at[r] # "idle" /\ \A q \in Procs \ {r} : at'[q] = at[q]
      BY <2>0, <2>1, <3>1 DEF Goto, TopicStep, SubscribeOk, SubscribeFails, Record, Undo
    <3>3. TopicLeft(at'[r]) < TopicLeft(at[r])
      <4>1. CASE at[r] = "subscribe" /\ at'[r] \in {"record", "idle"}
        BY <4>1 DEF TopicLeft
      <4>2. CASE at[r] = "record" /\ at'[r] = "undo"
        BY <4>2 DEF TopicLeft
      <4>3. CASE at[r] = "undo" /\ at'[r] = "idle"
        BY <4>3 DEF TopicLeft
      <4>. QED
        BY <2>0, <2>1, <3>1, <4>1, <4>2, <4>3
           DEF Goto, TopicStep, SubscribeOk, SubscribeFails, Record, Undo
    <3>. QED  BY <3>1, <3>2, <3>3 DEF Advances
  <2>2. ASSUME NEW s \in Stoppers, StopNext(s) PROVE Right
    <3>1. s \in Procs /\ at[s] = "stopping" /\ UNCHANGED at
      BY <2>2 DEF Procs, StopNext
    <3>2. PICK e \in todo[s] : todo' = [todo EXCEPT ![s] = @ \ {e}]
      BY <2>2 DEF StopNext
    <3>3. todo'[s] = todo[s] \ {e} /\ \A q \in Procs \ {s} : todo'[q] = todo[q]
      BY <2>0, <3>1, <3>2
    <3>. QED  BY <3>1, <3>3 DEF Advances
  <2>3. ASSUME NEW s \in Stoppers, StopReturns(s) PROVE Right
    <3>1. s \in Procs /\ at[s] = "stopping" /\ UNCHANGED todo
      BY <2>3 DEF Procs, StopReturns
    <3>2. at'[s] = "idle" /\ \A q \in Procs \ {s} : at'[q] = at[q]
      BY <2>0, <2>3, <3>1 DEF StopReturns, Goto
    <3>. QED  BY <3>1, <3>2 DEF Advances
  <2>. QED
    BY <1>1, <2>1, <2>2, <2>3 DEF Next, TopicBegin, StopBegin, StopStep
<1>2. IInv /\ [Next]_vars => [Right]_vars
  BY <1>1
<1>. QED  BY <1>2, SpecInv, PTL DEF Spec, CallsRunOut
=============================================================================
