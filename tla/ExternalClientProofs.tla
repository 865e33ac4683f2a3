------------------------ MODULE ExternalClientProofs ------------------------
(***************************************************************************)
(* Theorems about the client of an external MQTT broker, for any number of *)
(* goroutines, connections, filters and calls.                             *)
(***************************************************************************)
EXTENDS ExternalClient, TLAPS

\* The goroutines and their calls: who may be where, executing what.
CallsOK ==
  \A t \in Threads :
    /\ g[t].at \in {"dial", "install", "snapshot", "resubscribe", "failed"} =>
         g[t].op \in {"start", "reconnect"}
    /\ g[t].at = "locate" => g[t].op \in {"subscribe", "unsubscribe", "publish"}
    /\ g[t].at = "closing" => g[t].op = "stop"
    /\ t \in Loops =>
         IF g[t].at = "idle" THEN g[t].op = "none" ELSE g[t].op = "reconnect"
    /\ t \in Callers =>
         /\ g[t].op # "reconnect"
         /\ g[t].at \notin {"backoff", "check", "exiting"}

\* A goroutine owns the connection it established, and no other does, until it
\* has launched its readLoop or given it up.
OwnersOK ==
  /\ \A t \in Threads :
       /\ g[t].mine # None => g[t].op \in {"start", "reconnect"}
       /\ g[t].at \in {"install", "snapshot", "resubscribe", "failed"} =>
            g[t].mine # None
       /\ (g[t].at = "write" /\ g[t].op \in {"start", "reconnect"}) =>
            g[t].mine # None
  /\ \A t, u \in Threads :
       (g[t].mine # None /\ g[t].mine = g[u].mine) => t = u

\* Start launches its readLoop when it installs the connection: from then on the
\* connection is read as long as it is current.
StartReads ==
  \A t \in Threads :
    /\ g[t].op = "start"
    /\ g[t].at \in {"snapshot", "resubscribe", "write", "failed"}
    /\ conn # None
    /\ conn = g[t].mine
    => conn \in readers

\* A goroutine that writes, or Stop that closes, has a connection to do it on; a
\* subscription on its way to the broker names a filter.
TargetsOK ==
  \A t \in Threads :
    /\ g[t].at \in {"write", "closing"} => g[t].target # None
    /\ (g[t].at = "locate" /\ g[t].op # "publish") => g[t].filter # None
    /\ (g[t].at = "write" /\ g[t].op # "publish") => g[t].filter # None

IInv ==
  /\ TypeOK
  /\ CallsOK
  /\ TargetsOK
  /\ OwnersOK
  /\ StartReads
  /\ OneReconnectLoop
  /\ ConnectedIsWatched

-----------------------------------------------------------------------------
(* Types.                                                                  *)

\* The states of a goroutine the actions construct are states of a goroutine.
LEMMA CallingType ==
  ASSUME NEW op \in Ops, NEW at \in Places
  PROVE  /\ Idle \in Goroutine
         /\ Calling(op, at) \in Goroutine
         /\ \A c \in Conns \cup {None} :
              [Calling(op, at) EXCEPT !.target = c] \in Goroutine
         /\ \A f \in Filters \cup {None} :
              [Calling(op, at) EXCEPT !.filter = f] \in Goroutine
BY DEF Idle, Calling, Goroutine, Places, Ops

\* So are the states that change some fields of another.
LEMMA EditType ==
  ASSUME NEW s \in Goroutine, NEW at \in Places,
         NEW c \in Conns \cup {None}, NEW f \in Filters \cup {None},
         NEW F \in SUBSET Filters
  PROVE  /\ [s EXCEPT !.at = at] \in Goroutine
         /\ [s EXCEPT !.at = at, !.mine = c] \in Goroutine
         /\ [s EXCEPT !.at = at, !.target = c] \in Goroutine
         /\ [s EXCEPT !.at = at, !.todo = F] \in Goroutine
         /\ [s EXCEPT !.at = at, !.target = c, !.filter = f] \in Goroutine
         /\ [s EXCEPT !.at = at, !.target = c, !.filter = f, !.todo = F]
              \in Goroutine
BY DEF Goroutine

\* When one goroutine takes its next state, the others keep theirs.
LEMMA BecomeType ==
  ASSUME g \in [Threads -> Goroutine], NEW t \in Threads,
         NEW s \in Goroutine, Become(t, s)
  PROVE  /\ g' \in [Threads -> Goroutine]
         /\ g'[t] = s
         /\ \A u \in Threads : u # t => g'[u] = g[u]
BY DEF Become

\* A loss report keeps the variables it writes in their types.
LEMMA ConnectionLossType ==
  ASSUME TypeOK, NEW c \in Conns \cup {None}, NEW r \in BOOLEAN,
         ConnectionLoss(c, r)
  PROVE  /\ conn' \in Conns \cup {None}
         /\ started' \in BOOLEAN
         /\ closing' \in BOOLEAN
         /\ reconnecting' \in BOOLEAN
         /\ handlers' \in [Filters -> SUBSET Ids]
         /\ spawned' \in Nat
         /\ wire' \in [Conns -> {"open", "broken", "closed"}]
<1>1. CASE UNCHANGED <<client, spawned, wire>>
  BY <1>1 DEF TypeOK, client
<1>2. ASSUME /\ conn' = None
             /\ started' = FALSE
             /\ wire' = [wire EXCEPT ![c] = "closed"]
             /\ IF WantsLoop(r)
                THEN reconnecting' = TRUE /\ spawned' = spawned + 1
                ELSE UNCHANGED <<reconnecting, spawned>>
             /\ UNCHANGED <<closing, handlers>>
      PROVE  /\ conn' \in Conns \cup {None}
             /\ started' \in BOOLEAN
             /\ closing' \in BOOLEAN
             /\ reconnecting' \in BOOLEAN
             /\ handlers' \in [Filters -> SUBSET Ids]
             /\ spawned' \in Nat
             /\ wire' \in [Conns -> {"open", "broken", "closed"}]
  <2>1. reconnecting' \in BOOLEAN /\ spawned' \in Nat
    <3>1. CASE WantsLoop(r)
      <4>1. reconnecting' = TRUE /\ spawned' = spawned + 1
        BY <1>2, <3>1
      <4>2. QED
        BY <4>1 DEF TypeOK
    <3>2. CASE ~WantsLoop(r)
      <4>1. reconnecting' = reconnecting /\ spawned' = spawned
        BY <1>2, <3>2
      <4>2. QED
        BY <4>1 DEF TypeOK
    <3>3. QED
      BY <3>1, <3>2
  <2>2. wire' \in [Conns -> {"open", "broken", "closed"}]
    BY <1>2 DEF TypeOK
  <2>3. QED
    BY <1>2, <2>1, <2>2 DEF TypeOK
<1>3. QED
  BY <1>1, <1>2 DEF ConnectionLoss
\* The state stays well typed: every step of the client, of its callers and of the
\* network keeps TypeOK.
LEMMA TypeStep ==
  TypeOK /\ OwnersOK /\ TargetsOK /\ [Next]_vars => TypeOK'
<1> SUFFICES ASSUME TypeOK, OwnersOK, TargetsOK, [Next]_vars PROVE TypeOK'
  OBVIOUS
<1> USE ConstantsAssumption DEF Places, Ops
<1>a. g \in [Threads -> Goroutine]
  BY DEF TypeOK
<1>b. ASSUME NEW t \in Threads
      PROVE  /\ g[t] \in Goroutine
             /\ g[t].mine \in Conns \cup {None}
             /\ g[t].target \in Conns \cup {None}
             /\ g[t].todo \in SUBSET Filters
             /\ g[t].filter \in Filters \cup {None}
  BY <1>a DEF Goroutine
<1>c. ASSUME NEW t \in Threads
      PROVE  /\ Idle \in Goroutine
             /\ AfterFailure(t) \in Goroutine
  BY CallingType DEF AfterFailure
<1>1. ASSUME NEW t \in Hosts, StartBegin(t) PROVE TypeOK'
  <2>1. g' \in [Threads -> Goroutine]
    BY <1>1, <1>a, <1>c, CallingType, BecomeType
       DEF StartBegin, Threads, Callers
  <2>2. starts' \in 0..MaxStarts
    BY <1>1 DEF StartBegin, TypeOK
  <2>3. QED
    BY <1>1, <2>1, <2>2 DEF StartBegin, TypeOK, client, network, history
<1>2. ASSUME NEW t \in Hosts, StopBegin(t) PROVE TypeOK'
  <2>1. g' \in [Threads -> Goroutine]
    BY <1>2, <1>a, <1>c, CallingType, <1>b, BecomeType
       DEF StopBegin, Threads, Callers, TypeOK
  <2>2. QED
    BY <1>2, <2>1 DEF StopBegin, TypeOK, client, network, history
<1>3. ASSUME NEW t \in Threads, StopClose(t) PROVE TypeOK'
  <2>1. g' \in [Threads -> Goroutine]
    BY <1>3, <1>a, <1>c, <1>b, BecomeType DEF StopClose, Return
  <2>2. QED
    BY <1>3, <2>1, <1>b DEF StopClose, TypeOK, client, network, history
<1>4. ASSUME NEW t \in Threads, DialOk(t) PROVE TypeOK'
  <2>1. g' \in [Threads -> Goroutine]
    BY <1>4, <1>a, <1>c, <1>b, EditType, BecomeType DEF DialOk
  <2>2. QED
    BY <1>4, <2>1 DEF DialOk, TypeOK, client, network, history
<1>5. ASSUME NEW t \in Threads, DialFail(t) PROVE TypeOK'
  <2>1. g' \in [Threads -> Goroutine]
    BY <1>5, <1>a, <1>c, <1>b, BecomeType DEF DialFail
  <2>2. QED
    BY <1>5, <2>1 DEF DialFail, TypeOK, client, network, history
<1>6. ASSUME NEW t \in Threads, Install(t) PROVE TypeOK'
  <2>1. g' \in [Threads -> Goroutine]
    BY <1>6, <1>a, <1>c, <1>b, EditType, BecomeType DEF Install, Goto
  <2>2. readers' \subseteq Conns
    BY <1>6, <1>b DEF Install, TypeOK, OwnersOK
  <2>3. QED
    BY <1>6, <2>1, <1>b, <2>2 DEF Install, TypeOK, client, network, history
<1>7. ASSUME NEW t \in Threads, Snapshot(t) PROVE TypeOK'
  <2>1. g' \in [Threads -> Goroutine]
    BY <1>7, <1>a, <1>c, <1>b, EditType, BecomeType DEF Snapshot, Subscribed
  <2>2. QED
    BY <1>7, <2>1 DEF Snapshot, TypeOK, client, network, history
<1>8. ASSUME NEW t \in Threads, ResubscribeNext(t) PROVE TypeOK'
  <2>1. g' \in [Threads -> Goroutine]
    BY <1>8, <1>a, <1>c, <1>b, EditType, BecomeType DEF ResubscribeNext, TypeOK
  <2>2. QED
    BY <1>8, <2>1 DEF ResubscribeNext, TypeOK, client, network, history
<1>9. ASSUME NEW t \in Threads, StartReturns(t) PROVE TypeOK'
  <2>1. g' \in [Threads -> Goroutine]
    BY <1>9, <1>a, <1>c, <1>b, BecomeType DEF StartReturns, Return
  <2>2. QED
    BY <1>9, <2>1 DEF StartReturns, TypeOK, client, network, history
<1>10. ASSUME NEW t \in Threads, ReconnectReturns(t) PROVE TypeOK'
  <2>1. g' \in [Threads -> Goroutine]
    BY <1>10, <1>a, <1>c, CallingType, BecomeType DEF ReconnectReturns
  <2>2. readers' \subseteq Conns
    BY <1>10, <1>b DEF ReconnectReturns, TypeOK, OwnersOK
  <2>3. QED
    BY <1>10, <2>1, <1>b, <2>2
       DEF ReconnectReturns, TypeOK, client, network, history
<1>11. ASSUME NEW t \in Threads, Abandon(t) PROVE TypeOK'
  <2>1. g' \in [Threads -> Goroutine]
    BY <1>11, <1>a, <1>c, <1>b, BecomeType DEF Abandon
  <2>2. QED
    BY <1>11, <2>1, <1>b, ConnectionLossType
       DEF Abandon, TypeOK, client, network, history
<1>12. ASSUME NEW t \in Threads, Locate(t) PROVE TypeOK'
  <2>1. g' \in [Threads -> Goroutine]
    BY <1>12, <1>a, <1>c, <1>b, EditType, BecomeType DEF Locate, TypeOK
  <2>2. QED
    BY <1>12, <2>1 DEF Locate, TypeOK, client, network, history
<1>13. ASSUME NEW t \in Threads, WriteOk(t) PROVE TypeOK'
  <2>1. g' \in [Threads -> Goroutine]
    BY <1>13, <1>a, <1>c, <1>b, EditType, BecomeType DEF WriteOk
  <2>2. subs' \in [Conns -> SUBSET Filters]
    <3>1. \A h \in SUBSET Filters : Delivered(t, h) \in SUBSET Filters
      BY <1>13, <1>b DEF WriteOk, Delivered, TargetsOK
    <3>2. QED
      BY <1>13, <3>1 DEF WriteOk, TypeOK
  <2>3. QED
    BY <1>13, <2>1, <1>b, <2>2 DEF WriteOk, TypeOK, client, network, history
<1>14. ASSUME NEW t \in Threads, WriteFail(t) PROVE TypeOK'
  <2>1. g' \in [Threads -> Goroutine]
    BY <1>14, <1>a, <1>c, <1>b, EditType, BecomeType DEF WriteFail
  <2>2. QED
    BY <1>14, <2>1, <1>b, ConnectionLossType
       DEF WriteFail, TypeOK, client, network, history
<1>15. ASSUME NEW t \in Loops, LoopBegin(t) PROVE TypeOK'
  <2>1. g' \in [Threads -> Goroutine]
    BY <1>15, <1>a, <1>c, CallingType, BecomeType DEF LoopBegin, Threads
  <2>2. QED
    BY <1>15, <2>1 DEF LoopBegin, TypeOK, client, network, history
<1>16. ASSUME NEW t \in Loops, LoopCheck(t) PROVE TypeOK'
  <2>1. g' \in [Threads -> Goroutine]
    BY <1>16, <1>a, <1>c, <1>b, EditType, BecomeType
       DEF LoopCheck, Goto, Threads
  <2>2. QED
    BY <1>16, <2>1 DEF LoopCheck, TypeOK, client, network, history
<1>17. ASSUME NEW t \in Loops, Backoff(t) PROVE TypeOK'
  <2>1. g' \in [Threads -> Goroutine]
    BY <1>17, <1>a, <1>c, <1>b, EditType, BecomeType DEF Backoff, Goto, Threads
  <2>2. QED
    BY <1>17, <2>1 DEF Backoff, TypeOK, client, network, history
<1>18. ASSUME NEW t \in Loops, LoopExit(t) PROVE TypeOK'
  <2>1. g' \in [Threads -> Goroutine]
    BY <1>18, <1>a, <1>c, <1>b, BecomeType DEF LoopExit, Return, Threads
  <2>2. QED
    BY <1>18, <2>1 DEF LoopExit, TypeOK, client, network, history
<1>19. ASSUME NEW t \in Apps, Publish(t) PROVE TypeOK'
  <2>1. g' \in [Threads -> Goroutine]
    BY <1>19, <1>a, <1>c, CallingType, BecomeType DEF Publish, Threads, Callers
  <2>2. QED
    BY <1>19, <2>1 DEF Publish, TypeOK, client, network, history
<1>20. ASSUME NEW t \in Apps, NEW f \in Filters, NEW i \in Ids, Subscribe(t, f, i) PROVE TypeOK'
  <2>1. g' \in [Threads -> Goroutine]
    BY <1>20, <1>a, <1>c, <1>b, CallingType, BecomeType
       DEF Subscribe, Threads, Callers
  <2>2. QED
    BY <1>20, <2>1 DEF Subscribe, TypeOK, client, network, history
<1>21. ASSUME NEW t \in Apps, NEW f \in Filters, NEW i \in Ids, Unsubscribe(t, f, i) PROVE TypeOK'
  <2>1. g' \in [Threads -> Goroutine]
    BY <1>21, <1>a, <1>c, <1>b, CallingType, BecomeType
       DEF Unsubscribe, Threads, Callers
  <2>2. QED
    BY <1>21, <2>1 DEF Unsubscribe, TypeOK, client, network, history
<1>22. ASSUME NEW c \in Conns, ReadFails(c) PROVE TypeOK'
  BY <1>22, ConnectionLossType DEF ReadFails, TypeOK, client, network, history
<1>23. ASSUME NEW c \in Conns, PingFails(c) PROVE TypeOK'
  BY <1>23, ConnectionLossType DEF PingFails, TypeOK, client, network, history
<1>24. ASSUME NEW c \in Conns, Break(c) PROVE TypeOK'
  BY <1>24 DEF Break, TypeOK, client, network, history
<1>25. CASE UNCHANGED vars
  BY <1>25 DEF vars, TypeOK, client, network, history
<1>26. QED
  BY <1>1, <1>2, <1>3, <1>4, <1>5, <1>6, <1>7, <1>8, <1>9, <1>10, <1>11, <1>12, <1>13, <1>14, <1>15, <1>16, <1>17, <1>18, <1>19, <1>20, <1>21, <1>22, <1>23, <1>24, <1>25
     DEF Next, HostStep, AppStep, LoopStep, Proceed, EstablishStep
-----------------------------------------------------------------------------
(* The inductive invariant.                                                *)

\* Initially no goroutine runs and there is no connection: IInv holds.
LEMMA InitInv == Init => IInv
<1> SUFFICES ASSUME Init PROVE IInv
  OBVIOUS
<1>1. TypeOK
  <2>1. Idle \in Goroutine
    BY CallingType DEF Ops, Places
  <2>2. starts \in 0..MaxStarts
    BY ConstantsAssumption DEF Init
  <2>3. QED
    BY <2>1, <2>2 DEF Init, TypeOK
<1>2. \A t \in Threads : g[t] = Idle
  BY DEF Init
<1>3. CallsOK /\ TargetsOK /\ OwnersOK /\ StartReads /\ OneReconnectLoop
  BY <1>2, ConstantsAssumption
     DEF Init, CallsOK, TargetsOK, OwnersOK, StartReads, OneReconnectLoop, Idle,
         Threads, Callers
<1>4. ConnectedIsWatched
  BY DEF Init, ConnectedIsWatched
<1>5. QED
  BY <1>1, <1>3, <1>4 DEF IInv

\* Every step of a goroutine, of a readLoop and of the network keeps IInv.
LEMMA InvStep == IInv /\ [Next]_vars => IInv'
<1> SUFFICES ASSUME IInv, [Next]_vars PROVE IInv'
  OBVIOUS
<1>a. TypeOK'
  BY TypeStep DEF IInv
<1>b. g \in [Threads -> Goroutine]
  BY DEF IInv, TypeOK
<1> USE ConstantsAssumption, <1>b
    DEF IInv, Goroutine, Places, Ops, Idle, Calling, Become, Threads, Callers,
        client
<1>1. ASSUME NEW t \in Hosts, StartBegin(t) PROVE IInv'
  <2> t \in Threads
    OBVIOUS
  <2>0. /\ g'[t] \in Goroutine
        /\ \A u \in Threads \ {t} : g'[u] = g[u]
    BY <1>1, <1>a DEF TypeOK, StartBegin
  <2>1. CallsOK'
    BY <1>1, <2>0 DEF CallsOK, StartBegin
  <2>2. TargetsOK'
    BY <1>1, <2>0 DEF TargetsOK, CallsOK, StartBegin
  <2>3. OwnersOK'
    BY <1>1, <2>0 DEF OwnersOK, CallsOK, StartBegin
  <2>4. StartReads'
    BY <1>1, <2>0 DEF StartReads, OwnersOK, CallsOK, StartBegin
  <2>5. OneReconnectLoop'
    BY <1>1, <2>0 DEF OneReconnectLoop, CallsOK, StartBegin
  <2>6. ConnectedIsWatched'
    BY <1>1, <2>0
       DEF ConnectedIsWatched, OwnersOK, CallsOK, StartReads, StartBegin
  <2>7. QED
    BY <1>a, <2>1, <2>2, <2>3, <2>4, <2>5, <2>6
<1>2. ASSUME NEW t \in Hosts, StopBegin(t) PROVE IInv'
  <2> t \in Threads
    OBVIOUS
  <2>0. /\ g'[t] \in Goroutine
        /\ \A u \in Threads \ {t} : g'[u] = g[u]
    BY <1>2, <1>a DEF TypeOK, StopBegin
  <2>1. CallsOK'
    BY <1>2, <2>0 DEF CallsOK, StopBegin
  <2>2. TargetsOK'
    BY <1>2, <2>0 DEF TargetsOK, CallsOK, StopBegin
  <2>3. OwnersOK'
    BY <1>2, <2>0 DEF OwnersOK, CallsOK, StopBegin
  <2>4. StartReads'
    BY <1>2, <2>0 DEF StartReads, OwnersOK, CallsOK, StopBegin
  <2>5. OneReconnectLoop'
    BY <1>2, <2>0 DEF OneReconnectLoop, CallsOK, StopBegin
  <2>6. ConnectedIsWatched'
    BY <1>2, <2>0
       DEF ConnectedIsWatched, OwnersOK, CallsOK, StartReads, StopBegin
  <2>7. QED
    BY <1>a, <2>1, <2>2, <2>3, <2>4, <2>5, <2>6
<1>3. ASSUME NEW t \in Threads, StopClose(t) PROVE IInv'
  <2> t \in Threads
    OBVIOUS
  <2>0. /\ g'[t] \in Goroutine
        /\ \A u \in Threads \ {t} : g'[u] = g[u]
    BY <1>3, <1>a DEF TypeOK, StopClose, Return
  <2>1. CallsOK'
    BY <1>3, <2>0 DEF CallsOK, StopClose, Return
  <2>2. TargetsOK'
    BY <1>3, <2>0 DEF TargetsOK, CallsOK, StopClose, Return
  <2>3. OwnersOK'
    BY <1>3, <2>0 DEF OwnersOK, CallsOK, StopClose, Return
  <2>4. StartReads'
    BY <1>3, <2>0 DEF StartReads, OwnersOK, CallsOK, StopClose, Return
  <2>5. OneReconnectLoop'
    BY <1>3, <2>0 DEF OneReconnectLoop, CallsOK, StopClose, Return
  <2>6. ConnectedIsWatched'
    BY <1>3, <2>0
       DEF ConnectedIsWatched, OwnersOK, CallsOK, StartReads, StopClose,
           Return
  <2>7. QED
    BY <1>a, <2>1, <2>2, <2>3, <2>4, <2>5, <2>6
<1>4. ASSUME NEW t \in Threads, DialOk(t) PROVE IInv'
  <2> t \in Threads
    OBVIOUS
  <2>0. /\ g'[t] \in Goroutine
        /\ \A u \in Threads \ {t} : g'[u] = g[u]
    BY <1>4, <1>a DEF TypeOK, DialOk, Unused
  <2>1. CallsOK'
    BY <1>4, <2>0 DEF CallsOK, DialOk, Unused
  <2>2. TargetsOK'
    BY <1>4, <2>0 DEF TargetsOK, CallsOK, DialOk, Unused
  <2>3. OwnersOK'
    BY <1>4, <2>0 DEF OwnersOK, CallsOK, DialOk, Unused
  <2>4. StartReads'
    BY <1>4, <2>0 DEF StartReads, OwnersOK, CallsOK, DialOk, Unused
  <2>5. OneReconnectLoop'
    BY <1>4, <2>0 DEF OneReconnectLoop, CallsOK, DialOk, Unused
  <2>6. ConnectedIsWatched'
    BY <1>4, <2>0
       DEF ConnectedIsWatched, OwnersOK, CallsOK, StartReads, DialOk, Unused
  <2>7. QED
    BY <1>a, <2>1, <2>2, <2>3, <2>4, <2>5, <2>6
<1>5. ASSUME NEW t \in Threads, DialFail(t) PROVE IInv'
  <2> t \in Threads
    OBVIOUS
  <2>0. /\ g'[t] \in Goroutine
        /\ \A u \in Threads \ {t} : g'[u] = g[u]
    BY <1>5, <1>a DEF TypeOK, DialFail, AfterFailure
  <2>1. CallsOK'
    BY <1>5, <2>0 DEF CallsOK, DialFail, AfterFailure
  <2>2. TargetsOK'
    BY <1>5, <2>0 DEF TargetsOK, CallsOK, DialFail, AfterFailure
  <2>3. OwnersOK'
    BY <1>5, <2>0 DEF OwnersOK, CallsOK, DialFail, AfterFailure
  <2>4. StartReads'
    BY <1>5, <2>0 DEF StartReads, OwnersOK, CallsOK, DialFail, AfterFailure
  <2>5. OneReconnectLoop'
    BY <1>5, <2>0 DEF OneReconnectLoop, CallsOK, DialFail, AfterFailure
  <2>6. ConnectedIsWatched'
    BY <1>5, <2>0
       DEF ConnectedIsWatched, OwnersOK, CallsOK, StartReads, DialFail,
           AfterFailure
  <2>7. QED
    BY <1>a, <2>1, <2>2, <2>3, <2>4, <2>5, <2>6
<1>6. ASSUME NEW t \in Threads, Install(t) PROVE IInv'
  <2> t \in Threads
    OBVIOUS
  <2>0. /\ g'[t] \in Goroutine
        /\ \A u \in Threads \ {t} : g'[u] = g[u]
    BY <1>6, <1>a DEF TypeOK, Install, Goto
  <2>1. CallsOK'
    BY <1>6, <2>0 DEF CallsOK, Install, Goto
  <2>2. TargetsOK'
    BY <1>6, <2>0 DEF TargetsOK, CallsOK, Install, Goto
  <2>3. OwnersOK'
    BY <1>6, <2>0 DEF OwnersOK, CallsOK, Install, Goto
  <2>4. StartReads'
    BY <1>6, <2>0
       DEF StartReads, OwnersOK, CallsOK, Install, Goto, ReadsFromInstall
  <2>5. OneReconnectLoop'
    BY <1>6, <2>0 DEF OneReconnectLoop, CallsOK, Install, Goto
  <2>6. ConnectedIsWatched'
    BY <1>6, <2>0
       DEF ConnectedIsWatched, OwnersOK, CallsOK, StartReads, Install, Goto
  <2>7. QED
    BY <1>a, <2>1, <2>2, <2>3, <2>4, <2>5, <2>6
<1>7. ASSUME NEW t \in Threads, Snapshot(t) PROVE IInv'
  <2> t \in Threads
    OBVIOUS
  <2>0. /\ g'[t] \in Goroutine
        /\ \A u \in Threads \ {t} : g'[u] = g[u]
    BY <1>7, <1>a DEF TypeOK, Snapshot
  <2>1. CallsOK'
    BY <1>7, <2>0 DEF CallsOK, Snapshot
  <2>2. TargetsOK'
    BY <1>7, <2>0 DEF TargetsOK, CallsOK, Snapshot
  <2>3. OwnersOK'
    BY <1>7, <2>0 DEF OwnersOK, CallsOK, Snapshot
  <2>4. StartReads'
    BY <1>7, <2>0 DEF StartReads, OwnersOK, CallsOK, Snapshot
  <2>5. OneReconnectLoop'
    BY <1>7, <2>0 DEF OneReconnectLoop, CallsOK, Snapshot
  <2>6. ConnectedIsWatched'
    BY <1>7, <2>0
       DEF ConnectedIsWatched, OwnersOK, CallsOK, StartReads, Snapshot
  <2>7. QED
    BY <1>a, <2>1, <2>2, <2>3, <2>4, <2>5, <2>6
<1>8. ASSUME NEW t \in Threads, ResubscribeNext(t) PROVE IInv'
  <2> t \in Threads
    OBVIOUS
  <2>0. /\ g'[t] \in Goroutine
        /\ \A u \in Threads \ {t} : g'[u] = g[u]
    BY <1>8, <1>a DEF TypeOK, ResubscribeNext
  <2>1. CallsOK'
    BY <1>8, <2>0 DEF CallsOK, ResubscribeNext
  <2>2. TargetsOK'
    BY <1>8, <2>0 DEF TargetsOK, CallsOK, ResubscribeNext
  <2>3. OwnersOK'
    BY <1>8, <2>0 DEF OwnersOK, CallsOK, ResubscribeNext
  <2>4. StartReads'
    BY <1>8, <2>0 DEF StartReads, OwnersOK, CallsOK, ResubscribeNext
  <2>5. OneReconnectLoop'
    BY <1>8, <2>0 DEF OneReconnectLoop, CallsOK, ResubscribeNext
  <2>6. ConnectedIsWatched'
    BY <1>8, <2>0
       DEF ConnectedIsWatched, OwnersOK, CallsOK, StartReads, ResubscribeNext
  <2>7. QED
    BY <1>a, <2>1, <2>2, <2>3, <2>4, <2>5, <2>6
<1>9. ASSUME NEW t \in Threads, StartReturns(t) PROVE IInv'
  <2> t \in Threads
    OBVIOUS
  <2>0. /\ g'[t] \in Goroutine
        /\ \A u \in Threads \ {t} : g'[u] = g[u]
    BY <1>9, <1>a DEF TypeOK, StartReturns, Return
  <2>1. CallsOK'
    BY <1>9, <2>0 DEF CallsOK, StartReturns, Return
  <2>2. TargetsOK'
    BY <1>9, <2>0 DEF TargetsOK, CallsOK, StartReturns, Return
  <2>3. OwnersOK'
    BY <1>9, <2>0 DEF OwnersOK, CallsOK, StartReturns, Return
  <2>4. StartReads'
    BY <1>9, <2>0 DEF StartReads, OwnersOK, CallsOK, StartReturns, Return
  <2>5. OneReconnectLoop'
    BY <1>9, <2>0 DEF OneReconnectLoop, CallsOK, StartReturns, Return
  <2>6. ConnectedIsWatched'
    BY <1>9, <2>0
       DEF ConnectedIsWatched, OwnersOK, CallsOK, StartReads, StartReturns,
           Return
  <2>7. QED
    BY <1>a, <2>1, <2>2, <2>3, <2>4, <2>5, <2>6
<1>10. ASSUME NEW t \in Threads, ReconnectReturns(t) PROVE IInv'
  <2> t \in Threads
    OBVIOUS
  <2>0. /\ g'[t] \in Goroutine
        /\ \A u \in Threads \ {t} : g'[u] = g[u]
    BY <1>10, <1>a DEF TypeOK, ReconnectReturns
  <2>1. CallsOK'
    BY <1>10, <2>0 DEF CallsOK, ReconnectReturns
  <2>2. TargetsOK'
    BY <1>10, <2>0 DEF TargetsOK, CallsOK, ReconnectReturns
  <2>3. OwnersOK'
    BY <1>10, <2>0 DEF OwnersOK, CallsOK, ReconnectReturns
  <2>4. StartReads'
    BY <1>10, <2>0 DEF StartReads, OwnersOK, CallsOK, ReconnectReturns
  <2>5. OneReconnectLoop'
    BY <1>10, <2>0 DEF OneReconnectLoop, CallsOK, ReconnectReturns
  <2>6. ConnectedIsWatched'
    BY <1>10, <2>0
       DEF ConnectedIsWatched, OwnersOK, CallsOK, StartReads, ReconnectReturns
  <2>7. QED
    BY <1>a, <2>1, <2>2, <2>3, <2>4, <2>5, <2>6
<1>11. ASSUME NEW t \in Threads, Abandon(t) PROVE IInv'
  <2> t \in Threads
    OBVIOUS
  <2>0. /\ g'[t] \in Goroutine
        /\ \A u \in Threads \ {t} : g'[u] = g[u]
    BY <1>11, <1>a
       DEF TypeOK, Abandon, AfterFailure, ConnectionLoss, Ignored, WantsLoop
  <2>1. CallsOK'
    BY <1>11, <2>0
       DEF CallsOK, Abandon, AfterFailure, ConnectionLoss, Ignored, WantsLoop
  <2>2. TargetsOK'
    BY <1>11, <2>0
       DEF TargetsOK, CallsOK, Abandon, AfterFailure, ConnectionLoss, Ignored,
           WantsLoop
  <2>3. OwnersOK'
    BY <1>11, <2>0
       DEF OwnersOK, CallsOK, Abandon, AfterFailure, ConnectionLoss, Ignored,
           WantsLoop
  <2>4. StartReads'
    BY <1>11, <2>0
       DEF StartReads, OwnersOK, CallsOK, Abandon, AfterFailure,
           ConnectionLoss, Ignored, WantsLoop
  <2>5. OneReconnectLoop'
    BY <1>11, <2>0
       DEF OneReconnectLoop, CallsOK, Abandon, AfterFailure, ConnectionLoss,
           Ignored, WantsLoop
  <2>6. ConnectedIsWatched'
    BY <1>11, <2>0
       DEF ConnectedIsWatched, OwnersOK, CallsOK, StartReads, Abandon,
           AfterFailure, ConnectionLoss, Ignored, WantsLoop
  <2>7. QED
    BY <1>a, <2>1, <2>2, <2>3, <2>4, <2>5, <2>6
<1>12. ASSUME NEW t \in Threads, Locate(t) PROVE IInv'
  <2> t \in Threads
    OBVIOUS
  <2>0. /\ g'[t] \in Goroutine
        /\ \A u \in Threads \ {t} : g'[u] = g[u]
    BY <1>12, <1>a DEF TypeOK, Locate
  <2>1. CallsOK'
    BY <1>12, <2>0 DEF CallsOK, Locate
  <2>2. TargetsOK'
    BY <1>12, <2>0 DEF TargetsOK, CallsOK, Locate
  <2>3. OwnersOK'
    BY <1>12, <2>0 DEF OwnersOK, CallsOK, Locate
  <2>4. StartReads'
    BY <1>12, <2>0 DEF StartReads, OwnersOK, CallsOK, Locate
  <2>5. OneReconnectLoop'
    BY <1>12, <2>0 DEF OneReconnectLoop, CallsOK, Locate
  <2>6. ConnectedIsWatched'
    BY <1>12, <2>0 DEF ConnectedIsWatched, OwnersOK, CallsOK, StartReads, Locate
  <2>7. QED
    BY <1>a, <2>1, <2>2, <2>3, <2>4, <2>5, <2>6
<1>13. ASSUME NEW t \in Threads, WriteOk(t) PROVE IInv'
  <2> t \in Threads
    OBVIOUS
  <2>0. /\ g'[t] \in Goroutine
        /\ \A u \in Threads \ {t} : g'[u] = g[u]
    BY <1>13, <1>a DEF TypeOK, WriteOk, Establishing
  <2>1. CallsOK'
    BY <1>13, <2>0 DEF CallsOK, WriteOk, Establishing
  <2>2. TargetsOK'
    BY <1>13, <2>0 DEF TargetsOK, CallsOK, WriteOk, Establishing
  <2>3. OwnersOK'
    <3>1. CASE Establishing(t)
      <4>1. g'[t].at = "resubscribe" /\ g'[t].op = g[t].op /\ g'[t].mine = g[t].mine
        BY <1>13, <3>1 DEF WriteOk
      <4>2. QED
        BY <1>13, <2>0, <3>1, <4>1 DEF OwnersOK, CallsOK, Establishing, WriteOk
    <3>2. CASE ~Establishing(t)
      BY <1>13, <2>0, <3>2 DEF OwnersOK, WriteOk
    <3>3. QED
      BY <3>1, <3>2
  <2>4. StartReads'
    BY <1>13, <2>0 DEF StartReads, OwnersOK, CallsOK, WriteOk, Establishing
  <2>5. OneReconnectLoop'
    BY <1>13, <2>0 DEF OneReconnectLoop, CallsOK, WriteOk, Establishing
  <2>6. ConnectedIsWatched'
    BY <1>13, <2>0
       DEF ConnectedIsWatched, OwnersOK, CallsOK, StartReads, WriteOk,
           Establishing
  <2>7. QED
    BY <1>a, <2>1, <2>2, <2>3, <2>4, <2>5, <2>6
<1>14. ASSUME NEW t \in Threads, WriteFail(t) PROVE IInv'
  <2> t \in Threads
    OBVIOUS
  <2>0. /\ g'[t] \in Goroutine
        /\ \A u \in Threads \ {t} : g'[u] = g[u]
    BY <1>14, <1>a
       DEF TypeOK, WriteFail, Establishing, ConnectionLoss, Ignored, WantsLoop
  <2>1. CallsOK'
    BY <1>14, <2>0
       DEF CallsOK, WriteFail, Establishing, ConnectionLoss, Ignored,
           WantsLoop
  <2>2. TargetsOK'
    BY <1>14, <2>0
       DEF TargetsOK, CallsOK, WriteFail, Establishing, ConnectionLoss,
           Ignored, WantsLoop
  <2>3. OwnersOK'
    <3>1. CASE Establishing(t)
      <4>1. g'[t].at = "failed" /\ g'[t].op = g[t].op /\ g'[t].mine = g[t].mine
        BY <1>14, <3>1 DEF WriteFail
      <4>2. QED
        BY <1>14, <2>0, <3>1, <4>1
           DEF OwnersOK, CallsOK, Establishing, WriteFail
    <3>2. CASE ~Establishing(t)
      BY <1>14, <2>0, <3>2 DEF OwnersOK, WriteFail
    <3>3. QED
      BY <3>1, <3>2
  <2>4. StartReads'
    BY <1>14, <2>0
       DEF StartReads, OwnersOK, CallsOK, WriteFail, Establishing,
           ConnectionLoss, Ignored, WantsLoop
  <2>5. OneReconnectLoop'
    BY <1>14, <2>0
       DEF OneReconnectLoop, CallsOK, WriteFail, Establishing, ConnectionLoss,
           Ignored, WantsLoop
  <2>6. ConnectedIsWatched'
    BY <1>14, <2>0
       DEF ConnectedIsWatched, OwnersOK, CallsOK, StartReads, WriteFail,
           Establishing, ConnectionLoss, Ignored, WantsLoop
  <2>7. QED
    BY <1>a, <2>1, <2>2, <2>3, <2>4, <2>5, <2>6
<1>15. ASSUME NEW t \in Loops, LoopBegin(t) PROVE IInv'
  <2> t \in Threads
    OBVIOUS
  <2>0. /\ g'[t] \in Goroutine
        /\ \A u \in Threads \ {t} : g'[u] = g[u]
    BY <1>15, <1>a DEF TypeOK, LoopBegin
  <2>1. CallsOK'
    BY <1>15, <2>0 DEF CallsOK, LoopBegin
  <2>2. TargetsOK'
    BY <1>15, <2>0 DEF TargetsOK, CallsOK, LoopBegin
  <2>3. OwnersOK'
    BY <1>15, <2>0 DEF OwnersOK, CallsOK, LoopBegin
  <2>4. StartReads'
    BY <1>15, <2>0 DEF StartReads, OwnersOK, CallsOK, LoopBegin
  <2>5. OneReconnectLoop'
    BY <1>15, <2>0 DEF OneReconnectLoop, CallsOK, LoopBegin
  <2>6. ConnectedIsWatched'
    BY <1>15, <2>0
       DEF ConnectedIsWatched, OwnersOK, CallsOK, StartReads, LoopBegin
  <2>7. QED
    BY <1>a, <2>1, <2>2, <2>3, <2>4, <2>5, <2>6
<1>16. ASSUME NEW t \in Loops, LoopCheck(t) PROVE IInv'
  <2> t \in Threads
    OBVIOUS
  <2>0. /\ g'[t] \in Goroutine
        /\ \A u \in Threads \ {t} : g'[u] = g[u]
    BY <1>16, <1>a DEF TypeOK, LoopCheck, Goto
  <2>1. CallsOK'
    BY <1>16, <2>0 DEF CallsOK, LoopCheck, Goto
  <2>2. TargetsOK'
    BY <1>16, <2>0 DEF TargetsOK, CallsOK, LoopCheck, Goto
  <2>3. OwnersOK'
    BY <1>16, <2>0 DEF OwnersOK, CallsOK, LoopCheck, Goto
  <2>4. StartReads'
    BY <1>16, <2>0 DEF StartReads, OwnersOK, CallsOK, LoopCheck, Goto
  <2>5. OneReconnectLoop'
    BY <1>16, <2>0 DEF OneReconnectLoop, CallsOK, LoopCheck, Goto
  <2>6. ConnectedIsWatched'
    BY <1>16, <2>0
       DEF ConnectedIsWatched, OwnersOK, CallsOK, StartReads, LoopCheck, Goto
  <2>7. QED
    BY <1>a, <2>1, <2>2, <2>3, <2>4, <2>5, <2>6
<1>17. ASSUME NEW t \in Loops, Backoff(t) PROVE IInv'
  <2> t \in Threads
    OBVIOUS
  <2>0. /\ g'[t] \in Goroutine
        /\ \A u \in Threads \ {t} : g'[u] = g[u]
    BY <1>17, <1>a DEF TypeOK, Backoff, Goto
  <2>1. CallsOK'
    BY <1>17, <2>0 DEF CallsOK, Backoff, Goto
  <2>2. TargetsOK'
    BY <1>17, <2>0 DEF TargetsOK, CallsOK, Backoff, Goto
  <2>3. OwnersOK'
    BY <1>17, <2>0 DEF OwnersOK, CallsOK, Backoff, Goto
  <2>4. StartReads'
    BY <1>17, <2>0 DEF StartReads, OwnersOK, CallsOK, Backoff, Goto
  <2>5. OneReconnectLoop'
    BY <1>17, <2>0 DEF OneReconnectLoop, CallsOK, Backoff, Goto
  <2>6. ConnectedIsWatched'
    BY <1>17, <2>0
       DEF ConnectedIsWatched, OwnersOK, CallsOK, StartReads, Backoff, Goto
  <2>7. QED
    BY <1>a, <2>1, <2>2, <2>3, <2>4, <2>5, <2>6
<1>18. ASSUME NEW t \in Loops, LoopExit(t) PROVE IInv'
  <2> t \in Threads
    OBVIOUS
  <2>0. /\ g'[t] \in Goroutine
        /\ \A u \in Threads \ {t} : g'[u] = g[u]
    BY <1>18, <1>a DEF TypeOK, LoopExit, Return
  <2>1. CallsOK'
    BY <1>18, <2>0 DEF CallsOK, LoopExit, Return
  <2>2. TargetsOK'
    BY <1>18, <2>0 DEF TargetsOK, CallsOK, LoopExit, Return
  <2>3. OwnersOK'
    BY <1>18, <2>0 DEF OwnersOK, CallsOK, LoopExit, Return
  <2>4. StartReads'
    BY <1>18, <2>0 DEF StartReads, OwnersOK, CallsOK, LoopExit, Return
  <2>5. OneReconnectLoop'
    BY <1>18, <2>0 DEF OneReconnectLoop, CallsOK, LoopExit, Return
  <2>6. ConnectedIsWatched'
    BY <1>18, <2>0
       DEF ConnectedIsWatched, OwnersOK, CallsOK, StartReads, LoopExit, Return
  <2>7. QED
    BY <1>a, <2>1, <2>2, <2>3, <2>4, <2>5, <2>6
<1>19. ASSUME NEW t \in Apps, Publish(t) PROVE IInv'
  <2> t \in Threads
    OBVIOUS
  <2>0. /\ g'[t] \in Goroutine
        /\ \A u \in Threads \ {t} : g'[u] = g[u]
    BY <1>19, <1>a DEF TypeOK, Publish
  <2>1. CallsOK'
    BY <1>19, <2>0 DEF CallsOK, Publish
  <2>2. TargetsOK'
    BY <1>19, <2>0 DEF TargetsOK, CallsOK, Publish
  <2>3. OwnersOK'
    BY <1>19, <2>0 DEF OwnersOK, CallsOK, Publish
  <2>4. StartReads'
    BY <1>19, <2>0 DEF StartReads, OwnersOK, CallsOK, Publish
  <2>5. OneReconnectLoop'
    BY <1>19, <2>0 DEF OneReconnectLoop, CallsOK, Publish
  <2>6. ConnectedIsWatched'
    BY <1>19, <2>0
       DEF ConnectedIsWatched, OwnersOK, CallsOK, StartReads, Publish
  <2>7. QED
    BY <1>a, <2>1, <2>2, <2>3, <2>4, <2>5, <2>6
<1>20. ASSUME NEW t \in Apps, NEW f \in Filters, NEW i \in Ids, Subscribe(t, f, i) PROVE IInv'
  <2> t \in Threads
    OBVIOUS
  <2>0. /\ g'[t] \in Goroutine
        /\ \A u \in Threads \ {t} : g'[u] = g[u]
    BY <1>20, <1>a DEF TypeOK, Subscribe
  <2>1. CallsOK'
    BY <1>20, <2>0 DEF CallsOK, Subscribe
  <2>2. TargetsOK'
    BY <1>20, <2>0 DEF TargetsOK, CallsOK, Subscribe
  <2>3. OwnersOK'
    BY <1>20, <2>0 DEF OwnersOK, CallsOK, Subscribe
  <2>4. StartReads'
    BY <1>20, <2>0 DEF StartReads, OwnersOK, CallsOK, Subscribe
  <2>5. OneReconnectLoop'
    BY <1>20, <2>0 DEF OneReconnectLoop, CallsOK, Subscribe
  <2>6. ConnectedIsWatched'
    BY <1>20, <2>0
       DEF ConnectedIsWatched, OwnersOK, CallsOK, StartReads, Subscribe
  <2>7. QED
    BY <1>a, <2>1, <2>2, <2>3, <2>4, <2>5, <2>6
<1>21. ASSUME NEW t \in Apps, NEW f \in Filters, NEW i \in Ids, Unsubscribe(t, f, i) PROVE IInv'
  <2> t \in Threads
    OBVIOUS
  <2>0. /\ g'[t] \in Goroutine
        /\ \A u \in Threads \ {t} : g'[u] = g[u]
    BY <1>21, <1>a DEF TypeOK, Unsubscribe
  <2>1. CallsOK'
    BY <1>21, <2>0 DEF CallsOK, Unsubscribe
  <2>2. TargetsOK'
    BY <1>21, <2>0 DEF TargetsOK, CallsOK, Unsubscribe
  <2>3. OwnersOK'
    BY <1>21, <2>0 DEF OwnersOK, CallsOK, Unsubscribe
  <2>4. StartReads'
    BY <1>21, <2>0 DEF StartReads, OwnersOK, CallsOK, Unsubscribe
  <2>5. OneReconnectLoop'
    BY <1>21, <2>0 DEF OneReconnectLoop, CallsOK, Unsubscribe
  <2>6. ConnectedIsWatched'
    BY <1>21, <2>0
       DEF ConnectedIsWatched, OwnersOK, CallsOK, StartReads, Unsubscribe
  <2>7. QED
    BY <1>a, <2>1, <2>2, <2>3, <2>4, <2>5, <2>6
<1>22. ASSUME NEW c \in Conns, ReadFails(c) PROVE IInv'
  <2>1. CallsOK'
    BY <1>22 DEF CallsOK, ReadFails, ConnectionLoss, Ignored, WantsLoop
  <2>2. TargetsOK'
    BY <1>22 DEF TargetsOK, ReadFails, ConnectionLoss, Ignored, WantsLoop
  <2>3. OwnersOK'
    BY <1>22 DEF OwnersOK, ReadFails, ConnectionLoss, Ignored, WantsLoop
  <2>4. StartReads'
    BY <1>22 DEF StartReads, ReadFails, ConnectionLoss, Ignored, WantsLoop
  <2>5. OneReconnectLoop'
    BY <1>22 DEF OneReconnectLoop, ReadFails, ConnectionLoss, Ignored, WantsLoop
  <2>6. ConnectedIsWatched'
    BY <1>22
       DEF ConnectedIsWatched, ReadFails, ConnectionLoss, Ignored, WantsLoop
  <2>7. QED
    BY <1>a, <2>1, <2>2, <2>3, <2>4, <2>5, <2>6
<1>23. ASSUME NEW c \in Conns, PingFails(c) PROVE IInv'
  <2>1. CallsOK'
    BY <1>23 DEF CallsOK, PingFails, ConnectionLoss, Ignored, WantsLoop
  <2>2. TargetsOK'
    BY <1>23 DEF TargetsOK, PingFails, ConnectionLoss, Ignored, WantsLoop
  <2>3. OwnersOK'
    BY <1>23 DEF OwnersOK, PingFails, ConnectionLoss, Ignored, WantsLoop
  <2>4. StartReads'
    BY <1>23 DEF StartReads, PingFails, ConnectionLoss, Ignored, WantsLoop
  <2>5. OneReconnectLoop'
    BY <1>23 DEF OneReconnectLoop, PingFails, ConnectionLoss, Ignored, WantsLoop
  <2>6. ConnectedIsWatched'
    BY <1>23
       DEF ConnectedIsWatched, PingFails, ConnectionLoss, Ignored, WantsLoop
  <2>7. QED
    BY <1>a, <2>1, <2>2, <2>3, <2>4, <2>5, <2>6
<1>24. ASSUME NEW c \in Conns, Break(c) PROVE IInv'
  <2>1. CallsOK'
    BY <1>24 DEF CallsOK, Break
  <2>2. TargetsOK'
    BY <1>24 DEF TargetsOK, Break
  <2>3. OwnersOK'
    BY <1>24 DEF OwnersOK, Break
  <2>4. StartReads'
    BY <1>24 DEF StartReads, Break
  <2>5. OneReconnectLoop'
    BY <1>24 DEF OneReconnectLoop, Break
  <2>6. ConnectedIsWatched'
    BY <1>24 DEF ConnectedIsWatched, Break
  <2>7. QED
    BY <1>a, <2>1, <2>2, <2>3, <2>4, <2>5, <2>6
<1>25. CASE UNCHANGED vars
  BY <1>25, <1>a
     DEF vars, CallsOK, TargetsOK, OwnersOK, StartReads, OneReconnectLoop,
         ConnectedIsWatched
<1>26. QED
  BY <1>1, <1>2, <1>3, <1>4, <1>5, <1>6, <1>7, <1>8, <1>9, <1>10, <1>11, <1>12, <1>13, <1>14, <1>15, <1>16, <1>17, <1>18, <1>19, <1>20, <1>21, <1>22, <1>23, <1>24, <1>25
     DEF Next, HostStep, AppStep, LoopStep, Proceed, EstablishStep

\* IInv holds in every state of every behaviour.
LEMMA SpecInv == Spec => []IInv
<1>1. IInv /\ [Next]_vars => IInv'
  BY InvStep
<1>2. QED
  BY InitInv, <1>1, PTL DEF Spec

-----------------------------------------------------------------------------
(* The theorems.                                                           *)

\* Type correctness of the client, its goroutines and the connections.
THEOREM TypeCorrect == Spec => []TypeOK
BY SpecInv, PTL DEF IInv

\* handleConnectionLoss and the deferred reset of reconnectLoop keep at most one
\* reconnectLoop alive, however many goroutines report losses at once.
THEOREM AtMostOneLoop == Spec => []OneReconnectLoop
BY SpecInv, PTL DEF IInv

\* No interleaving of Start, Stop, reconnectLoop and readLoop leaves a current
\* connection that nobody reads and nobody is still setting up.
THEOREM NoUnwatchedConnection == Spec => []ConnectedIsWatched
BY SpecInv, PTL DEF IInv

\* The test `e.conn != conn` of handleConnectionLoss suffices: a report on an old
\* connection never takes down a newer one.
THEOREM StaleReportsAreHarmless == Spec => LossHitsOnlyItsConnection
<1> DEFINE Dropped == conn # None /\ conn' = None
           Justified ==
             \/ wire[conn] # "open"
             \/ \E t \in Threads : g[t].at = "failed" /\ g[t].mine = conn
             \/ \E h \in Hosts : StopBegin(h)
<1>1. ASSUME NEW c, NEW r, ConnectionLoss(c, r), Dropped
      PROVE  c = conn
  BY <1>1 DEF ConnectionLoss, Ignored, client
<1>2. ASSUME IInv, [Next]_vars, Dropped
      PROVE  Justified
  <2>1. CASE \E h \in Hosts : StopBegin(h)
    BY <2>1
  <2>2. CASE \E t \in Threads : Abandon(t)
    BY <1>1, <1>2, <2>2 DEF Abandon
  <2>3. CASE \E t \in Threads : WriteFail(t)
    BY <1>1, <1>2, <2>3 DEF WriteFail
  <2>4. CASE \E c \in Conns : ReadFails(c) \/ PingFails(c)
    BY <1>1, <1>2, <2>4 DEF ReadFails, PingFails
  <2>5. ASSUME NEW t \in Threads, Install(t)
        PROVE  FALSE
    BY <1>2, <2>5 DEF Install, IInv, OwnersOK
  <2>6. CASE UNCHANGED conn
    BY <1>2, <2>6
  <2>7. QED
    BY <1>2, <2>1, <2>2, <2>3, <2>4, <2>5, <2>6
       DEF Next, HostStep, AppStep, LoopStep, Proceed, EstablishStep, vars,
           client, StartBegin, StopClose, DialOk, DialFail, Snapshot,
           ResubscribeNext, StartReturns, ReconnectReturns, LoopBegin,
           LoopCheck, Backoff, LoopExit, Publish, Subscribe, Unsubscribe,
           Locate, WriteOk, Break
<1>3. QED
  BY SpecInv, <1>2, PTL DEF Spec, LossHitsOnlyItsConnection

-----------------------------------------------------------------------------
(* Two theorems with inductive invariants of their own: a client that is   *)
(* started once leaves no connection open, and a client with one goroutine *)
(* that subscribes and unsubscribes forgets no handler.                    *)

-----------------------------------------------------------------------------
(* One Start.                                                              *)

StartIsAlone ==
  /\ \A t, u \in Threads : g[t].op = "start" /\ g[u].op = "start" => t = u
  /\ starts = 0 => \A t \in Threads : g[t].op # "start"

\* Start has not installed its connection yet.
Untouched == starts = 0 \/ \E t \in Threads : g[t].op = "start" /\ g[t].at \in {"dial", "install"}

\* Until then there is no connection to be lost, and no reconnectLoop.
NothingBefore ==
  Untouched =>
    /\ conn = None /\ spawned = 0 /\ readers = {}
    /\ \A t \in Threads : g[t].target = None
    /\ \A l \in Loops : g[l].at = "idle"

\* A reconnectLoop finds no connection until it installs its own, and then at most that.
LoopFindsNone ==
  /\ spawned > 0 => conn = None
  /\ \A l \in Loops :
       /\ g[l].at \in {"check", "dial", "install", "backoff"} => conn = None
       /\ g[l].at \in {"snapshot", "resubscribe", "write", "failed"} => conn \in {None, g[l].mine}

OpenIsOwned ==
  \A c \in Conns : wire[c] = "open" =>
    \/ c = conn
    \/ \E t \in Threads : g[t].mine = c /\ g[t].at = "install"
    \/ \E t \in Threads : g[t].target = c /\ g[t].at = "closing"

OnceInv == starts <= 1 => StartIsAlone /\ NothingBefore /\ LoopFindsNone /\ OpenIsOwned

LEMMA OnceInit == Init => OnceInv
BY DEF Init, OnceInv, StartIsAlone, NothingBefore, LoopFindsNone, OpenIsOwned, Idle, Threads

\* A loss report leaves a connection that stays open as it was.
LEMMA LossKeepsOpen ==
  ASSUME TypeOK, NEW c \in Conns, NEW r, ConnectionLoss(c, r)
  PROVE  \A d \in Conns : wire'[d] = "open" => wire[d] = "open" /\ (d = conn => conn' = conn)
BY DEF ConnectionLoss, Ignored, TypeOK, client

LEMMA OnceStep == IInv /\ OnceInv /\ [Next]_vars => OnceInv'
<1> SUFFICES ASSUME IInv, OnceInv, [Next]_vars, starts' <= 1
             PROVE  StartIsAlone' /\ NothingBefore' /\ LoopFindsNone' /\ OpenIsOwned'
  BY DEF OnceInv
<1>a. TypeOK'
  BY TypeStep DEF IInv
<1>b. g \in [Threads -> Goroutine]
  BY DEF IInv, TypeOK
<1>c. starts <= 1 /\ starts \in Nat
  <2>1. starts' = starts \/ starts' = starts + 1
    BY DEF Next, HostStep, AppStep, LoopStep, Proceed, EstablishStep, vars, history, StartBegin,
           StopBegin, StopClose, DialOk, DialFail, Install, Snapshot, ResubscribeNext, StartReturns,
           ReconnectReturns, Abandon, LoopBegin, LoopCheck, Backoff, LoopExit, Publish, Subscribe,
           Unsubscribe, Locate, WriteOk, WriteFail, ReadFails, PingFails, Break
  <2>2. starts \in Nat
    BY ConstantsAssumption DEF IInv, TypeOK
  <2> QED BY <2>1, <2>2
<1>d. StartIsAlone /\ NothingBefore /\ LoopFindsNone /\ OpenIsOwned
  BY <1>c DEF OnceInv
<1> USE ConstantsAssumption, <1>b, <1>c, <1>d
    DEF IInv, Goroutine, Places, Ops, Idle, Calling, Become, Threads, Callers, client, history, network
<1>1. ASSUME NEW t \in Hosts, StartBegin(t)
      PROVE  StartIsAlone' /\ NothingBefore' /\ LoopFindsNone' /\ OpenIsOwned'
  <2>0. /\ t \in Threads /\ g'[t] \in Goroutine
        /\ \A u \in Threads \ {t} : g'[u] = g[u]
    BY <1>1, <1>a
       DEF TypeOK, StartBegin
  <2>1. StartIsAlone'
    BY <1>1, <2>0
       DEF StartIsAlone, CallsOK, StartBegin
  <2>2. NothingBefore'
    BY <1>1, <2>0
       DEF NothingBefore, Untouched, StartIsAlone, CallsOK, TargetsOK, OneReconnectLoop,
           StartBegin
  <2>3. LoopFindsNone'
    BY <1>1, <2>0
       DEF LoopFindsNone, NothingBefore, Untouched, CallsOK, OwnersOK, OneReconnectLoop,
           StartBegin
  <2>4. OpenIsOwned'
    BY <1>1, <2>0
       DEF OpenIsOwned, LoopFindsNone, NothingBefore, Untouched, CallsOK, OwnersOK,
           TargetsOK, StartBegin
  <2> QED BY <2>1, <2>2, <2>3, <2>4
<1>2. ASSUME NEW t \in Hosts, StopBegin(t)
      PROVE  StartIsAlone' /\ NothingBefore' /\ LoopFindsNone' /\ OpenIsOwned'
  <2>0. /\ t \in Threads /\ g'[t] \in Goroutine
        /\ \A u \in Threads \ {t} : g'[u] = g[u]
    BY <1>2, <1>a
       DEF TypeOK, StopBegin
  <2>1. StartIsAlone'
    BY <1>2, <2>0
       DEF StartIsAlone, CallsOK, StopBegin
  <2>2. NothingBefore'
    BY <1>2, <2>0
       DEF NothingBefore, Untouched, StartIsAlone, CallsOK, TargetsOK, OneReconnectLoop,
           StopBegin
  <2>3. LoopFindsNone'
    BY <1>2, <2>0
       DEF LoopFindsNone, NothingBefore, Untouched, CallsOK, OwnersOK, OneReconnectLoop,
           StopBegin
  <2>4. OpenIsOwned'
    BY <1>2, <2>0
       DEF OpenIsOwned, LoopFindsNone, NothingBefore, Untouched, CallsOK, OwnersOK,
           TargetsOK, StopBegin
  <2> QED BY <2>1, <2>2, <2>3, <2>4
<1>3. ASSUME NEW t \in Threads, StopClose(t)
      PROVE  StartIsAlone' /\ NothingBefore' /\ LoopFindsNone' /\ OpenIsOwned'
  <2>0. /\ t \in Threads /\ g'[t] \in Goroutine
        /\ \A u \in Threads \ {t} : g'[u] = g[u]
    BY <1>3, <1>a
       DEF TypeOK, StopClose, Return
  <2>1. StartIsAlone'
    BY <1>3, <2>0
       DEF StartIsAlone, CallsOK, StopClose, Return
  <2>2. NothingBefore'
    BY <1>3, <2>0
       DEF NothingBefore, Untouched, StartIsAlone, CallsOK, TargetsOK, OneReconnectLoop,
           StopClose, Return
  <2>3. LoopFindsNone'
    BY <1>3, <2>0
       DEF LoopFindsNone, NothingBefore, Untouched, CallsOK, OwnersOK, OneReconnectLoop,
           StopClose, Return
  <2>4. OpenIsOwned'
    <3>1. \A d \in Conns : wire'[d] = "open" => wire[d] = "open" /\ d # g[t].target
      BY <1>3, <2>0 DEF StopClose, TypeOK
    <3> QED BY <1>3, <2>0, <3>1 DEF OpenIsOwned, StopClose, Return
  <2> QED BY <2>1, <2>2, <2>3, <2>4
<1>4. ASSUME NEW t \in Threads, DialOk(t)
      PROVE  StartIsAlone' /\ NothingBefore' /\ LoopFindsNone' /\ OpenIsOwned'
  <2>0. /\ t \in Threads /\ g'[t] \in Goroutine
        /\ \A u \in Threads \ {t} : g'[u] = g[u]
    BY <1>4, <1>a
       DEF TypeOK, DialOk, Unused
  <2>1. StartIsAlone'
    BY <1>4, <2>0
       DEF StartIsAlone, CallsOK, DialOk, Unused
  <2>2. NothingBefore'
    BY <1>4, <2>0
       DEF NothingBefore, Untouched, StartIsAlone, CallsOK, TargetsOK, OneReconnectLoop,
           DialOk, Unused
  <2>3. LoopFindsNone'
    BY <1>4, <2>0
       DEF LoopFindsNone, NothingBefore, Untouched, CallsOK, OwnersOK, OneReconnectLoop,
           DialOk, Unused
  <2>4. OpenIsOwned'
    BY <1>4, <2>0
       DEF OpenIsOwned, LoopFindsNone, NothingBefore, Untouched, CallsOK, OwnersOK,
           TargetsOK, DialOk, Unused
  <2> QED BY <2>1, <2>2, <2>3, <2>4
<1>5. ASSUME NEW t \in Threads, DialFail(t)
      PROVE  StartIsAlone' /\ NothingBefore' /\ LoopFindsNone' /\ OpenIsOwned'
  <2>0. /\ t \in Threads /\ g'[t] \in Goroutine
        /\ \A u \in Threads \ {t} : g'[u] = g[u]
    BY <1>5, <1>a
       DEF TypeOK, DialFail, AfterFailure
  <2>1. StartIsAlone'
    BY <1>5, <2>0
       DEF StartIsAlone, CallsOK, DialFail, AfterFailure
  <2>2. NothingBefore'
    BY <1>5, <2>0
       DEF NothingBefore, Untouched, StartIsAlone, CallsOK, TargetsOK, OneReconnectLoop,
           DialFail, AfterFailure
  <2>3. LoopFindsNone'
    BY <1>5, <2>0
       DEF LoopFindsNone, NothingBefore, Untouched, CallsOK, OwnersOK, OneReconnectLoop,
           DialFail, AfterFailure
  <2>4. OpenIsOwned'
    BY <1>5, <2>0
       DEF OpenIsOwned, LoopFindsNone, NothingBefore, Untouched, CallsOK, OwnersOK,
           TargetsOK, DialFail, AfterFailure
  <2> QED BY <2>1, <2>2, <2>3, <2>4
<1>6. ASSUME NEW t \in Threads, Install(t)
      PROVE  StartIsAlone' /\ NothingBefore' /\ LoopFindsNone' /\ OpenIsOwned'
  <2>0. /\ t \in Threads /\ g'[t] \in Goroutine
        /\ \A u \in Threads \ {t} : g'[u] = g[u]
    BY <1>6, <1>a
       DEF TypeOK, Install, Goto
  <2>1. StartIsAlone'
    BY <1>6, <2>0
       DEF StartIsAlone, CallsOK, Install, Goto
  <2>2. NothingBefore'
    BY <1>6, <2>0
       DEF NothingBefore, Untouched, StartIsAlone, CallsOK, TargetsOK, OneReconnectLoop,
           Install, Goto
  <2>3. LoopFindsNone'
    BY <1>6, <2>0
       DEF LoopFindsNone, NothingBefore, Untouched, CallsOK, OwnersOK, OneReconnectLoop,
           Install, Goto
  <2>4. OpenIsOwned'
    BY <1>6, <2>0
       DEF OpenIsOwned, LoopFindsNone, NothingBefore, Untouched, CallsOK, OwnersOK,
           TargetsOK, Install, Goto
  <2> QED BY <2>1, <2>2, <2>3, <2>4
<1>7. ASSUME NEW t \in Threads, Snapshot(t)
      PROVE  StartIsAlone' /\ NothingBefore' /\ LoopFindsNone' /\ OpenIsOwned'
  <2>0. /\ t \in Threads /\ g'[t] \in Goroutine
        /\ \A u \in Threads \ {t} : g'[u] = g[u]
    BY <1>7, <1>a
       DEF TypeOK, Snapshot, Subscribed
  <2>1. StartIsAlone'
    BY <1>7, <2>0
       DEF StartIsAlone, CallsOK, Snapshot
  <2>2. NothingBefore'
    BY <1>7, <2>0
       DEF NothingBefore, Untouched, StartIsAlone, CallsOK, TargetsOK, OneReconnectLoop,
           Snapshot
  <2>3. LoopFindsNone'
    BY <1>7, <2>0
       DEF LoopFindsNone, NothingBefore, Untouched, CallsOK, OwnersOK, OneReconnectLoop,
           Snapshot
  <2>4. OpenIsOwned'
    BY <1>7, <2>0
       DEF OpenIsOwned, LoopFindsNone, NothingBefore, Untouched, CallsOK, OwnersOK,
           TargetsOK, Snapshot
  <2> QED BY <2>1, <2>2, <2>3, <2>4
<1>8. ASSUME NEW t \in Threads, ResubscribeNext(t)
      PROVE  StartIsAlone' /\ NothingBefore' /\ LoopFindsNone' /\ OpenIsOwned'
  <2>0. /\ t \in Threads /\ g'[t] \in Goroutine
        /\ \A u \in Threads \ {t} : g'[u] = g[u]
    BY <1>8, <1>a
       DEF TypeOK, ResubscribeNext
  <2>1. StartIsAlone'
    BY <1>8, <2>0
       DEF StartIsAlone, CallsOK, ResubscribeNext
  <2>2. NothingBefore'
    BY <1>8, <2>0
       DEF NothingBefore, Untouched, StartIsAlone, CallsOK, TargetsOK, OneReconnectLoop,
           ResubscribeNext
  <2>3. LoopFindsNone'
    BY <1>8, <2>0
       DEF LoopFindsNone, NothingBefore, Untouched, CallsOK, OwnersOK, OneReconnectLoop,
           ResubscribeNext
  <2>4. OpenIsOwned'
    BY <1>8, <2>0
       DEF OpenIsOwned, LoopFindsNone, NothingBefore, Untouched, CallsOK, OwnersOK,
           TargetsOK, ResubscribeNext
  <2> QED BY <2>1, <2>2, <2>3, <2>4
<1>9. ASSUME NEW t \in Threads, StartReturns(t)
      PROVE  StartIsAlone' /\ NothingBefore' /\ LoopFindsNone' /\ OpenIsOwned'
  <2>0. /\ t \in Threads /\ g'[t] \in Goroutine
        /\ \A u \in Threads \ {t} : g'[u] = g[u]
    BY <1>9, <1>a
       DEF TypeOK, StartReturns, Return
  <2>1. StartIsAlone'
    BY <1>9, <2>0
       DEF StartIsAlone, CallsOK, StartReturns, Return
  <2>2. NothingBefore'
    BY <1>9, <2>0
       DEF NothingBefore, Untouched, StartIsAlone, CallsOK, TargetsOK, OneReconnectLoop,
           StartReturns, Return
  <2>3. LoopFindsNone'
    BY <1>9, <2>0
       DEF LoopFindsNone, NothingBefore, Untouched, CallsOK, OwnersOK, OneReconnectLoop,
           StartReturns, Return
  <2>4. OpenIsOwned'
    BY <1>9, <2>0
       DEF OpenIsOwned, LoopFindsNone, NothingBefore, Untouched, CallsOK, OwnersOK,
           TargetsOK, StartReturns, Return
  <2> QED BY <2>1, <2>2, <2>3, <2>4
<1>10. ASSUME NEW t \in Threads, ReconnectReturns(t)
      PROVE  StartIsAlone' /\ NothingBefore' /\ LoopFindsNone' /\ OpenIsOwned'
  <2>0. /\ t \in Threads /\ g'[t] \in Goroutine
        /\ \A u \in Threads \ {t} : g'[u] = g[u]
    BY <1>10, <1>a
       DEF TypeOK, ReconnectReturns
  <2>1. StartIsAlone'
    BY <1>10, <2>0
       DEF StartIsAlone, CallsOK, ReconnectReturns
  <2>2. NothingBefore'
    BY <1>10, <2>0
       DEF NothingBefore, Untouched, StartIsAlone, CallsOK, TargetsOK, OneReconnectLoop,
           ReconnectReturns
  <2>3. LoopFindsNone'
    BY <1>10, <2>0
       DEF LoopFindsNone, NothingBefore, Untouched, CallsOK, OwnersOK, OneReconnectLoop,
           ReconnectReturns
  <2>4. OpenIsOwned'
    BY <1>10, <2>0
       DEF OpenIsOwned, LoopFindsNone, NothingBefore, Untouched, CallsOK, OwnersOK,
           TargetsOK, ReconnectReturns
  <2> QED BY <2>1, <2>2, <2>3, <2>4
<1>11. ASSUME NEW t \in Threads, Abandon(t)
      PROVE  StartIsAlone' /\ NothingBefore' /\ LoopFindsNone' /\ OpenIsOwned'
  <2>0. /\ t \in Threads /\ g'[t] \in Goroutine
        /\ \A u \in Threads \ {t} : g'[u] = g[u]
    BY <1>11, <1>a
       DEF TypeOK, Abandon, AfterFailure, ConnectionLoss, Ignored, WantsLoop
  <2>1. StartIsAlone'
    BY <1>11, <2>0
       DEF StartIsAlone, CallsOK, Abandon, AfterFailure, ConnectionLoss, Ignored, WantsLoop
  <2>2. NothingBefore'
    BY <1>11, <2>0
       DEF NothingBefore, Untouched, StartIsAlone, CallsOK, TargetsOK, OneReconnectLoop,
           Abandon, AfterFailure, ConnectionLoss, Ignored, WantsLoop
  <2>3. LoopFindsNone'
    BY <1>11, <2>0
       DEF LoopFindsNone, NothingBefore, Untouched, CallsOK, OwnersOK, OneReconnectLoop,
           Abandon, AfterFailure, ConnectionLoss, Ignored, WantsLoop
  <2>4. OpenIsOwned'
    <3>1. g[t].mine \in Conns
      BY <1>11, <2>0 DEF Abandon, OwnersOK, TypeOK
    <3>2. \A d \in Conns : wire'[d] = "open" => wire[d] = "open" /\ (d = conn => conn' = conn)
      BY <1>11, <2>0, <3>1, LossKeepsOpen DEF Abandon
    <3> QED BY <1>11, <2>0, <3>2 DEF OpenIsOwned, Abandon
  <2> QED BY <2>1, <2>2, <2>3, <2>4
<1>12. ASSUME NEW t \in Threads, Locate(t)
      PROVE  StartIsAlone' /\ NothingBefore' /\ LoopFindsNone' /\ OpenIsOwned'
  <2>0. /\ t \in Threads /\ g'[t] \in Goroutine
        /\ \A u \in Threads \ {t} : g'[u] = g[u]
    BY <1>12, <1>a
       DEF TypeOK, Locate
  <2>1. StartIsAlone'
    BY <1>12, <2>0
       DEF StartIsAlone, CallsOK, Locate
  <2>2. NothingBefore'
    BY <1>12, <2>0
       DEF NothingBefore, Untouched, StartIsAlone, CallsOK, TargetsOK, OneReconnectLoop,
           Locate
  <2>3. LoopFindsNone'
    BY <1>12, <2>0
       DEF LoopFindsNone, NothingBefore, Untouched, CallsOK, OwnersOK, OneReconnectLoop,
           Locate
  <2>4. OpenIsOwned'
    BY <1>12, <2>0
       DEF OpenIsOwned, LoopFindsNone, NothingBefore, Untouched, CallsOK, OwnersOK,
           TargetsOK, Locate
  <2> QED BY <2>1, <2>2, <2>3, <2>4
<1>13. ASSUME NEW t \in Threads, WriteOk(t)
      PROVE  StartIsAlone' /\ NothingBefore' /\ LoopFindsNone' /\ OpenIsOwned'
  <2>0. /\ t \in Threads /\ g'[t] \in Goroutine
        /\ \A u \in Threads \ {t} : g'[u] = g[u]
    BY <1>13, <1>a
       DEF TypeOK, WriteOk, Establishing
  <2>1. StartIsAlone'
    BY <1>13, <2>0
       DEF StartIsAlone, CallsOK, WriteOk, Establishing
  <2>2. NothingBefore'
    BY <1>13, <2>0
       DEF NothingBefore, Untouched, StartIsAlone, CallsOK, TargetsOK, OneReconnectLoop,
           WriteOk, Establishing
  <2>3. LoopFindsNone'
    BY <1>13, <2>0
       DEF LoopFindsNone, NothingBefore, Untouched, CallsOK, OwnersOK, OneReconnectLoop,
           WriteOk, Establishing
  <2>4. OpenIsOwned'
    BY <1>13, <2>0
       DEF OpenIsOwned, LoopFindsNone, NothingBefore, Untouched, CallsOK, OwnersOK,
           TargetsOK, WriteOk, Establishing
  <2> QED BY <2>1, <2>2, <2>3, <2>4
<1>14. ASSUME NEW t \in Threads, WriteFail(t)
      PROVE  StartIsAlone' /\ NothingBefore' /\ LoopFindsNone' /\ OpenIsOwned'
  <2>0. /\ t \in Threads /\ g'[t] \in Goroutine
        /\ \A u \in Threads \ {t} : g'[u] = g[u]
    BY <1>14, <1>a
       DEF TypeOK, WriteFail, Establishing, ConnectionLoss, Ignored, WantsLoop
  <2>1. StartIsAlone'
    BY <1>14, <2>0
       DEF StartIsAlone, CallsOK, WriteFail, Establishing, ConnectionLoss, Ignored,
           WantsLoop
  <2>2. NothingBefore'
    BY <1>14, <2>0
       DEF NothingBefore, Untouched, StartIsAlone, CallsOK, TargetsOK, OneReconnectLoop,
           WriteFail, Establishing, ConnectionLoss, Ignored, WantsLoop
  <2>3. LoopFindsNone'
    BY <1>14, <2>0
       DEF LoopFindsNone, NothingBefore, Untouched, CallsOK, OwnersOK, OneReconnectLoop,
           WriteFail, Establishing, ConnectionLoss, Ignored, WantsLoop
  <2>4. OpenIsOwned'
    <3>1. g[t].target \in Conns
      BY <1>14, <2>0 DEF WriteFail, TargetsOK, TypeOK
    <3>2. \A d \in Conns : wire'[d] = "open" => wire[d] = "open" /\ (d = conn => conn' = conn)
      BY <1>14, <2>0, <3>1, LossKeepsOpen DEF WriteFail
    <3> QED BY <1>14, <2>0, <3>2 DEF OpenIsOwned, WriteFail
  <2> QED BY <2>1, <2>2, <2>3, <2>4
<1>15. ASSUME NEW t \in Loops, LoopBegin(t)
      PROVE  StartIsAlone' /\ NothingBefore' /\ LoopFindsNone' /\ OpenIsOwned'
  <2>0. /\ t \in Threads /\ g'[t] \in Goroutine
        /\ \A u \in Threads \ {t} : g'[u] = g[u]
    BY <1>15, <1>a
       DEF TypeOK, LoopBegin
  <2>1. StartIsAlone'
    BY <1>15, <2>0
       DEF StartIsAlone, CallsOK, LoopBegin
  <2>2. NothingBefore'
    BY <1>15, <2>0
       DEF NothingBefore, Untouched, StartIsAlone, CallsOK, TargetsOK, OneReconnectLoop,
           LoopBegin
  <2>3. LoopFindsNone'
    BY <1>15, <2>0
       DEF LoopFindsNone, NothingBefore, Untouched, CallsOK, OwnersOK, OneReconnectLoop,
           LoopBegin
  <2>4. OpenIsOwned'
    BY <1>15, <2>0
       DEF OpenIsOwned, LoopFindsNone, NothingBefore, Untouched, CallsOK, OwnersOK,
           TargetsOK, LoopBegin
  <2> QED BY <2>1, <2>2, <2>3, <2>4
<1>16. ASSUME NEW t \in Loops, LoopCheck(t)
      PROVE  StartIsAlone' /\ NothingBefore' /\ LoopFindsNone' /\ OpenIsOwned'
  <2>0. /\ t \in Threads /\ g'[t] \in Goroutine
        /\ \A u \in Threads \ {t} : g'[u] = g[u]
    BY <1>16, <1>a
       DEF TypeOK, LoopCheck, Goto
  <2>1. StartIsAlone'
    BY <1>16, <2>0
       DEF StartIsAlone, CallsOK, LoopCheck, Goto
  <2>2. NothingBefore'
    BY <1>16, <2>0
       DEF NothingBefore, Untouched, StartIsAlone, CallsOK, TargetsOK, OneReconnectLoop,
           LoopCheck, Goto
  <2>3. LoopFindsNone'
    BY <1>16, <2>0
       DEF LoopFindsNone, NothingBefore, Untouched, CallsOK, OwnersOK, OneReconnectLoop,
           LoopCheck, Goto
  <2>4. OpenIsOwned'
    BY <1>16, <2>0
       DEF OpenIsOwned, LoopFindsNone, NothingBefore, Untouched, CallsOK, OwnersOK,
           TargetsOK, LoopCheck, Goto
  <2> QED BY <2>1, <2>2, <2>3, <2>4
<1>17. ASSUME NEW t \in Loops, Backoff(t)
      PROVE  StartIsAlone' /\ NothingBefore' /\ LoopFindsNone' /\ OpenIsOwned'
  <2>0. /\ t \in Threads /\ g'[t] \in Goroutine
        /\ \A u \in Threads \ {t} : g'[u] = g[u]
    BY <1>17, <1>a
       DEF TypeOK, Backoff, Goto
  <2>1. StartIsAlone'
    BY <1>17, <2>0
       DEF StartIsAlone, CallsOK, Backoff, Goto
  <2>2. NothingBefore'
    BY <1>17, <2>0
       DEF NothingBefore, Untouched, StartIsAlone, CallsOK, TargetsOK, OneReconnectLoop,
           Backoff, Goto
  <2>3. LoopFindsNone'
    BY <1>17, <2>0
       DEF LoopFindsNone, NothingBefore, Untouched, CallsOK, OwnersOK, OneReconnectLoop,
           Backoff, Goto
  <2>4. OpenIsOwned'
    BY <1>17, <2>0
       DEF OpenIsOwned, LoopFindsNone, NothingBefore, Untouched, CallsOK, OwnersOK,
           TargetsOK, Backoff, Goto
  <2> QED BY <2>1, <2>2, <2>3, <2>4
<1>18. ASSUME NEW t \in Loops, LoopExit(t)
      PROVE  StartIsAlone' /\ NothingBefore' /\ LoopFindsNone' /\ OpenIsOwned'
  <2>0. /\ t \in Threads /\ g'[t] \in Goroutine
        /\ \A u \in Threads \ {t} : g'[u] = g[u]
    BY <1>18, <1>a
       DEF TypeOK, LoopExit, Return
  <2>1. StartIsAlone'
    BY <1>18, <2>0
       DEF StartIsAlone, CallsOK, LoopExit, Return
  <2>2. NothingBefore'
    BY <1>18, <2>0
       DEF NothingBefore, Untouched, StartIsAlone, CallsOK, TargetsOK, OneReconnectLoop,
           LoopExit, Return
  <2>3. LoopFindsNone'
    BY <1>18, <2>0
       DEF LoopFindsNone, NothingBefore, Untouched, CallsOK, OwnersOK, OneReconnectLoop,
           LoopExit, Return
  <2>4. OpenIsOwned'
    BY <1>18, <2>0
       DEF OpenIsOwned, LoopFindsNone, NothingBefore, Untouched, CallsOK, OwnersOK,
           TargetsOK, LoopExit, Return
  <2> QED BY <2>1, <2>2, <2>3, <2>4
<1>19. ASSUME NEW t \in Apps, Publish(t)
      PROVE  StartIsAlone' /\ NothingBefore' /\ LoopFindsNone' /\ OpenIsOwned'
  <2>0. /\ t \in Threads /\ g'[t] \in Goroutine
        /\ \A u \in Threads \ {t} : g'[u] = g[u]
    BY <1>19, <1>a
       DEF TypeOK, Publish
  <2>1. StartIsAlone'
    BY <1>19, <2>0
       DEF StartIsAlone, CallsOK, Publish
  <2>2. NothingBefore'
    BY <1>19, <2>0
       DEF NothingBefore, Untouched, StartIsAlone, CallsOK, TargetsOK, OneReconnectLoop,
           Publish
  <2>3. LoopFindsNone'
    BY <1>19, <2>0
       DEF LoopFindsNone, NothingBefore, Untouched, CallsOK, OwnersOK, OneReconnectLoop,
           Publish
  <2>4. OpenIsOwned'
    BY <1>19, <2>0
       DEF OpenIsOwned, LoopFindsNone, NothingBefore, Untouched, CallsOK, OwnersOK,
           TargetsOK, Publish
  <2> QED BY <2>1, <2>2, <2>3, <2>4
<1>20. ASSUME NEW t \in Apps, NEW f \in Filters, NEW i \in Ids, Subscribe(t, f, i)
      PROVE  StartIsAlone' /\ NothingBefore' /\ LoopFindsNone' /\ OpenIsOwned'
  <2>0. /\ t \in Threads /\ g'[t] \in Goroutine
        /\ \A u \in Threads \ {t} : g'[u] = g[u]
    BY <1>20, <1>a
       DEF TypeOK, Subscribe
  <2>1. StartIsAlone'
    BY <1>20, <2>0
       DEF StartIsAlone, CallsOK, Subscribe
  <2>2. NothingBefore'
    BY <1>20, <2>0
       DEF NothingBefore, Untouched, StartIsAlone, CallsOK, TargetsOK, OneReconnectLoop,
           Subscribe
  <2>3. LoopFindsNone'
    BY <1>20, <2>0
       DEF LoopFindsNone, NothingBefore, Untouched, CallsOK, OwnersOK, OneReconnectLoop,
           Subscribe
  <2>4. OpenIsOwned'
    BY <1>20, <2>0
       DEF OpenIsOwned, LoopFindsNone, NothingBefore, Untouched, CallsOK, OwnersOK,
           TargetsOK, Subscribe
  <2> QED BY <2>1, <2>2, <2>3, <2>4
<1>21. ASSUME NEW t \in Apps, NEW f \in Filters, NEW i \in Ids, Unsubscribe(t, f, i)
      PROVE  StartIsAlone' /\ NothingBefore' /\ LoopFindsNone' /\ OpenIsOwned'
  <2>0. /\ t \in Threads /\ g'[t] \in Goroutine
        /\ \A u \in Threads \ {t} : g'[u] = g[u]
    BY <1>21, <1>a
       DEF TypeOK, Unsubscribe, LastOf
  <2>1. StartIsAlone'
    BY <1>21, <2>0
       DEF StartIsAlone, CallsOK, Unsubscribe, LastOf
  <2>2. NothingBefore'
    BY <1>21, <2>0
       DEF NothingBefore, Untouched, StartIsAlone, CallsOK, TargetsOK, OneReconnectLoop,
           Unsubscribe, LastOf
  <2>3. LoopFindsNone'
    BY <1>21, <2>0
       DEF LoopFindsNone, NothingBefore, Untouched, CallsOK, OwnersOK, OneReconnectLoop,
           Unsubscribe, LastOf
  <2>4. OpenIsOwned'
    BY <1>21, <2>0
       DEF OpenIsOwned, LoopFindsNone, NothingBefore, Untouched, CallsOK, OwnersOK,
           TargetsOK, Unsubscribe, LastOf
  <2> QED BY <2>1, <2>2, <2>3, <2>4
<1>22. ASSUME NEW c \in Conns, ReadFails(c)
      PROVE  StartIsAlone' /\ NothingBefore' /\ LoopFindsNone' /\ OpenIsOwned'
  <2>1. StartIsAlone'
    BY <1>22
       DEF StartIsAlone, CallsOK, ReadFails, ConnectionLoss, Ignored, WantsLoop
  <2>2. NothingBefore'
    BY <1>22
       DEF NothingBefore, Untouched, StartIsAlone, CallsOK, TargetsOK, OneReconnectLoop,
           ReadFails, ConnectionLoss, Ignored, WantsLoop
  <2>3. LoopFindsNone'
    BY <1>22
       DEF LoopFindsNone, NothingBefore, Untouched, CallsOK, OwnersOK, OneReconnectLoop,
           ReadFails, ConnectionLoss, Ignored, WantsLoop
  <2>4. OpenIsOwned'
    <3>1. c \in Conns
      BY <1>22 DEF ReadFails
    <3>2. \A d \in Conns : wire'[d] = "open" => wire[d] = "open" /\ (d = conn => conn' = conn)
      BY <1>22, <3>1, LossKeepsOpen DEF ReadFails
    <3> QED BY <1>22, <3>2 DEF OpenIsOwned, ReadFails
  <2> QED BY <2>1, <2>2, <2>3, <2>4
<1>23. ASSUME NEW c \in Conns, PingFails(c)
      PROVE  StartIsAlone' /\ NothingBefore' /\ LoopFindsNone' /\ OpenIsOwned'
  <2>1. StartIsAlone'
    BY <1>23
       DEF StartIsAlone, CallsOK, PingFails, ConnectionLoss, Ignored, WantsLoop
  <2>2. NothingBefore'
    BY <1>23
       DEF NothingBefore, Untouched, StartIsAlone, CallsOK, TargetsOK, OneReconnectLoop,
           PingFails, ConnectionLoss, Ignored, WantsLoop
  <2>3. LoopFindsNone'
    BY <1>23
       DEF LoopFindsNone, NothingBefore, Untouched, CallsOK, OwnersOK, OneReconnectLoop,
           PingFails, ConnectionLoss, Ignored, WantsLoop
  <2>4. OpenIsOwned'
    <3>1. c \in Conns
      BY <1>23 DEF PingFails
    <3>2. \A d \in Conns : wire'[d] = "open" => wire[d] = "open" /\ (d = conn => conn' = conn)
      BY <1>23, <3>1, LossKeepsOpen DEF PingFails
    <3> QED BY <1>23, <3>2 DEF OpenIsOwned, PingFails
  <2> QED BY <2>1, <2>2, <2>3, <2>4
<1>24. ASSUME NEW c \in Conns, Break(c)
      PROVE  StartIsAlone' /\ NothingBefore' /\ LoopFindsNone' /\ OpenIsOwned'
  <2>1. StartIsAlone'
    BY <1>24
       DEF StartIsAlone, CallsOK, Break
  <2>2. NothingBefore'
    BY <1>24
       DEF NothingBefore, Untouched, StartIsAlone, CallsOK, TargetsOK, OneReconnectLoop,
           Break
  <2>3. LoopFindsNone'
    BY <1>24
       DEF LoopFindsNone, NothingBefore, Untouched, CallsOK, OwnersOK, OneReconnectLoop,
           Break
  <2>4. OpenIsOwned'
    BY <1>24
       DEF OpenIsOwned, LoopFindsNone, NothingBefore, Untouched, CallsOK, OwnersOK,
           TargetsOK, Break
  <2> QED BY <2>1, <2>2, <2>3, <2>4
<1>25. CASE UNCHANGED vars
  BY <1>25
     DEF vars, network, history, StartIsAlone, NothingBefore, Untouched, LoopFindsNone,
         OpenIsOwned
<1> QED
  BY <1>1, <1>2, <1>3, <1>4, <1>5, <1>6, <1>7, <1>8, <1>9, <1>10, <1>11, <1>12, <1>13, <1>14, <1>15, <1>16, <1>17, <1>18, <1>19, <1>20, <1>21, <1>22, <1>23, <1>24, <1>25
     DEF Next, HostStep, AppStep, LoopStep, Proceed, EstablishStep

\* A client that is started once leaves no connection open behind the current one,
\* whatever Stop, the losses and the reconnectLoop do (establishConnection,
\* handleConnectionLoss, Stop).
THEOREM NoConnectionLeaks == Spec => []NoOrphanConnection
<1>1. OnceInv => NoOrphanConnection
  BY DEF OnceInv, OpenIsOwned, NoOrphanConnection
<1> QED BY <1>1, SpecInv, OnceInit, OnceStep, PTL DEF Spec

-----------------------------------------------------------------------------
(* One goroutine that subscribes.                                          *)

SingleApp == \A a, b \in Apps : a = b

ConnectedIsStarted == started <=> conn # None

\* A goroutine that has installed the current connection resubscribes on it.
OwnerWrites ==
  \A t \in Threads :
    g[t].at = "write" /\ g[t].op \in {"start", "reconnect"} /\ g[t].mine = conn
      => g[t].target = conn

\* A filter that an application's goroutine is unsubscribing has no handler.
LastIsGone ==
  \A t \in Threads :
    g[t].op = "unsubscribe" /\ g[t].at \in {"locate", "write"} =>
      t \in Apps /\ handlers[g[t].filter] = {}

\* The goroutine that installed the current connection has yet to subscribe f.
OwnerSubscribes(f) ==
  \E t \in Threads :
    /\ g[t].mine = conn
    /\ \/ g[t].at \in {"snapshot", "failed"}
       \/ g[t].at \in {"resubscribe", "write"} /\ f \in g[t].todo
       \/ g[t].at = "write" /\ g[t].filter = f

AppSubscribes(f) ==
  \E a \in Apps :
    /\ g[a].op = "subscribe" /\ g[a].filter = f
    /\ g[a].at = "locate" \/ (g[a].at = "write" /\ g[a].target = conn)

Covered ==
  (conn # None /\ wire[conn] = "open") =>
    \A f \in Subscribed : f \in subs[conn] \/ OwnerSubscribes(f) \/ AppSubscribes(f)

ReachInv == SingleApp => ConnectedIsStarted /\ OwnerWrites /\ LastIsGone /\ Covered

LEMMA ReachInit == Init => ReachInv
BY DEF Init, ReachInv, ConnectedIsStarted, OwnerWrites, LastIsGone, Covered, Idle, Threads, Callers

LEMMA ReachStep == IInv /\ ReachInv /\ [Next]_vars => ReachInv'
<1> SUFFICES ASSUME IInv, ReachInv, [Next]_vars, SingleApp
             PROVE  ConnectedIsStarted' /\ OwnerWrites' /\ LastIsGone' /\ Covered'
  BY DEF ReachInv
<1>a. TypeOK'
  BY TypeStep DEF IInv
<1>b. g \in [Threads -> Goroutine]
  BY DEF IInv, TypeOK
<1>d. ConnectedIsStarted /\ OwnerWrites /\ LastIsGone /\ Covered
  BY DEF ReachInv
<1> USE ConstantsAssumption, <1>b, <1>d
    DEF IInv, Goroutine, Places, Ops, Idle, Calling, Become, Threads, Callers, client, history, network
<1>1. ASSUME NEW t \in Hosts, StartBegin(t)
      PROVE  ConnectedIsStarted' /\ OwnerWrites' /\ LastIsGone' /\ Covered'
  <2>0. /\ t \in Threads /\ g'[t] \in Goroutine
        /\ \A u \in Threads \ {t} : g'[u] = g[u]
    BY <1>1, <1>a
       DEF TypeOK, StartBegin
  <2>1. ConnectedIsStarted'
    BY <1>1, <2>0
       DEF ConnectedIsStarted, OwnersOK, CallsOK, StartBegin
  <2>2. OwnerWrites'
    BY <1>1, <2>0
       DEF OwnerWrites, OwnersOK, CallsOK, StartBegin
  <2>3. LastIsGone'
    BY <1>1, <2>0
       DEF LastIsGone, CallsOK, SingleApp, TargetsOK, StartBegin
  <2>4. Covered'
    BY <1>1, <2>0
       DEF Covered, OwnerSubscribes, AppSubscribes, Subscribed, OwnersOK, CallsOK,
           TargetsOK, ConnectedIsStarted, OwnerWrites, LastIsGone, StartBegin
  <2> QED BY <2>1, <2>2, <2>3, <2>4
<1>2. ASSUME NEW t \in Hosts, StopBegin(t)
      PROVE  ConnectedIsStarted' /\ OwnerWrites' /\ LastIsGone' /\ Covered'
  <2>0. /\ t \in Threads /\ g'[t] \in Goroutine
        /\ \A u \in Threads \ {t} : g'[u] = g[u]
    BY <1>2, <1>a
       DEF TypeOK, StopBegin
  <2>1. ConnectedIsStarted'
    BY <1>2, <2>0
       DEF ConnectedIsStarted, OwnersOK, CallsOK, StopBegin
  <2>2. OwnerWrites'
    BY <1>2, <2>0
       DEF OwnerWrites, OwnersOK, CallsOK, StopBegin
  <2>3. LastIsGone'
    BY <1>2, <2>0
       DEF LastIsGone, CallsOK, SingleApp, TargetsOK, StopBegin
  <2>4. Covered'
    BY <1>2, <2>0
       DEF Covered, OwnerSubscribes, AppSubscribes, Subscribed, OwnersOK, CallsOK,
           TargetsOK, ConnectedIsStarted, OwnerWrites, LastIsGone, StopBegin
  <2> QED BY <2>1, <2>2, <2>3, <2>4
<1>3. ASSUME NEW t \in Threads, StopClose(t)
      PROVE  ConnectedIsStarted' /\ OwnerWrites' /\ LastIsGone' /\ Covered'
  <2>0. /\ t \in Threads /\ g'[t] \in Goroutine
        /\ \A u \in Threads \ {t} : g'[u] = g[u]
    BY <1>3, <1>a
       DEF TypeOK, StopClose, Return
  <2>1. ConnectedIsStarted'
    BY <1>3, <2>0
       DEF ConnectedIsStarted, OwnersOK, CallsOK, StopClose, Return
  <2>2. OwnerWrites'
    BY <1>3, <2>0
       DEF OwnerWrites, OwnersOK, CallsOK, StopClose, Return
  <2>3. LastIsGone'
    BY <1>3, <2>0
       DEF LastIsGone, CallsOK, SingleApp, TargetsOK, StopClose, Return
  <2>4. Covered'
    BY <1>3, <2>0
       DEF Covered, OwnerSubscribes, AppSubscribes, Subscribed, OwnersOK, CallsOK,
           TargetsOK, ConnectedIsStarted, OwnerWrites, LastIsGone, StopClose, Return
  <2> QED BY <2>1, <2>2, <2>3, <2>4
<1>4. ASSUME NEW t \in Threads, DialOk(t)
      PROVE  ConnectedIsStarted' /\ OwnerWrites' /\ LastIsGone' /\ Covered'
  <2>0. /\ t \in Threads /\ g'[t] \in Goroutine
        /\ \A u \in Threads \ {t} : g'[u] = g[u]
    BY <1>4, <1>a
       DEF TypeOK, DialOk, Unused
  <2>1. ConnectedIsStarted'
    BY <1>4, <2>0
       DEF ConnectedIsStarted, OwnersOK, CallsOK, DialOk, Unused
  <2>2. OwnerWrites'
    BY <1>4, <2>0
       DEF OwnerWrites, OwnersOK, CallsOK, DialOk, Unused
  <2>3. LastIsGone'
    BY <1>4, <2>0
       DEF LastIsGone, CallsOK, SingleApp, TargetsOK, DialOk, Unused
  <2>4. Covered'
    BY <1>4, <2>0
       DEF Covered, OwnerSubscribes, AppSubscribes, Subscribed, OwnersOK, CallsOK,
           TargetsOK, ConnectedIsStarted, OwnerWrites, LastIsGone, DialOk, Unused
  <2> QED BY <2>1, <2>2, <2>3, <2>4
<1>5. ASSUME NEW t \in Threads, DialFail(t)
      PROVE  ConnectedIsStarted' /\ OwnerWrites' /\ LastIsGone' /\ Covered'
  <2>0. /\ t \in Threads /\ g'[t] \in Goroutine
        /\ \A u \in Threads \ {t} : g'[u] = g[u]
    BY <1>5, <1>a
       DEF TypeOK, DialFail, AfterFailure
  <2>1. ConnectedIsStarted'
    BY <1>5, <2>0
       DEF ConnectedIsStarted, OwnersOK, CallsOK, DialFail, AfterFailure
  <2>2. OwnerWrites'
    BY <1>5, <2>0
       DEF OwnerWrites, OwnersOK, CallsOK, DialFail, AfterFailure
  <2>3. LastIsGone'
    BY <1>5, <2>0
       DEF LastIsGone, CallsOK, SingleApp, TargetsOK, DialFail, AfterFailure
  <2>4. Covered'
    BY <1>5, <2>0
       DEF Covered, OwnerSubscribes, AppSubscribes, Subscribed, OwnersOK, CallsOK,
           TargetsOK, ConnectedIsStarted, OwnerWrites, LastIsGone, DialFail, AfterFailure
  <2> QED BY <2>1, <2>2, <2>3, <2>4
<1>6. ASSUME NEW t \in Threads, Install(t)
      PROVE  ConnectedIsStarted' /\ OwnerWrites' /\ LastIsGone' /\ Covered'
  <2>0. /\ t \in Threads /\ g'[t] \in Goroutine
        /\ \A u \in Threads \ {t} : g'[u] = g[u]
    BY <1>6, <1>a
       DEF TypeOK, Install, Goto
  <2>1. ConnectedIsStarted'
    BY <1>6, <2>0
       DEF ConnectedIsStarted, OwnersOK, CallsOK, Install, Goto
  <2>2. OwnerWrites'
    BY <1>6, <2>0
       DEF OwnerWrites, OwnersOK, CallsOK, Install, Goto
  <2>3. LastIsGone'
    BY <1>6, <2>0
       DEF LastIsGone, CallsOK, SingleApp, TargetsOK, Install, Goto
  <2>4. Covered'
    BY <1>6, <2>0
       DEF Covered, OwnerSubscribes, AppSubscribes, Subscribed, OwnersOK, CallsOK,
           TargetsOK, ConnectedIsStarted, OwnerWrites, LastIsGone, Install, Goto
  <2> QED BY <2>1, <2>2, <2>3, <2>4
<1>7. ASSUME NEW t \in Threads, Snapshot(t)
      PROVE  ConnectedIsStarted' /\ OwnerWrites' /\ LastIsGone' /\ Covered'
  <2>0. /\ t \in Threads /\ g'[t] \in Goroutine
        /\ \A u \in Threads \ {t} : g'[u] = g[u]
    BY <1>7, <1>a
       DEF TypeOK, Snapshot, Subscribed
  <2>1. ConnectedIsStarted'
    BY <1>7, <2>0
       DEF ConnectedIsStarted, OwnersOK, CallsOK, Snapshot
  <2>2. OwnerWrites'
    BY <1>7, <2>0
       DEF OwnerWrites, OwnersOK, CallsOK, Snapshot
  <2>3. LastIsGone'
    BY <1>7, <2>0
       DEF LastIsGone, CallsOK, SingleApp, TargetsOK, Snapshot
  <2>4. Covered'
    <3>1. g'[t].at = "resubscribe" /\ g'[t].todo = Subscribed /\ g'[t].mine = g[t].mine
      BY <1>7, <2>0 DEF Snapshot
    <3>2. UNCHANGED <<client, network>> /\ g[t].at = "snapshot" /\ g[t].op \in {"start", "reconnect"}
      BY <1>7, <2>0 DEF Snapshot, CallsOK
    <3>3. ASSUME NEW f \in Subscribed
          PROVE  /\ OwnerSubscribes(f) => OwnerSubscribes(f)'
                 /\ AppSubscribes(f) => AppSubscribes(f)'
      <4>1. OwnerSubscribes(f) => OwnerSubscribes(f)'
        BY <2>0, <3>1, <3>2, <3>3 DEF OwnerSubscribes
      <4>2. AppSubscribes(f) => AppSubscribes(f)'
        BY <2>0, <3>1, <3>2 DEF AppSubscribes
      <4> QED BY <4>1, <4>2
    <3>4. Subscribed' = Subscribed
      BY <3>2 DEF Subscribed
    <3> QED BY <3>2, <3>3, <3>4 DEF Covered
  <2> QED BY <2>1, <2>2, <2>3, <2>4
<1>8. ASSUME NEW t \in Threads, ResubscribeNext(t)
      PROVE  ConnectedIsStarted' /\ OwnerWrites' /\ LastIsGone' /\ Covered'
  <2>0. /\ t \in Threads /\ g'[t] \in Goroutine
        /\ \A u \in Threads \ {t} : g'[u] = g[u]
    BY <1>8, <1>a
       DEF TypeOK, ResubscribeNext
  <2>1. ConnectedIsStarted'
    BY <1>8, <2>0
       DEF ConnectedIsStarted, OwnersOK, CallsOK, ResubscribeNext
  <2>2. OwnerWrites'
    BY <1>8, <2>0
       DEF OwnerWrites, OwnersOK, CallsOK, ResubscribeNext
  <2>3. LastIsGone'
    BY <1>8, <2>0
       DEF LastIsGone, CallsOK, SingleApp, TargetsOK, ResubscribeNext
  <2>4. Covered'
    BY <1>8, <2>0
       DEF Covered, OwnerSubscribes, AppSubscribes, Subscribed, OwnersOK, CallsOK,
           TargetsOK, ConnectedIsStarted, OwnerWrites, LastIsGone, ResubscribeNext
  <2> QED BY <2>1, <2>2, <2>3, <2>4
<1>9. ASSUME NEW t \in Threads, StartReturns(t)
      PROVE  ConnectedIsStarted' /\ OwnerWrites' /\ LastIsGone' /\ Covered'
  <2>0. /\ t \in Threads /\ g'[t] \in Goroutine
        /\ \A u \in Threads \ {t} : g'[u] = g[u]
    BY <1>9, <1>a
       DEF TypeOK, StartReturns, Return
  <2>1. ConnectedIsStarted'
    BY <1>9, <2>0
       DEF ConnectedIsStarted, OwnersOK, CallsOK, StartReturns, Return
  <2>2. OwnerWrites'
    BY <1>9, <2>0
       DEF OwnerWrites, OwnersOK, CallsOK, StartReturns, Return
  <2>3. LastIsGone'
    BY <1>9, <2>0
       DEF LastIsGone, CallsOK, SingleApp, TargetsOK, StartReturns, Return
  <2>4. Covered'
    BY <1>9, <2>0
       DEF Covered, OwnerSubscribes, AppSubscribes, Subscribed, OwnersOK, CallsOK,
           TargetsOK, ConnectedIsStarted, OwnerWrites, LastIsGone, StartReturns, Return
  <2> QED BY <2>1, <2>2, <2>3, <2>4
<1>10. ASSUME NEW t \in Threads, ReconnectReturns(t)
      PROVE  ConnectedIsStarted' /\ OwnerWrites' /\ LastIsGone' /\ Covered'
  <2>0. /\ t \in Threads /\ g'[t] \in Goroutine
        /\ \A u \in Threads \ {t} : g'[u] = g[u]
    BY <1>10, <1>a
       DEF TypeOK, ReconnectReturns
  <2>1. ConnectedIsStarted'
    BY <1>10, <2>0
       DEF ConnectedIsStarted, OwnersOK, CallsOK, ReconnectReturns
  <2>2. OwnerWrites'
    BY <1>10, <2>0
       DEF OwnerWrites, OwnersOK, CallsOK, ReconnectReturns
  <2>3. LastIsGone'
    BY <1>10, <2>0
       DEF LastIsGone, CallsOK, SingleApp, TargetsOK, ReconnectReturns
  <2>4. Covered'
    BY <1>10, <2>0
       DEF Covered, OwnerSubscribes, AppSubscribes, Subscribed, OwnersOK, CallsOK,
           TargetsOK, ConnectedIsStarted, OwnerWrites, LastIsGone, ReconnectReturns
  <2> QED BY <2>1, <2>2, <2>3, <2>4
<1>11. ASSUME NEW t \in Threads, Abandon(t)
      PROVE  ConnectedIsStarted' /\ OwnerWrites' /\ LastIsGone' /\ Covered'
  <2>0. /\ t \in Threads /\ g'[t] \in Goroutine
        /\ \A u \in Threads \ {t} : g'[u] = g[u]
    BY <1>11, <1>a
       DEF TypeOK, Abandon, AfterFailure, ConnectionLoss, Ignored, WantsLoop
  <2>1. ConnectedIsStarted'
    BY <1>11, <2>0
       DEF ConnectedIsStarted, OwnersOK, CallsOK, Abandon, AfterFailure, ConnectionLoss,
           Ignored, WantsLoop
  <2>2. OwnerWrites'
    BY <1>11, <2>0
       DEF OwnerWrites, OwnersOK, CallsOK, Abandon, AfterFailure, ConnectionLoss, Ignored,
           WantsLoop
  <2>3. LastIsGone'
    BY <1>11, <2>0
       DEF LastIsGone, CallsOK, SingleApp, TargetsOK, Abandon, AfterFailure,
           ConnectionLoss, Ignored, WantsLoop
  <2>4. Covered'
    BY <1>11, <2>0
       DEF Covered, OwnerSubscribes, AppSubscribes, Subscribed, OwnersOK, CallsOK,
           TargetsOK, ConnectedIsStarted, OwnerWrites, LastIsGone, Abandon, AfterFailure,
           ConnectionLoss, Ignored, WantsLoop
  <2> QED BY <2>1, <2>2, <2>3, <2>4
<1>12. ASSUME NEW t \in Threads, Locate(t)
      PROVE  ConnectedIsStarted' /\ OwnerWrites' /\ LastIsGone' /\ Covered'
  <2>0. /\ t \in Threads /\ g'[t] \in Goroutine
        /\ \A u \in Threads \ {t} : g'[u] = g[u]
    BY <1>12, <1>a
       DEF TypeOK, Locate
  <2>1. ConnectedIsStarted'
    BY <1>12, <2>0
       DEF ConnectedIsStarted, OwnersOK, CallsOK, Locate
  <2>2. OwnerWrites'
    BY <1>12, <2>0
       DEF OwnerWrites, OwnersOK, CallsOK, Locate
  <2>3. LastIsGone'
    BY <1>12, <2>0
       DEF LastIsGone, CallsOK, SingleApp, TargetsOK, Locate
  <2>4. Covered'
    BY <1>12, <2>0
       DEF Covered, OwnerSubscribes, AppSubscribes, Subscribed, OwnersOK, CallsOK,
           TargetsOK, ConnectedIsStarted, OwnerWrites, LastIsGone, Locate
  <2> QED BY <2>1, <2>2, <2>3, <2>4
<1>13. ASSUME NEW t \in Threads, WriteOk(t)
      PROVE  ConnectedIsStarted' /\ OwnerWrites' /\ LastIsGone' /\ Covered'
  <2>0. /\ t \in Threads /\ g'[t] \in Goroutine
        /\ \A u \in Threads \ {t} : g'[u] = g[u]
    BY <1>13, <1>a
       DEF TypeOK, WriteOk, Establishing
  <2>1. ConnectedIsStarted'
    BY <1>13, <2>0
       DEF ConnectedIsStarted, OwnersOK, CallsOK, WriteOk, Establishing
  <2>2. OwnerWrites'
    BY <1>13, <2>0
       DEF OwnerWrites, OwnersOK, CallsOK, WriteOk, Establishing
  <2>3. LastIsGone'
    BY <1>13, <2>0
       DEF LastIsGone, CallsOK, SingleApp, TargetsOK, WriteOk, Establishing
  <2>4. Covered'
    <3>1. UNCHANGED <<client, wire>> /\ Subscribed' = Subscribed /\ g[t].at = "write"
      BY <1>13, <2>0 DEF WriteOk, Subscribed
    <3>2. SUFFICES ASSUME conn # None, wire[conn] = "open", NEW f \in Subscribed
                   PROVE  f \in subs'[conn] \/ OwnerSubscribes(f)' \/ AppSubscribes(f)'
      BY <3>1 DEF Covered
    <3>3. subs' = IF wire[g[t].target] = "open"
                  THEN [subs EXCEPT ![g[t].target] = Delivered(t, @)] ELSE subs
      BY <1>13, <2>0 DEF WriteOk
    <3>4. f \in Filters /\ handlers[f] # {} /\ subs \in [Conns -> SUBSET Filters] /\ conn \in Conns
      BY <3>2 DEF Subscribed, TypeOK
    <3>5. ASSUME f \in subs[conn] PROVE f \in subs'[conn]
      <4>1. f # g[t].filter \/ g[t].op # "unsubscribe"
        BY <2>0, <3>1, <3>4 DEF LastIsGone, CallsOK, OwnersOK, TargetsOK
      <4> QED BY <3>3, <3>4, <3>5, <4>1 DEF Delivered
    <3>6. ASSUME OwnerSubscribes(f) PROVE f \in subs'[conn] \/ OwnerSubscribes(f)'
      <4>1. PICK u \in Threads :
              /\ g[u].mine = conn
              /\ \/ g[u].at \in {"snapshot", "failed"}
                 \/ g[u].at \in {"resubscribe", "write"} /\ f \in g[u].todo
                 \/ g[u].at = "write" /\ g[u].filter = f
        BY <3>6 DEF OwnerSubscribes
      <4>2. CASE u # t
        BY <2>0, <3>1, <4>1, <4>2 DEF OwnerSubscribes
      <4>3. CASE u = t
        <5>1. g[t].op \in {"start", "reconnect"} /\ g[t].target = conn
          BY <3>1, <3>2, <4>1, <4>3 DEF OwnersOK, OwnerWrites
        <5>2. g'[t].at = "resubscribe" /\ g'[t].todo = g[t].todo /\ g'[t].mine = g[t].mine
          BY <1>13, <2>0, <5>1 DEF WriteOk, Establishing
        <5>3. CASE f \in g[t].todo
          BY <2>0, <3>1, <4>1, <4>3, <5>2, <5>3 DEF OwnerSubscribes
        <5>4. CASE g[t].filter = f
          BY <3>2, <3>3, <3>4, <5>1, <5>4 DEF Delivered
        <5> QED BY <3>1, <4>1, <4>3, <5>3, <5>4
      <4> QED BY <4>2, <4>3
    <3>7. ASSUME AppSubscribes(f) PROVE f \in subs'[conn] \/ AppSubscribes(f)'
      <4>1. PICK a \in Apps :
              /\ g[a].op = "subscribe" /\ g[a].filter = f
              /\ g[a].at = "locate" \/ (g[a].at = "write" /\ g[a].target = conn)
        BY <3>7 DEF AppSubscribes
      <4>2. CASE a # t
        BY <2>0, <3>1, <4>1, <4>2 DEF AppSubscribes
      <4>3. CASE a = t
        BY <3>1, <3>2, <3>3, <3>4, <4>1, <4>3 DEF Delivered
      <4> QED BY <4>2, <4>3
    <3> QED BY <3>2, <3>5, <3>6, <3>7 DEF Covered
  <2> QED BY <2>1, <2>2, <2>3, <2>4
<1>14. ASSUME NEW t \in Threads, WriteFail(t)
      PROVE  ConnectedIsStarted' /\ OwnerWrites' /\ LastIsGone' /\ Covered'
  <2>0. /\ t \in Threads /\ g'[t] \in Goroutine
        /\ \A u \in Threads \ {t} : g'[u] = g[u]
    BY <1>14, <1>a
       DEF TypeOK, WriteFail, Establishing, ConnectionLoss, Ignored, WantsLoop
  <2>1. ConnectedIsStarted'
    BY <1>14, <2>0
       DEF ConnectedIsStarted, OwnersOK, CallsOK, WriteFail, Establishing, ConnectionLoss,
           Ignored, WantsLoop
  <2>2. OwnerWrites'
    BY <1>14, <2>0
       DEF OwnerWrites, OwnersOK, CallsOK, WriteFail, Establishing, ConnectionLoss,
           Ignored, WantsLoop
  <2>3. LastIsGone'
    BY <1>14, <2>0
       DEF LastIsGone, CallsOK, SingleApp, TargetsOK, WriteFail, Establishing,
           ConnectionLoss, Ignored, WantsLoop
  <2>4. Covered'
    BY <1>14, <2>0
       DEF Covered, OwnerSubscribes, AppSubscribes, Subscribed, OwnersOK, CallsOK,
           TargetsOK, ConnectedIsStarted, OwnerWrites, LastIsGone, WriteFail, Establishing,
           ConnectionLoss, Ignored, WantsLoop
  <2> QED BY <2>1, <2>2, <2>3, <2>4
<1>15. ASSUME NEW t \in Loops, LoopBegin(t)
      PROVE  ConnectedIsStarted' /\ OwnerWrites' /\ LastIsGone' /\ Covered'
  <2>0. /\ t \in Threads /\ g'[t] \in Goroutine
        /\ \A u \in Threads \ {t} : g'[u] = g[u]
    BY <1>15, <1>a
       DEF TypeOK, LoopBegin
  <2>1. ConnectedIsStarted'
    BY <1>15, <2>0
       DEF ConnectedIsStarted, OwnersOK, CallsOK, LoopBegin
  <2>2. OwnerWrites'
    BY <1>15, <2>0
       DEF OwnerWrites, OwnersOK, CallsOK, LoopBegin
  <2>3. LastIsGone'
    BY <1>15, <2>0
       DEF LastIsGone, CallsOK, SingleApp, TargetsOK, LoopBegin
  <2>4. Covered'
    BY <1>15, <2>0
       DEF Covered, OwnerSubscribes, AppSubscribes, Subscribed, OwnersOK, CallsOK,
           TargetsOK, ConnectedIsStarted, OwnerWrites, LastIsGone, LoopBegin
  <2> QED BY <2>1, <2>2, <2>3, <2>4
<1>16. ASSUME NEW t \in Loops, LoopCheck(t)
      PROVE  ConnectedIsStarted' /\ OwnerWrites' /\ LastIsGone' /\ Covered'
  <2>0. /\ t \in Threads /\ g'[t] \in Goroutine
        /\ \A u \in Threads \ {t} : g'[u] = g[u]
    BY <1>16, <1>a
       DEF TypeOK, LoopCheck, Goto
  <2>1. ConnectedIsStarted'
    BY <1>16, <2>0
       DEF ConnectedIsStarted, OwnersOK, CallsOK, LoopCheck, Goto
  <2>2. OwnerWrites'
    BY <1>16, <2>0
       DEF OwnerWrites, OwnersOK, CallsOK, LoopCheck, Goto
  <2>3. LastIsGone'
    BY <1>16, <2>0
       DEF LastIsGone, CallsOK, SingleApp, TargetsOK, LoopCheck, Goto
  <2>4. Covered'
    BY <1>16, <2>0
       DEF Covered, OwnerSubscribes, AppSubscribes, Subscribed, OwnersOK, CallsOK,
           TargetsOK, ConnectedIsStarted, OwnerWrites, LastIsGone, LoopCheck, Goto
  <2> QED BY <2>1, <2>2, <2>3, <2>4
<1>17. ASSUME NEW t \in Loops, Backoff(t)
      PROVE  ConnectedIsStarted' /\ OwnerWrites' /\ LastIsGone' /\ Covered'
  <2>0. /\ t \in Threads /\ g'[t] \in Goroutine
        /\ \A u \in Threads \ {t} : g'[u] = g[u]
    BY <1>17, <1>a
       DEF TypeOK, Backoff, Goto
  <2>1. ConnectedIsStarted'
    BY <1>17, <2>0
       DEF ConnectedIsStarted, OwnersOK, CallsOK, Backoff, Goto
  <2>2. OwnerWrites'
    BY <1>17, <2>0
       DEF OwnerWrites, OwnersOK, CallsOK, Backoff, Goto
  <2>3. LastIsGone'
    BY <1>17, <2>0
       DEF LastIsGone, CallsOK, SingleApp, TargetsOK, Backoff, Goto
  <2>4. Covered'
    BY <1>17, <2>0
       DEF Covered, OwnerSubscribes, AppSubscribes, Subscribed, OwnersOK, CallsOK,
           TargetsOK, ConnectedIsStarted, OwnerWrites, LastIsGone, Backoff, Goto
  <2> QED BY <2>1, <2>2, <2>3, <2>4
<1>18. ASSUME NEW t \in Loops, LoopExit(t)
      PROVE  ConnectedIsStarted' /\ OwnerWrites' /\ LastIsGone' /\ Covered'
  <2>0. /\ t \in Threads /\ g'[t] \in Goroutine
        /\ \A u \in Threads \ {t} : g'[u] = g[u]
    BY <1>18, <1>a
       DEF TypeOK, LoopExit, Return
  <2>1. ConnectedIsStarted'
    BY <1>18, <2>0
       DEF ConnectedIsStarted, OwnersOK, CallsOK, LoopExit, Return
  <2>2. OwnerWrites'
    BY <1>18, <2>0
       DEF OwnerWrites, OwnersOK, CallsOK, LoopExit, Return
  <2>3. LastIsGone'
    BY <1>18, <2>0
       DEF LastIsGone, CallsOK, SingleApp, TargetsOK, LoopExit, Return
  <2>4. Covered'
    BY <1>18, <2>0
       DEF Covered, OwnerSubscribes, AppSubscribes, Subscribed, OwnersOK, CallsOK,
           TargetsOK, ConnectedIsStarted, OwnerWrites, LastIsGone, LoopExit, Return
  <2> QED BY <2>1, <2>2, <2>3, <2>4
<1>19. ASSUME NEW t \in Apps, Publish(t)
      PROVE  ConnectedIsStarted' /\ OwnerWrites' /\ LastIsGone' /\ Covered'
  <2>0. /\ t \in Threads /\ g'[t] \in Goroutine
        /\ \A u \in Threads \ {t} : g'[u] = g[u]
    BY <1>19, <1>a
       DEF TypeOK, Publish
  <2>1. ConnectedIsStarted'
    BY <1>19, <2>0
       DEF ConnectedIsStarted, OwnersOK, CallsOK, Publish
  <2>2. OwnerWrites'
    BY <1>19, <2>0
       DEF OwnerWrites, OwnersOK, CallsOK, Publish
  <2>3. LastIsGone'
    BY <1>19, <2>0
       DEF LastIsGone, CallsOK, SingleApp, TargetsOK, Publish
  <2>4. Covered'
    BY <1>19, <2>0
       DEF Covered, OwnerSubscribes, AppSubscribes, Subscribed, OwnersOK, CallsOK,
           TargetsOK, ConnectedIsStarted, OwnerWrites, LastIsGone, Publish
  <2> QED BY <2>1, <2>2, <2>3, <2>4
<1>20. ASSUME NEW t \in Apps, NEW f \in Filters, NEW i \in Ids, Subscribe(t, f, i)
      PROVE  ConnectedIsStarted' /\ OwnerWrites' /\ LastIsGone' /\ Covered'
  <2>0. /\ t \in Threads /\ g'[t] \in Goroutine
        /\ \A u \in Threads \ {t} : g'[u] = g[u]
    BY <1>20, <1>a
       DEF TypeOK, Subscribe
  <2>1. ConnectedIsStarted'
    BY <1>20, <2>0
       DEF ConnectedIsStarted, OwnersOK, CallsOK, Subscribe
  <2>2. OwnerWrites'
    BY <1>20, <2>0
       DEF OwnerWrites, OwnersOK, CallsOK, Subscribe
  <2>3. LastIsGone'
    BY <1>20, <2>0
       DEF LastIsGone, CallsOK, SingleApp, TargetsOK, Subscribe
  <2>4. Covered'
    BY <1>20, <2>0
       DEF Covered, OwnerSubscribes, AppSubscribes, Subscribed, OwnersOK, CallsOK,
           TargetsOK, ConnectedIsStarted, OwnerWrites, LastIsGone, Subscribe
  <2> QED BY <2>1, <2>2, <2>3, <2>4
<1>21. ASSUME NEW t \in Apps, NEW f \in Filters, NEW i \in Ids, Unsubscribe(t, f, i)
      PROVE  ConnectedIsStarted' /\ OwnerWrites' /\ LastIsGone' /\ Covered'
  <2>0. /\ t \in Threads /\ g'[t] \in Goroutine
        /\ \A u \in Threads \ {t} : g'[u] = g[u]
    BY <1>21, <1>a
       DEF TypeOK, Unsubscribe, LastOf
  <2>1. ConnectedIsStarted'
    BY <1>21, <2>0
       DEF ConnectedIsStarted, OwnersOK, CallsOK, Unsubscribe, LastOf
  <2>2. OwnerWrites'
    BY <1>21, <2>0
       DEF OwnerWrites, OwnersOK, CallsOK, Unsubscribe, LastOf
  <2>3. LastIsGone'
    BY <1>21, <2>0 DEF LastIsGone, SingleApp, Unsubscribe, LastOf, TypeOK
  <2>4. Covered'
    BY <1>21, <2>0
       DEF Covered, OwnerSubscribes, AppSubscribes, Subscribed, OwnersOK, CallsOK,
           TargetsOK, ConnectedIsStarted, OwnerWrites, LastIsGone, Unsubscribe, LastOf
  <2> QED BY <2>1, <2>2, <2>3, <2>4
<1>22. ASSUME NEW c \in Conns, ReadFails(c)
      PROVE  ConnectedIsStarted' /\ OwnerWrites' /\ LastIsGone' /\ Covered'
  <2>1. ConnectedIsStarted'
    BY <1>22
       DEF ConnectedIsStarted, OwnersOK, CallsOK, ReadFails, ConnectionLoss, Ignored,
           WantsLoop
  <2>2. OwnerWrites'
    BY <1>22
       DEF OwnerWrites, OwnersOK, CallsOK, ReadFails, ConnectionLoss, Ignored, WantsLoop
  <2>3. LastIsGone'
    BY <1>22
       DEF LastIsGone, CallsOK, SingleApp, TargetsOK, ReadFails, ConnectionLoss, Ignored,
           WantsLoop
  <2>4. Covered'
    BY <1>22
       DEF Covered, OwnerSubscribes, AppSubscribes, Subscribed, OwnersOK, CallsOK,
           TargetsOK, ConnectedIsStarted, OwnerWrites, LastIsGone, ReadFails,
           ConnectionLoss, Ignored, WantsLoop
  <2> QED BY <2>1, <2>2, <2>3, <2>4
<1>23. ASSUME NEW c \in Conns, PingFails(c)
      PROVE  ConnectedIsStarted' /\ OwnerWrites' /\ LastIsGone' /\ Covered'
  <2>1. ConnectedIsStarted'
    BY <1>23
       DEF ConnectedIsStarted, OwnersOK, CallsOK, PingFails, ConnectionLoss, Ignored,
           WantsLoop
  <2>2. OwnerWrites'
    BY <1>23
       DEF OwnerWrites, OwnersOK, CallsOK, PingFails, ConnectionLoss, Ignored, WantsLoop
  <2>3. LastIsGone'
    BY <1>23
       DEF LastIsGone, CallsOK, SingleApp, TargetsOK, PingFails, ConnectionLoss, Ignored,
           WantsLoop
  <2>4. Covered'
    BY <1>23
       DEF Covered, OwnerSubscribes, AppSubscribes, Subscribed, OwnersOK, CallsOK,
           TargetsOK, ConnectedIsStarted, OwnerWrites, LastIsGone, PingFails,
           ConnectionLoss, Ignored, WantsLoop
  <2> QED BY <2>1, <2>2, <2>3, <2>4
<1>24. ASSUME NEW c \in Conns, Break(c)
      PROVE  ConnectedIsStarted' /\ OwnerWrites' /\ LastIsGone' /\ Covered'
  <2>1. ConnectedIsStarted'
    BY <1>24
       DEF ConnectedIsStarted, OwnersOK, CallsOK, Break
  <2>2. OwnerWrites'
    BY <1>24
       DEF OwnerWrites, OwnersOK, CallsOK, Break
  <2>3. LastIsGone'
    BY <1>24
       DEF LastIsGone, CallsOK, SingleApp, TargetsOK, Break
  <2>4. Covered'
    BY <1>24
       DEF Covered, OwnerSubscribes, AppSubscribes, Subscribed, OwnersOK, CallsOK,
           TargetsOK, ConnectedIsStarted, OwnerWrites, LastIsGone, Break
  <2> QED BY <2>1, <2>2, <2>3, <2>4
<1>25. CASE UNCHANGED vars
  BY <1>25
     DEF vars, network, history, ConnectedIsStarted, OwnerWrites, LastIsGone, SingleApp,
         Covered, OwnerSubscribes, AppSubscribes, Subscribed
<1> QED
  BY <1>1, <1>2, <1>3, <1>4, <1>5, <1>6, <1>7, <1>8, <1>9, <1>10, <1>11, <1>12, <1>13, <1>14, <1>15, <1>16, <1>17, <1>18, <1>19, <1>20, <1>21, <1>22, <1>23, <1>24, <1>25
     DEF Next, HostStep, AppStep, LoopStep, Proceed, EstablishStep

\* With one goroutine that subscribes and unsubscribes, no handler is forgotten across
\* outages, reconnections and failed calls (Subscribe, Unsubscribe, setConnected and
\* subscriptionFilters).
THEOREM NoHandlerIsForgotten == Spec => [](SingleApp => HandlersReachBroker)
<1>1. IInv /\ ReachInv => (SingleApp => HandlersReachBroker)
  <2> SUFFICES ASSUME IInv, ReachInv, SingleApp, conn # None, wire[conn] = "open",
                      NEW f \in Subscribed, f \notin subs[conn]
               PROVE  \E t \in Threads :
                        WillSubscribe(t, f) \/ (g[t].at = "failed" /\ g[t].mine = conn)
    BY DEF HandlersReachBroker
  <2>1. OwnerSubscribes(f) \/ AppSubscribes(f)
    BY DEF ReachInv, Covered
  <2>2. CASE OwnerSubscribes(f)
    BY <2>2 DEF OwnerSubscribes, WillSubscribe, IInv, OwnersOK, ReachInv, OwnerWrites
  <2>3. CASE AppSubscribes(f)
    BY <2>3 DEF AppSubscribes, WillSubscribe, Threads, Callers
  <2> QED BY <2>1, <2>2, <2>3
<1> QED BY <1>1, SpecInv, ReachInit, ReachStep, PTL DEF Spec
-----------------------------------------------------------------------------
(* What OutageIsNoticed and StopEndsReconnecting rest on besides fairness: *)
(* an attempt to connect and, after Stop, a reconnectLoop run out of       *)
(* steps, and an outage lasts until somebody acts on it.                   *)

Connecting == {"dial", "install", "snapshot", "resubscribe", "write", "failed"}

\* The way of a goroutine through establishConnection, the resubscription and the end of
\* reconnectLoop.
Phase(at) ==
  CASE at = "dial" -> 8
    [] at = "install" -> 7
    [] at = "snapshot" -> 6
    [] at \in {"resubscribe", "write"} -> 5
    [] at = "failed" -> 4
    [] at = "backoff" -> 3
    [] at = "check" -> 2
    [] at = "exiting" -> 1
    [] OTHER -> 0

\* From s to r a goroutine goes on: to a later phase or, among the filters that it
\* resubscribes, to the next one or to the end of its packet.
Later(s, r) ==
  \/ Phase(r.at) < Phase(s.at)
  \/ s.at = "resubscribe" /\ r.at = "write" /\ \E f \in s.todo : r.todo = s.todo \ {f}
  \/ s.at = "write" /\ r.at = "resubscribe" /\ r.todo = s.todo

\* An attempt to connect has a bounded number of steps, as many as there are filters to
\* subscribe again, and nothing sends it back.
AttemptsRunOut ==
  [][\A t \in Threads :
       g[t].at \in Connecting /\ g'[t] # g[t] => Later(g[t], g'[t])]_vars

\* While `closing` is set no reconnectLoop is requested, and one that runs goes towards
\* its end: it does not dial again.
LoopsRunOut ==
  [][closing /\ closing' =>
       /\ spawned' <= spawned
       /\ \A l \in Loops : g'[l] # g[l] =>
            Later(g[l], g'[l]) \/ (g[l].at = "idle" /\ spawned' < spawned)]_vars

\* The current connection does not come back from an outage, and its readLoop ends only
\* by dropping it.
OutageLasts ==
  [][\A c \in Conns : conn = c /\ wire[c] # "open" /\ conn' = c =>
       wire'[c] # "open" /\ (c \in readers => c \in readers')]_vars

\* The steps of one goroutine change no other's state.
LEMMA OthersStay ==
  ASSUME TypeOK, NEW t \in Threads, NEW s, Become(t, s)
  PROVE  g'[t] = s /\ \A u \in Threads \ {t} : g'[u] = g[u]
BY DEF TypeOK, Become

\* What a step of a call makes of its goroutine.
LEMMA ProceedAdvances ==
  ASSUME IInv, NEW t \in Threads, Proceed(t)
  PROVE  /\ \A u \in Threads \ {t} : g'[u] = g[u]
         /\ g[t].at \in Connecting \cup {"locate", "closing"}
         /\ g[t].at \in Connecting => Later(g[t], g'[t])
<1>0. TypeOK /\ g[t] \in Goroutine
  BY DEF IInv, TypeOK
<1>1. CASE StopClose(t) \/ Locate(t)
  <2>1. (\E s : Become(t, s)) /\ g[t].at \in {"closing", "locate"}
    BY <1>1 DEF StopClose, Return, Locate
  <2>. QED  BY <1>0, <2>1, OthersStay DEF Connecting
<1>2. CASE DialOk(t)
  <2>1. PICK c \in Conns : Become(t, [g[t] EXCEPT !.at = "install", !.mine = c])
    BY <1>2 DEF DialOk
  <2>2. g'[t] = [g[t] EXCEPT !.at = "install", !.mine = c] /\ \A u \in Threads \ {t} : g'[u] = g[u]
    BY <1>0, <2>1, OthersStay
  <2>3. g[t].at = "dial"
    BY <1>2 DEF DialOk
  <2>4. g'[t].at = "install"
    BY <1>0, <2>2 DEF Goroutine
  <2>. QED  BY <2>2, <2>3, <2>4 DEF Connecting, Later, Phase
<1>3. CASE DialFail(t) \/ Abandon(t)
  <2>1. Become(t, AfterFailure(t))
    BY <1>3 DEF DialFail, Abandon
  <2>2. g'[t] = AfterFailure(t) /\ \A u \in Threads \ {t} : g'[u] = g[u]
    BY <1>0, <2>1, OthersStay
  <2>3. g[t].at \in {"dial", "failed"}
    BY <1>3 DEF DialFail, Abandon
  <2>4. g'[t].at \in {"idle", "backoff"}
    BY <1>0, <2>2 DEF AfterFailure, Idle, Calling
  <2>. QED  BY <2>2, <2>3, <2>4 DEF Connecting, Later, Phase
<1>4. CASE Install(t)
  <2>1. Become(t, [g[t] EXCEPT !.at = "snapshot"])
    BY <1>4 DEF Install, Goto
  <2>2. g'[t] = [g[t] EXCEPT !.at = "snapshot"] /\ \A u \in Threads \ {t} : g'[u] = g[u]
    BY <1>0, <2>1, OthersStay
  <2>3. g[t].at = "install"
    BY <1>4 DEF Install
  <2>4. g'[t].at = "snapshot"
    BY <1>0, <2>2 DEF Goroutine
  <2>. QED  BY <2>2, <2>3, <2>4 DEF Connecting, Later, Phase
<1>5. CASE Snapshot(t)
  <2>1. Become(t, [g[t] EXCEPT !.at = "resubscribe", !.todo = Subscribed])
    BY <1>5 DEF Snapshot
  <2>2. g'[t] = [g[t] EXCEPT !.at = "resubscribe", !.todo = Subscribed] /\ \A u \in Threads \ {t} : g'[u] = g[u]
    BY <1>0, <2>1, OthersStay
  <2>3. g[t].at = "snapshot"
    BY <1>5 DEF Snapshot
  <2>4. g'[t].at = "resubscribe"
    BY <1>0, <2>2 DEF Goroutine
  <2>. QED  BY <2>2, <2>3, <2>4 DEF Connecting, Later, Phase
<1>6. CASE ResubscribeNext(t)
  <2>1. PICK f \in g[t].todo :
          Become(t, IF started /\ conn # None
                    THEN [g[t] EXCEPT !.at = "write", !.target = conn,
                                      !.filter = f, !.todo = @ \ {f}]
                    ELSE [g[t] EXCEPT !.at = "failed", !.todo = {}])
    BY <1>6 DEF ResubscribeNext
  <2>2. /\ g'[t] = IF started /\ conn # None
                   THEN [g[t] EXCEPT !.at = "write", !.target = conn,
                                     !.filter = f, !.todo = @ \ {f}]
                   ELSE [g[t] EXCEPT !.at = "failed", !.todo = {}]
        /\ \A u \in Threads \ {t} : g'[u] = g[u]
    BY <1>0, <2>1, OthersStay
  <2>3. g[t].at = "resubscribe"
    BY <1>6 DEF ResubscribeNext
  <2>4. \/ g'[t].at = "write" /\ g'[t].todo = g[t].todo \ {f}
        \/ g'[t].at = "failed"
    BY <1>0, <2>2 DEF Goroutine
  <2>. QED  BY <2>2, <2>3, <2>4 DEF Connecting, Later, Phase
<1>7. CASE StartReturns(t)
  <2>1. Become(t, Idle)
    BY <1>7 DEF StartReturns, Return
  <2>2. g'[t] = Idle /\ \A u \in Threads \ {t} : g'[u] = g[u]
    BY <1>0, <2>1, OthersStay
  <2>3. g[t].at = "resubscribe"
    BY <1>7 DEF StartReturns
  <2>4. g'[t].at = "idle"
    BY <1>0, <2>2 DEF Idle
  <2>. QED  BY <2>2, <2>3, <2>4 DEF Connecting, Later, Phase
<1>8. CASE ReconnectReturns(t)
  <2>1. Become(t, Calling("reconnect", "exiting"))
    BY <1>8 DEF ReconnectReturns
  <2>2. g'[t] = Calling("reconnect", "exiting") /\ \A u \in Threads \ {t} : g'[u] = g[u]
    BY <1>0, <2>1, OthersStay
  <2>3. g[t].at = "resubscribe"
    BY <1>8 DEF ReconnectReturns
  <2>4. g'[t].at = "exiting"
    BY <1>0, <2>2 DEF Idle, Calling
  <2>. QED  BY <2>2, <2>3, <2>4 DEF Connecting, Later, Phase
<1>9. CASE WriteOk(t)
  <2>1. /\ g[t].at = "write"
        /\ Become(t, IF Establishing(t)
                     THEN [g[t] EXCEPT !.at = "resubscribe", !.target = None,
                                       !.filter = None]
                     ELSE Idle)
    BY <1>9 DEF WriteOk
  <2>2. /\ g'[t] = IF Establishing(t)
                   THEN [g[t] EXCEPT !.at = "resubscribe", !.target = None,
                                     !.filter = None]
                   ELSE Idle
        /\ \A u \in Threads \ {t} : g'[u] = g[u]
    BY <1>0, <2>1, OthersStay
  <2>3. \/ g'[t].at = "resubscribe" /\ g'[t].todo = g[t].todo
        \/ g'[t].at = "idle"
    BY <1>0, <2>2 DEF Goroutine, Idle
  <2>. QED  BY <2>1, <2>2, <2>3 DEF Connecting, Later, Phase
<1>10. CASE WriteFail(t)
  <2>1. /\ g[t].at = "write"
        /\ Become(t, IF Establishing(t)
                     THEN [g[t] EXCEPT !.at = "failed", !.target = None,
                                       !.filter = None, !.todo = {}]
                     ELSE Idle)
    BY <1>10 DEF WriteFail
  <2>2. /\ g'[t] = IF Establishing(t)
                   THEN [g[t] EXCEPT !.at = "failed", !.target = None,
                                     !.filter = None, !.todo = {}]
                   ELSE Idle
        /\ \A u \in Threads \ {t} : g'[u] = g[u]
    BY <1>0, <2>1, OthersStay
  <2>3. g'[t].at \in {"failed", "idle"}
    BY <1>0, <2>2 DEF Goroutine, Idle
  <2>. QED  BY <2>1, <2>2, <2>3 DEF Connecting, Later, Phase
<1>. QED
  BY <1>1, <1>2, <1>3, <1>4, <1>5, <1>6, <1>7, <1>8, <1>9, <1>10 DEF Proceed, EstablishStep

\* What the other steps of reconnectLoop make of its goroutine.
LEMMA LoopAdvances ==
  ASSUME IInv, NEW l \in Loops, LoopStep(l)
  PROVE  /\ \A u \in Threads \ {l} : g'[u] = g[u]
         /\ g[l].at \notin Connecting
         /\ closing => Later(g[l], g'[l]) \/ (g[l].at = "idle" /\ spawned' < spawned)
<1>0. TypeOK /\ l \in Threads /\ g[l] \in Goroutine /\ spawned \in Nat
  BY DEF IInv, TypeOK, Threads
<1>1. CASE LoopBegin(l)
  <2>1. (\E s : Become(l, s)) /\ g[l].at = "idle" /\ spawned' < spawned
    BY <1>0, <1>1 DEF LoopBegin
  <2>. QED  BY <1>0, <2>1, OthersStay DEF Connecting
<1>2. CASE LoopCheck(l)
  <2>1. Become(l, [g[l] EXCEPT !.at = IF closing THEN "exiting" ELSE "dial"])
    BY <1>2 DEF LoopCheck, Goto
  <2>2. g'[l] = [g[l] EXCEPT !.at = IF closing THEN "exiting" ELSE "dial"] /\ \A u \in Threads \ {l} : g'[u] = g[u]
    BY <1>0, <2>1, OthersStay
  <2>3. g[l].at = "check"
    BY <1>2 DEF LoopCheck
  <2>4. closing => g'[l].at = "exiting"
    BY <1>0, <2>2 DEF Goroutine
  <2>. QED  BY <2>2, <2>3, <2>4 DEF Connecting, Later, Phase
<1>3. CASE Backoff(l)
  <2>1. PICK place \in {"check", "exiting"} : Become(l, [g[l] EXCEPT !.at = place])
    BY <1>3 DEF Backoff, Goto
  <2>2. g'[l] = [g[l] EXCEPT !.at = place] /\ \A u \in Threads \ {l} : g'[u] = g[u]
    BY <1>0, <2>1, OthersStay
  <2>3. g[l].at = "backoff"
    BY <1>3 DEF Backoff
  <2>4. g'[l].at \in {"check", "exiting"}
    BY <1>0, <2>2 DEF Goroutine
  <2>. QED  BY <2>2, <2>3, <2>4 DEF Connecting, Later, Phase
<1>4. CASE LoopExit(l)
  <2>1. Become(l, Idle)
    BY <1>4 DEF LoopExit, Return
  <2>2. g'[l] = Idle /\ \A u \in Threads \ {l} : g'[u] = g[u]
    BY <1>0, <2>1, OthersStay
  <2>3. g[l].at = "exiting"
    BY <1>4 DEF LoopExit
  <2>4. g'[l].at = "idle"
    BY <1>0, <2>2 DEF Idle
  <2>. QED  BY <2>2, <2>3, <2>4 DEF Connecting, Later, Phase
<1>. QED  BY <1>1, <1>2, <1>3, <1>4 DEF LoopStep
\* Whoever begins something was in no call, and a readLoop or the network moves nobody.
LEMMA OtherStepsStay ==
  ASSUME IInv, Next,
         ~\E l \in Loops : LoopStep(l), ~\E t \in Threads : Proceed(t)
  PROVE  /\ \A t \in Threads : g'[t] # g[t] => t \in Callers /\ g[t].at = "idle"
         /\ closing /\ closing' => spawned' = spawned
<1>0. TypeOK
  BY DEF IInv
<1>1. ASSUME NEW h \in Hosts, HostStep(h)
      PROVE  /\ \A t \in Threads : g'[t] # g[t] => t \in Callers /\ g[t].at = "idle"
             /\ spawned' = spawned
  <2>1. /\ h \in Threads /\ h \in Callers /\ g[h].at = "idle" /\ spawned' = spawned
        /\ \E s : Become(h, s)
    BY <1>1 DEF HostStep, StartBegin, StopBegin, Threads, Callers
  <2>. QED  BY <1>0, <2>1, OthersStay
<1>2. ASSUME NEW a \in Apps, AppStep(a)
      PROVE  /\ \A t \in Threads : g'[t] # g[t] => t \in Callers /\ g[t].at = "idle"
             /\ spawned' = spawned
  <2>1. /\ a \in Threads /\ a \in Callers /\ g[a].at = "idle" /\ spawned' = spawned
        /\ \E s : Become(a, s)
    BY <1>2 DEF AppStep, Publish, Subscribe, Unsubscribe, Threads, Callers
  <2>. QED  BY <1>0, <2>1, OthersStay
<1>3. ASSUME NEW c \in Conns, ReadFails(c) \/ PingFails(c) \/ Break(c)
      PROVE  g' = g /\ (closing => spawned' = spawned)
  BY <1>3 DEF ReadFails, PingFails, Break, ConnectionLoss, WantsLoop
<1>. QED  BY <1>1, <1>2, <1>3 DEF Next

\* For any filters and whatever the network does, Start and each attempt of a
\* reconnectLoop end, with a connection that is read or with none.
THEOREM AttemptsEnd == Spec => AttemptsRunOut
<1>. DEFINE Right ==
       \A t \in Threads : g[t].at \in Connecting /\ g'[t] # g[t] => Later(g[t], g'[t])
<1>1. ASSUME IInv, Next PROVE Right
  <2>1. CASE \E t \in Threads : Proceed(t)
    BY <1>1, <2>1, ProceedAdvances
  <2>2. CASE \E l \in Loops : LoopStep(l)
    BY <1>1, <2>2, LoopAdvances
  <2>3. CASE ~(\E l \in Loops : LoopStep(l)) /\ ~(\E t \in Threads : Proceed(t))
    BY <1>1, <2>3, OtherStepsStay DEF Connecting
  <2>. QED  BY <2>1, <2>2, <2>3
<1>2. IInv /\ [Next]_vars => [Right]_vars
  BY <1>1
<1>. QED  BY <1>2, SpecInv, PTL DEF Spec, AttemptsRunOut

\* After Stop the reconnectLoop, wherever it is, runs out of steps and no other is asked
\* for; reconnecting is then FALSE (AtMostOneLoop).
THEOREM ClosingEndsLoops == Spec => LoopsRunOut
<1>. DEFINE Right ==
       closing /\ closing' =>
         /\ spawned' <= spawned
         /\ \A l \in Loops : g'[l] # g[l] =>
              Later(g[l], g'[l]) \/ (g[l].at = "idle" /\ spawned' < spawned)
<1>1. ASSUME IInv, Next PROVE Right
  <2>0. /\ TypeOK /\ spawned \in Nat /\ Loops \subseteq Threads
        /\ \A l \in Loops : /\ l \notin Callers
                            /\ g[l].at \notin {"locate", "closing"}
    BY <1>1, ConstantsAssumption DEF IInv, TypeOK, CallsOK, Threads
  <2>. SUFFICES ASSUME closing, closing' PROVE Right
    OBVIOUS
  <2>1. ASSUME NEW t \in Threads, Proceed(t) PROVE Right
    <3>1. spawned' = spawned
      BY <2>1 DEF Proceed, StopClose, EstablishStep, DialOk, DialFail, Install, Snapshot,
         ResubscribeNext, StartReturns, ReconnectReturns, Abandon, Locate, WriteOk, WriteFail,
         ConnectionLoss, WantsLoop
    <3>2. /\ \A u \in Threads \ {t} : g'[u] = g[u]
          /\ g[t].at \in Connecting \cup {"locate", "closing"}
          /\ g[t].at \in Connecting => Later(g[t], g'[t])
      BY <1>1, <2>1, ProceedAdvances
    <3>. QED  BY <2>0, <3>1, <3>2
  <2>2. ASSUME NEW k \in Loops, LoopStep(k) PROVE Right
    <3>1. spawned' <= spawned
      BY <2>0, <2>2 DEF LoopStep, LoopBegin, LoopCheck, Backoff, LoopExit
    <3>2. /\ \A u \in Threads \ {k} : g'[u] = g[u]
          /\ Later(g[k], g'[k]) \/ (g[k].at = "idle" /\ spawned' < spawned)
      BY <1>1, <2>2, LoopAdvances
    <3>. QED  BY <2>0, <3>1, <3>2
  <2>3. CASE ~(\E l \in Loops : LoopStep(l)) /\ ~(\E t \in Threads : Proceed(t))
    BY <1>1, <2>0, <2>3, OtherStepsStay
  <2>. QED  BY <2>1, <2>2, <2>3
<1>2. IInv /\ [Next]_vars => [Right]_vars
  BY <1>1
<1>. QED  BY <1>2, SpecInv, PTL DEF Spec, LoopsRunOut

\* A connection is dialled only where nobody refers to it (Unused), so that the one whose
\* outage nobody has noticed yet is not opened again; ReadFails drops it.
THEOREM OutageStays == Spec => OutageLasts
<1>. DEFINE Right ==
       \A c \in Conns : conn = c /\ wire[c] # "open" /\ conn' = c =>
         wire'[c] # "open" /\ (c \in readers => c \in readers')
<1>1. ASSUME IInv, Next PROVE Right
  <2>0. TypeOK
    BY <1>1 DEF IInv
  <2>. SUFFICES ASSUME NEW c \in Conns, conn = c, wire[c] # "open", conn' = c
                PROVE  wire'[c] # "open" /\ (c \in readers => c \in readers')
    OBVIOUS
  <2>1. c # None
    BY ConstantsAssumption
  <2>2. ASSUME NEW d \in Conns \cup {None}, NEW r \in BOOLEAN, ConnectionLoss(d, r)
        PROVE  wire' = wire /\ d # c
    BY <2>1, <2>2 DEF ConnectionLoss, Ignored
  <2>3. ASSUME NEW h \in Hosts, HostStep(h) PROVE wire' = wire /\ readers' = readers
    BY <2>3 DEF HostStep, StartBegin, StopBegin, network
  <2>4. ASSUME NEW a \in Apps, AppStep(a) PROVE wire' = wire /\ readers' = readers
    BY <2>4 DEF AppStep, Publish, Subscribe, Unsubscribe, network
  <2>5. ASSUME NEW l \in Loops, LoopStep(l) PROVE wire' = wire /\ readers' = readers
    BY <2>5 DEF LoopStep, LoopBegin, LoopCheck, Backoff, LoopExit, network
  <2>6. ASSUME NEW t \in Threads, Proceed(t)
        PROVE  wire'[c] # "open" /\ (c \in readers => c \in readers')
    <3>1. g[t].mine \in Conns \cup {None} /\ g[t].target \in Conns \cup {None}
      BY <2>0 DEF TypeOK, Goroutine
    <3>2. CASE StopClose(t)
      BY <2>0, <3>1, <3>2 DEF StopClose, TypeOK
    <3>3. CASE DialOk(t)
      BY <2>0, <3>3 DEF DialOk, Unused, TypeOK
    <3>4. CASE Abandon(t) \/ WriteFail(t)
      BY <2>2, <3>1, <3>4 DEF Abandon, WriteFail
    <3>5. CASE DialFail(t) \/ Install(t) \/ Snapshot(t) \/ ResubscribeNext(t)
               \/ StartReturns(t) \/ ReconnectReturns(t) \/ Locate(t) \/ WriteOk(t)
      BY <3>5 DEF DialFail, Install, Snapshot, ResubscribeNext, StartReturns,
         ReconnectReturns, Locate, WriteOk, network
    <3>. QED  BY <2>6, <3>2, <3>3, <3>4, <3>5 DEF Proceed, EstablishStep
  <2>7. ASSUME NEW d \in Conns, ReadFails(d) \/ PingFails(d) \/ Break(d)
        PROVE  wire'[c] # "open" /\ (c \in readers => c \in readers')
    <3>1. CASE ReadFails(d)
      BY <2>2, <3>1 DEF ReadFails
    <3>2. CASE PingFails(d)
      BY <2>2, <3>2 DEF PingFails
    <3>3. CASE Break(d)
      BY <2>0, <3>3 DEF Break, TypeOK
    <3>. QED  BY <2>7, <3>1, <3>2, <3>3
  <2>. QED  BY <1>1, <2>3, <2>4, <2>5, <2>6, <2>7 DEF Next
<1>2. IInv /\ [Next]_vars => [Right]_vars
  BY <1>1
<1>. QED  BY <1>2, SpecInv, PTL DEF Spec, OutageLasts
=============================================================================
