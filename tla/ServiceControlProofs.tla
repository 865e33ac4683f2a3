------------------------ MODULE ServiceControlProofs ------------------------
(***************************************************************************)
(* Proofs about ServiceControl.  Every step of the system is a step of     *)
(* AppProcess or leaves the process alone, so that what AppProcessProofs   *)
(* shows of a process holds under the manager.  The rest is about the      *)
(* commands: what is known of the unit at each point of a method.          *)
(***************************************************************************)
EXTENDS ServiceControl, AppProcessProofs

-----------------------------------------------------------------------------
(* The process.                                                            *)

LEMMA StepIsProcessStep == [SystemNext]_systemVars => [Next]_vars
<1>. SUFFICES ASSUME [SystemNext]_systemVars PROVE [Next]_vars
  OBVIOUS
<1>1. CASE UNCHANGED systemVars
  BY <1>1 DEF systemVars
<1>2. CASE Steps \/ Terminate \/ Relaunch
  BY <1>2 DEF Next, Relaunch
<1>3. CASE Operator
  <2>1. UNCHANGED vars \/ Act
    BY <1>3 DEF Operator, Begin, Check, Wait, Recheck
  <2>. QED  BY <2>1 DEF Act, Next
<1>4. CASE Rival
  BY <1>4 DEF Rival, Next
<1>. QED  BY <1>1, <1>2, <1>3, <1>4 DEF SystemNext

\* The process is one of AppProcess without its fairness, so that what is shown of that
\* can be used here.
LEMMA SystemIsProcess == SystemSpec => Init /\ [][Next]_vars
<1>1. SystemInit => Init
  BY DEF SystemInit
<1>. QED  BY <1>1, StepIsProcessStep, PTL DEF SystemSpec

LEMMA SystemProcessInv == SystemSpec => []ProcessInv
  BY SystemIsProcess, ProcessIsSafe, PTL

\* Under the manager too, a process that ends by itself has run its stop hooks.
THEOREM SystemStopHooksRun == SystemSpec => []StopHooksAreRun
<1>1. ProcessInv => StopHooksAreRun
  BY DEF ProcessInv
<1>. QED  BY <1>1, SystemProcessInv, PTL

\* What AppProcess promises of a process by itself holds under the manager, whatever
\* commands, rivals and the manager's own restarts do to it: a failure is told, the end is
\* not missed, a failed start stops all or none, and the command runs last.
THEOREM SystemKeepsProcess ==
  SystemSpec => /\ [](ServiceTellsFailure /\ EndIsNotMissed)
                /\ FailedStartStopsAllOrNone /\ CommandRunsLast
<1>1. ProcessInv => ServiceTellsFailure
  BY DEF ProcessInv
<1>2. ProcessInv /\ EndInv => EndIsNotMissed
  BY EndInvImplies
<1>3. Init /\ [][Next]_vars => [](ServiceTellsFailure /\ EndIsNotMissed)
  BY <1>1, <1>2, EndIsSafe, PTL
<1>. QED  BY <1>3, SystemIsProcess, FailedStartAlways, CommandIsLastAlways, PTL

-----------------------------------------------------------------------------
(* The commands.                                                           *)

\* Which method a command is in.
CallIsInMethod ==
  /\ call.at \in {"idle", "ok"} => call = [NoCall EXCEPT !.at = call.at]
  /\ call.at \notin {"idle", "ok"} =>
       \/ call.op \in {"install", "start", "stop"} /\ call.doing = call.op
       \/ call.op = "uninstall" /\ call.doing \in {"stop", "uninstall"}
       \/ call.op = "restart" /\ call.doing \in {"stop", "start"}
  /\ call.at = "wait" => call.doing = "stop"
  /\ call.since <= launches

\* uninstall removes the unit file of a stopped service.
UninstallFindsStopped ==
  ~rival /\ call.doing = "uninstall" /\ call.at = "act" => ~wanted

\* Once a restart has stopped the service, a process that is wanted is a new one.
RestartFindsNew ==
  call.op = "restart" /\ call.doing = "start" /\ wanted /\ Alive => launches > call.since

ControlTypeOK ==
  /\ installed \in BOOLEAN /\ wanted \in BOOLEAN /\ rival \in BOOLEAN
  /\ call \in Calls /\ commands \in 0..MaxCommands

ControlInv ==
  /\ ControlTypeOK
  /\ CallIsInMethod
  /\ UninstallFindsStopped
  /\ RestartFindsNew
  /\ NoOrphan

LEMMA ControlInvInit == SystemInit => ControlInv
<1>. SUFFICES ASSUME SystemInit PROVE ControlInv
  OBVIOUS
<1>1. launches \in 0..MaxLaunches /\ MaxLaunches \in Nat
  BY ProcessInvInit, ProcessAssumption DEF SystemInit, ProcessInv, TypeOK
<1>2. ControlTypeOK
  <2>1. commands \in 0..MaxCommands
    BY ControlAssumption DEF SystemInit
  <2>2. call \in Calls
    BY <1>1 DEF SystemInit, Calls, NoCall, Ops
  <2>3. installed \in BOOLEAN /\ wanted \in BOOLEAN /\ rival \in BOOLEAN
    BY Zenon DEF SystemInit
  <2>. QED  BY <2>1, <2>2, <2>3 DEF ControlTypeOK
<1>3. CallIsInMethod
  BY <1>1 DEF SystemInit, CallIsInMethod, NoCall
<1>. QED
  BY <1>2, <1>3 DEF SystemInit, ControlInv, UninstallFindsStopped, RestartFindsNew, NoOrphan,
     NoCall

\* The process goes its way: nothing but Launch begins a process.
LEMMA ProcessKeepsControl ==
  ASSUME ProcessInv, ControlInv, [Next]_vars, UNCHANGED control
  PROVE  ControlInv'
<1>1. launches \in 0..MaxLaunches /\ MaxLaunches \in Nat
  BY ProcessAssumption DEF ProcessInv, TypeOK
<1>2. (launches' = launches /\ (Alive' => Alive)) \/ launches' = launches + 1
  <2>1. CASE Launch
    BY <2>1 DEF Launch
  <2>2. CASE Terminate
    BY <2>2 DEF Terminate, Exit, Alive
  <2>3. CASE Listener
    BY <2>3 DEF Listener, Listens, RejectsSettings, CannotListen, ListenFails, ListenerGoes,
       Goes, Alive
  <2>4. CASE Command
    BY <2>4 DEF Command, ServeReturns, HelpReturns, CommandReturns, ShutsDown, Goes, Alive
  <2>5. CASE Watcher
    BY <2>5 DEF Watcher, WatchShutdown, WatcherWakes, Goes, Alive
  <2>6. CASE Main
    BY <2>6 DEF Main, ServerIsUp, ServerIsDown, StartHook, StartFails, StartExpires, Started,
       RunStops, ServiceStops, StopHook, StopExpires, StopReturns, Goes, Exit, Alive
  <2>7. CASE UNCHANGED vars
    BY <2>7 DEF vars, Alive
  <2>. QED  BY <2>1, <2>2, <2>3, <2>4, <2>5, <2>6, <2>7 DEF Next, Steps
<1>3. call.since \in Int
  BY DEF ControlInv, ControlTypeOK, Calls
<1>4. ControlTypeOK' /\ UninstallFindsStopped' /\ NoOrphan'
  BY DEF control, unit, ControlInv, ControlTypeOK, UninstallFindsStopped, NoOrphan
<1>5. CallIsInMethod'
  BY <1>1, <1>2, <1>3 DEF control, ControlInv, CallIsInMethod
<1>6. RestartFindsNew'
  BY <1>1, <1>2, <1>3 DEF control, unit, ControlInv, CallIsInMethod, RestartFindsNew
<1>. QED  BY <1>4, <1>5, <1>6 DEF ControlInv

\* What a status that a method accepts says of the unit.
LEMMA ReachedIsTrue ==
  ASSUME NEW status \in Status, status # "error", NEW doing \in Ops, Reached(doing, status),
         doing # "restart"
  PROVE  /\ doing = "install" => installed \/ wanted
         /\ doing = "uninstall" => ~installed /\ ~wanted
         /\ doing = "start" => wanted
         /\ doing = "stop" => ~wanted
<1>1. CASE wanted
  <2>1. status = "running"
    BY <1>1 DEF Status
  <2>. QED  BY <1>1, <2>1 DEF Reached, Ops
<1>2. CASE ~wanted /\ ~installed
  <2>1. status = "absent"
    BY <1>2 DEF Status
  <2>. QED  BY <1>2, <2>1 DEF Reached, Ops
<1>3. CASE ~wanted /\ installed
  <2>1. status \in {"stopped", "unknown"}
    BY <1>3 DEF Status
  <2>. QED  BY <1>3, <2>1 DEF Reached, Ops
<1>. QED  BY <1>1, <1>2, <1>3

\* A command goes on or returns.  What it returns, and what the next method finds, depends
\* on the unit as the method has left it.
Promised(doing) ==
  /\ doing = "install" => installed' \/ wanted'
  /\ doing = "uninstall" => ~installed'
  /\ doing = "start" => wanted'
  /\ doing = "stop" => ~wanted'

\* The part of a step that a command takes which the unit decides.
UnitStep ==
  /\ installed' \in BOOLEAN /\ wanted' \in BOOLEAN
  /\ launches' \in 0..MaxLaunches /\ launches <= launches'
  /\ NoOrphan'
  /\ UNCHANGED <<commands, rival>>

LEMMA SucceedStep ==
  ASSUME ControlInv, launches \in Int, call.at \notin {"idle", "ok"}, Succeed,
         Promised(call.doing), UnitStep
  PROVE  ControlInv'
<1>. DEFINE next == [call EXCEPT !.doing = "start", !.at = "check"]
            last == [call EXCEPT !.doing = "uninstall", !.at = "act"]
            done == [NoCall EXCEPT !.at = "ok"]
<1>1. /\ call \in Calls /\ call.since \in 0..MaxLaunches
      /\ call.since <= launches' /\ MaxLaunches \in Nat
  BY ProcessAssumption DEF ControlInv, ControlTypeOK, Calls, CallIsInMethod, UnitStep
<1>2. \/ call.op = "restart" /\ call.doing = "stop" /\ call' = next
      \/ call.op = "uninstall" /\ call.doing = "stop" /\ call' = last
      \/ call' = done
  BY DEF Succeed, Return
<1>3. call' \in Calls
  <2>1. next \in Calls /\ last \in Calls
    BY <1>1 DEF Calls, Ops
  <2>2. done \in Calls
    BY <1>1 DEF Calls, Ops, NoCall
  <2>. QED  BY <1>2, <2>1, <2>2
<1>4. ControlTypeOK'
  BY <1>3 DEF ControlInv, ControlTypeOK, UnitStep
<1>5. CallIsInMethod' /\ UninstallFindsStopped' /\ RestartFindsNew'
  <2>1. CASE call.op = "restart" /\ call.doing = "stop" /\ call' = next
    <3>1. /\ call'.op = "restart" /\ call'.doing = "start" /\ call'.at = "check"
          /\ call'.since = call.since
      BY <1>1, <2>1 DEF Calls
    <3>. QED
      BY <1>1, <2>1, <3>1 DEF CallIsInMethod, UninstallFindsStopped, RestartFindsNew, Promised
  <2>2. CASE call.op = "uninstall" /\ call.doing = "stop" /\ call' = last
    <3>1. /\ call'.op = "uninstall" /\ call'.doing = "uninstall" /\ call'.at = "act"
          /\ call'.since = call.since
      BY <1>1, <2>2 DEF Calls
    <3>. QED
      BY <1>1, <2>2, <3>1 DEF CallIsInMethod, UninstallFindsStopped, RestartFindsNew, Promised
  <2>3. CASE call' = done
    BY <1>1, <2>3, UnitStep DEF UnitStep, CallIsInMethod, UninstallFindsStopped,
       RestartFindsNew, NoCall
  <2>. QED  BY <1>2, <2>1, <2>2, <2>3
<1>. QED  BY <1>4, <1>5 DEF ControlInv, UnitStep

\* A command that fails is over.
LEMMA FailStep ==
  ASSUME ControlInv, Return("idle"), UnitStep
  PROVE  ControlInv'
<1>1. call' = [op |-> "none", doing |-> "none", at |-> "idle", since |-> 0]
  BY DEF Return, NoCall
<1>2. MaxLaunches \in Nat
  BY ProcessAssumption
<1>3. ControlTypeOK'
  BY <1>1, <1>2 DEF ControlInv, ControlTypeOK, UnitStep, Calls, Ops
<1>4. CallIsInMethod' /\ UninstallFindsStopped' /\ RestartFindsNew'
  BY <1>1, <1>2 DEF UnitStep, CallIsInMethod, UninstallFindsStopped, RestartFindsNew, NoCall
<1>. QED  BY <1>3, <1>4 DEF ControlInv, UnitStep

\* A command that goes on in its method, or from uninstall to stop.
LEMMA GoOnStep ==
  ASSUME ControlInv, launches \in Int, UnitStep, call.at \notin {"idle", "ok"},
         NEW at \in {"check", "act", "wait", "recheck"},
         NEW doing \in {call.doing, "stop"},
         call' = [call EXCEPT !.at = at, !.doing = doing],
         doing # call.doing => call.op = "uninstall",
         at = "wait" => doing = "stop",
         at = "act" /\ doing = "uninstall" /\ ~rival => ~wanted',
         RestartFindsNew'
  PROVE  ControlInv'
<1>1. /\ call \in Calls /\ call.since \in 0..MaxLaunches
      /\ call.since <= launches' /\ MaxLaunches \in Nat
  BY ProcessAssumption DEF ControlInv, ControlTypeOK, Calls, CallIsInMethod, UnitStep
<1>2. /\ call'.op = call.op /\ call'.doing = doing /\ call'.at = at
      /\ call'.since = call.since /\ call' \in Calls
  BY <1>1 DEF Calls, Ops
<1>3. ControlTypeOK'
  BY <1>2 DEF ControlInv, ControlTypeOK, UnitStep
<1>4. CallIsInMethod'
  BY <1>1, <1>2 DEF ControlInv, CallIsInMethod
<1>5. UninstallFindsStopped'
  BY <1>2 DEF UninstallFindsStopped, UnitStep
<1>. QED  BY <1>3, <1>4, <1>5 DEF ControlInv, UnitStep

LEMMA BeginStep ==
  ASSUME ProcessInv, ControlInv, NEW op \in Ops, Begin(op)
  PROVE  ControlInv'
<1>1. launches \in 0..MaxLaunches /\ MaxLaunches \in Nat /\ launches' = launches
  BY ProcessAssumption DEF ProcessInv, TypeOK, Begin, vars
<1>2. call' = [op |-> op, at |-> "check", since |-> launches,
               doing |-> IF op = "restart" THEN "stop" ELSE op]
  BY DEF Begin
<1>3. ControlTypeOK'
  BY <1>1, <1>2, ControlAssumption DEF Begin, unit, ControlInv, ControlTypeOK, Calls, Ops
<1>4. CallIsInMethod'
  BY <1>1, <1>2 DEF CallIsInMethod, Ops
<1>5. UninstallFindsStopped' /\ RestartFindsNew'
  BY <1>2 DEF UninstallFindsStopped, RestartFindsNew, Ops
<1>. QED  BY <1>3, <1>4, <1>5 DEF Begin, unit, ControlInv, NoOrphan

\* A step of a command that leaves the unit and the process alone.
LEMMA QuietStep ==
  ASSUME ProcessInv, ControlInv, UNCHANGED <<vars, unit, commands, rival>>
  PROVE  /\ UnitStep /\ launches \in Int /\ wanted' = wanted /\ installed' = installed
         /\ call'.op = call.op /\ call'.doing = call.doing /\ call'.since = call.since
              => RestartFindsNew'
<1>1. launches \in 0..MaxLaunches /\ MaxLaunches \in Nat /\ launches' = launches
  BY ProcessAssumption DEF ProcessInv, TypeOK, vars
<1>2. UnitStep
  BY <1>1 DEF UnitStep, unit, ControlInv, ControlTypeOK, NoOrphan
<1>. QED  BY <1>1, <1>2 DEF unit, vars, Alive, ControlInv, RestartFindsNew

\* The method that a command is in is one that acts on the unit.
LEMMA MethodIsOp ==
  ASSUME ControlInv, call.at \notin {"idle", "ok"}
  PROVE  call.doing \in Ops /\ call.doing # "restart"
  BY DEF ControlInv, CallIsInMethod, Ops

\* A status that a method accepts keeps the promise of the method.
LEMMA ReachedKeepsPromise ==
  ASSUME ProcessInv, ControlInv, UNCHANGED <<vars, unit, commands, rival>>,
         call.at \notin {"idle", "ok"},
         NEW status \in Status, status # "error", Reached(call.doing, status)
  PROVE  Promised(call.doing)
<1>1. wanted' = wanted /\ installed' = installed
  BY QuietStep
<1>2. call.doing \in Ops /\ call.doing # "restart"
  BY MethodIsOp
<1>. QED  BY <1>1, <1>2, ReachedIsTrue DEF Promised

LEMMA CheckStep ==
  ASSUME ProcessInv, ControlInv, Check
  PROVE  ControlInv'
<1>1. UNCHANGED <<vars, unit, commands, rival>> /\ call.at = "check"
  BY DEF Check
<1>2. PICK status \in Status :
        IF status = "error" THEN Return("idle")
        ELSE IF Reached(call.doing, status) THEN Succeed
        ELSE IF call.doing = "start" /\ status = "absent" THEN Return("idle")
        ELSE IF call.doing = "uninstall" /\ status = "running"
             THEN call' = [call EXCEPT !.doing = "stop"]
             ELSE Goto("act")
  BY DEF Check
<1>3. UnitStep /\ launches \in Int /\ wanted' = wanted /\ call \in Calls
  BY <1>1, QuietStep DEF ControlInv, ControlTypeOK
<1>4. CASE Return("idle")
  BY <1>3, <1>4, FailStep
<1>5. CASE status # "error" /\ Reached(call.doing, status) /\ Succeed
  <2>1. Promised(call.doing)
    BY <1>1, <1>5, ReachedKeepsPromise
  <2>. QED  BY <1>1, <1>3, <1>5, <2>1, SucceedStep
<1>6. CASE call.doing = "uninstall" /\ call' = [call EXCEPT !.doing = "stop"]
  <2>1. call' = [call EXCEPT !.at = "check", !.doing = "stop"] /\ call'.doing = "stop"
    BY <1>1, <1>3, <1>6 DEF Calls
  <2>2. call.op = "uninstall" /\ RestartFindsNew'
    BY <1>1, <1>6, <2>1 DEF ControlInv, CallIsInMethod, RestartFindsNew
  <2>. QED  BY <1>1, <1>3, <2>1, <2>2, GoOnStep
<1>7. CASE Goto("act") /\ (call.doing = "uninstall" => status # "running" /\ status # "error")
  <2>1. /\ call' = [call EXCEPT !.at = "act", !.doing = call.doing]
        /\ call'.op = call.op /\ call'.doing = call.doing /\ call'.since = call.since
    BY <1>3, <1>7 DEF Goto, Calls
  <2>2. RestartFindsNew'
    BY <1>1, <2>1, QuietStep
  <2>3. call.doing = "uninstall" => ~wanted
    BY <1>7 DEF Status
  <2>. QED  BY <1>1, <1>3, <2>1, <2>2, <2>3, GoOnStep
<1>. QED  BY <1>2, <1>4, <1>5, <1>6, <1>7

LEMMA WaitStep ==
  ASSUME ProcessInv, ControlInv, Wait
  PROVE  ControlInv'
<1>1. UNCHANGED <<vars, unit, commands, rival>> /\ call.at = "wait" /\ call.doing = "stop"
  BY DEF Wait, ControlInv, CallIsInMethod
<1>2. UnitStep /\ launches \in Int /\ wanted' = wanted /\ call \in Calls
  BY <1>1, QuietStep DEF ControlInv, ControlTypeOK
<1>3. CASE Alive \/ wanted
  <2>1. /\ call' = [call EXCEPT !.at = "recheck", !.doing = call.doing]
        /\ call'.op = call.op /\ call'.doing = call.doing /\ call'.since = call.since
    BY <1>2, <1>3 DEF Wait, Goto, Calls
  <2>2. RestartFindsNew'
    BY <1>1, <2>1, QuietStep
  <2>. QED  BY <1>1, <1>2, <2>1, <2>2, GoOnStep
<1>4. CASE ~(Alive \/ wanted)
  <2>1. Succeed /\ Promised(call.doing)
    BY <1>1, <1>2, <1>4 DEF Wait, Promised
  <2>. QED  BY <1>1, <1>2, <2>1, SucceedStep
<1>. QED  BY <1>3, <1>4

LEMMA RecheckStep ==
  ASSUME ProcessInv, ControlInv, Recheck
  PROVE  ControlInv'
<1>1. UNCHANGED <<vars, unit, commands, rival>> /\ call.at = "recheck"
  BY DEF Recheck
<1>2. PICK status \in Status :
        IF status # "error" /\ Reached(call.doing, status) THEN Succeed ELSE Return("idle")
  BY DEF Recheck
<1>3. UnitStep /\ launches \in Int
  BY <1>1, QuietStep
<1>4. CASE Return("idle")
  BY <1>3, <1>4, FailStep
<1>5. CASE status # "error" /\ Reached(call.doing, status) /\ Succeed
  <2>1. Promised(call.doing)
    BY <1>1, <1>5, ReachedKeepsPromise
  <2>. QED  BY <1>1, <1>3, <1>5, <2>1, SucceedStep
<1>. QED  BY <1>2, <1>4, <1>5

\* The command of the manager, by what it does to the unit.
LEMMA ActStep ==
  ASSUME ProcessInv, ControlInv, Act
  PROVE  ControlInv'
<1>1. /\ launches \in 0..MaxLaunches /\ MaxLaunches \in Nat /\ call \in Calls
      /\ call.at = "act" /\ UNCHANGED <<commands, rival>>
      /\ installed \in BOOLEAN /\ wanted \in BOOLEAN
  BY ProcessAssumption DEF Act, ProcessInv, TypeOK, ControlInv, ControlTypeOK
<1>2. CASE /\ call.doing = "install" /\ ~installed
           /\ installed' = TRUE /\ UNCHANGED <<vars, wanted>> /\ Succeed
  <2>1. UnitStep /\ Promised(call.doing)
    BY <1>1, <1>2 DEF UnitStep, Promised, vars, NoOrphan
  <2>. QED  BY <1>1, <1>2, <2>1, SucceedStep
<1>3. CASE /\ call.doing = "uninstall" /\ installed
           /\ installed' = FALSE /\ UNCHANGED <<vars, wanted>> /\ Succeed
  <2>1. ~installed' /\ installed' \in BOOLEAN /\ wanted' = wanted /\ launches' = launches
    BY <1>3 DEF vars
  <2>2. ~rival' => ~wanted'
    BY <1>1, <1>3, <2>1 DEF ControlInv, UninstallFindsStopped
  <2>3. UnitStep /\ Promised(call.doing)
    BY <1>1, <1>3, <2>1, <2>2 DEF UnitStep, Promised, NoOrphan
  <2>. QED  BY <1>1, <1>3, <2>3, SucceedStep
<1>4. CASE /\ call.doing = "start" /\ installed
           /\ wanted' = TRUE /\ UNCHANGED installed
           /\ IF wanted THEN UNCHANGED vars ELSE Launch
           /\ Succeed
  <2>1. launches' \in 0..MaxLaunches /\ launches <= launches'
    BY <1>1, <1>4 DEF vars, Launch
  <2>2. UnitStep /\ Promised(call.doing)
    BY <1>1, <1>4, <2>1 DEF UnitStep, Promised, NoOrphan
  <2>. QED  BY <1>1, <1>4, <2>2, SucceedStep
<1>5. CASE /\ call.doing = "stop"
           /\ wanted' = FALSE /\ UNCHANGED installed
           /\ IF Alive /\ ~sigterm THEN Terminate ELSE UNCHANGED vars
           /\ Goto("wait")
  <2>1. launches' = launches
    BY <1>5 DEF vars, Terminate, Exit
  <2>4. ~wanted' /\ wanted' \in BOOLEAN
    BY <1>5
  <2>2. UnitStep /\ RestartFindsNew'
    BY <1>1, <1>5, <2>1, <2>4 DEF UnitStep, NoOrphan, RestartFindsNew
  <2>3. call' = [call EXCEPT !.at = "wait", !.doing = call.doing]
    BY <1>1, <1>5 DEF Goto, Calls
  <2>. QED  BY <1>1, <1>5, <2>2, <2>3, GoOnStep
<1>6. CASE UNCHANGED <<vars, unit>> /\ Goto("recheck")
  <2>1. /\ call' = [call EXCEPT !.at = "recheck", !.doing = call.doing]
        /\ call'.op = call.op /\ call'.doing = call.doing /\ call'.since = call.since
    BY <1>1, <1>6 DEF Goto, Calls
  <2>2. UnitStep /\ launches \in Int /\ RestartFindsNew'
    BY <1>1, <1>6, <2>1, QuietStep
  <2>. QED  BY <1>1, <2>1, <2>2, GoOnStep
<1>. QED  BY <1>2, <1>3, <1>4, <1>5, <1>6 DEF Act

LEMMA RivalStep ==
  ASSUME ProcessInv, ControlInv, Rival
  PROVE  ControlInv'
<1>1. /\ launches \in 0..MaxLaunches /\ MaxLaunches \in Nat
      /\ call \in Calls /\ call.since \in 0..MaxLaunches /\ call.since <= launches
      /\ call' = call /\ commands' = commands /\ rival' = TRUE
      /\ installed \in BOOLEAN /\ wanted \in BOOLEAN
  BY ProcessAssumption DEF Rival, ProcessInv, TypeOK, ControlInv, ControlTypeOK, Calls,
     CallIsInMethod
<1>2. /\ installed' \in BOOLEAN /\ wanted' \in BOOLEAN
      /\ \/ UNCHANGED <<vars, wanted>>
         \/ Launch
         \/ wanted' = FALSE /\ (Terminate \/ UNCHANGED vars)
  BY <1>1 DEF Rival
<1>3. \/ launches' = launches /\ (Alive' <=> Alive) /\ (wanted' <=> wanted)
      \/ launches' = launches + 1
      \/ launches' = launches /\ ~wanted'
  BY <1>2 DEF vars, Launch, Terminate, Exit, Alive
<1>4. ControlTypeOK' /\ UninstallFindsStopped' /\ NoOrphan'
  BY <1>1, <1>2 DEF ControlInv, ControlTypeOK, UninstallFindsStopped, NoOrphan
<1>5. CallIsInMethod'
  BY <1>1, <1>3 DEF ControlInv, CallIsInMethod
<1>6. RestartFindsNew'
  BY <1>1, <1>3 DEF ControlInv, RestartFindsNew
<1>. QED  BY <1>4, <1>5, <1>6 DEF ControlInv

LEMMA ControlInvStep ==
  ASSUME ProcessInv, ControlInv, [SystemNext]_systemVars
  PROVE  ControlInv'
<1>1. [Next]_vars
  BY StepIsProcessStep
<1>2. CASE UNCHANGED control
  BY <1>1, <1>2, ProcessKeepsControl
<1>3. CASE Operator
  BY <1>3, BeginStep, CheckStep, ActStep, WaitStep, RecheckStep DEF Operator
<1>4. CASE Rival
  BY <1>4, RivalStep
<1>. QED  BY <1>2, <1>3, <1>4 DEF SystemNext, Relaunch, systemVars

LEMMA SystemIsSafe == SystemSpec => [](ProcessInv /\ ControlInv)
<1>1. ProcessInv /\ ControlInv /\ [SystemNext]_systemVars => ControlInv'
  BY ControlInvStep
<1>. QED  BY <1>1, ControlInvInit, SystemProcessInv, PTL DEF SystemSpec

-----------------------------------------------------------------------------
(* Theorems about the commands.                                            *)

THEOREM SystemTypeCorrect == SystemSpec => []SystemTypeOK
<1>1. ProcessInv /\ ControlInv => SystemTypeOK
  BY DEF ProcessInv, ControlInv, ControlTypeOK, SystemTypeOK
<1>. QED  BY <1>1, SystemIsSafe, PTL

\* Unless a rival acts, what the manager keeps running has its unit file.
THEOREM UninstallLeavesNoOrphan == SystemSpec => []NoOrphan
<1>1. ProcessInv /\ ControlInv => NoOrphan
  BY DEF ControlInv
<1>. QED  BY <1>1, SystemIsSafe, PTL

\* A command returns where its last method succeeds, and the method keeps its promise.
LEMMA ReturnKeepsPromise ==
  ASSUME ProcessInv, ControlInv, [SystemNext]_systemVars, call.at # "ok", call'.at = "ok"
  PROVE  /\ call.at \notin {"idle", "ok"} /\ Succeed /\ Promised(call.doing)
         /\ call.op = "restart" => call.doing = "start"
         /\ call.op = "uninstall" => call.doing = "uninstall"
<1>1. call \in Calls
  BY DEF ControlInv, ControlTypeOK
<1>2. Operator
  BY DEF SystemNext, Relaunch, Rival, systemVars, control
<1>3. ~Goto("act") /\ ~Goto("wait") /\ ~Goto("recheck") /\ ~Return("idle")
  BY <1>1 DEF Goto, Return, NoCall, Calls
<1>4. call' # [call EXCEPT !.doing = "stop"]
  BY <1>1 DEF Calls
<1>5. \A op \in Ops : ~Begin(op)
  BY DEF Begin
<1>6. call.at \notin {"idle", "ok"} /\ Succeed /\ Promised(call.doing)
  <2>1. CASE Check
    <3>1. PICK status \in Status :
            status # "error" /\ Reached(call.doing, status) /\ Succeed
      BY <2>1, <1>3, <1>4 DEF Check
    <3>2. UNCHANGED <<vars, unit, commands, rival>> /\ call.at \notin {"idle", "ok"}
      BY <2>1 DEF Check
    <3>. QED  BY <3>1, <3>2, ReachedKeepsPromise
  <2>2. CASE Act
    BY <2>2, <1>3 DEF Act, Promised
  <2>3. CASE Wait
    <3>1. Succeed /\ ~wanted' /\ call.doing = "stop" /\ call.at = "wait"
      BY <2>3, <1>3 DEF Wait, unit, ControlInv, CallIsInMethod
    <3>. QED  BY <3>1 DEF Promised
  <2>4. CASE Recheck
    <3>1. PICK status \in Status :
            status # "error" /\ Reached(call.doing, status) /\ Succeed
      BY <2>4, <1>3 DEF Recheck
    <3>2. UNCHANGED <<vars, unit, commands, rival>> /\ call.at \notin {"idle", "ok"}
      BY <2>4 DEF Recheck
    <3>. QED  BY <3>1, <3>2, ReachedKeepsPromise
  <2>. QED  BY <1>2, <1>5, <2>1, <2>2, <2>3, <2>4 DEF Operator
<1>7. /\ call.op = "restart" => call.doing = "start"
      /\ call.op = "uninstall" => call.doing = "uninstall"
  BY <1>1, <1>6 DEF Succeed, Calls, ControlInv, CallIsInMethod
<1>. QED  BY <1>6, <1>7

LEMMA SuccessStep ==
  ASSUME ProcessInv, ControlInv, [SystemNext]_systemVars
  PROVE  /\ Returns("install") => installed' \/ wanted'
         /\ Returns("uninstall") => ~installed'
         /\ Returns("start") => wanted'
         /\ Returns("stop") => ~wanted'
<1>. SUFFICES ASSUME NEW op \in Ops, Returns(op), op # "restart"
              PROVE  call.doing = op /\ Promised(op)
  BY DEF Promised, Ops
<1>1. call.op = op /\ call.at # "ok" /\ call'.at = "ok"
  BY DEF Returns
<1>2. /\ call.at \notin {"idle", "ok"} /\ Promised(call.doing)
      /\ call.op = "uninstall" => call.doing = "uninstall"
  BY <1>1, ReturnKeepsPromise
<1>3. call.doing = op
  BY <1>1, <1>2 DEF ControlInv, CallIsInMethod, Ops
<1>. QED  BY <1>2, <1>3

\* Whatever the manager answers and whoever interferes, a command that reports success
\* leaves the unit as it promises.
THEOREM CommandsTellTheTruth == SystemSpec => SuccessIsTrue
<1>. DEFINE Right == /\ Returns("install") => installed' \/ wanted'
                     /\ Returns("uninstall") => ~installed'
                     /\ Returns("start") => wanted'
                     /\ Returns("stop") => ~wanted'
<1>1. ProcessInv /\ ControlInv /\ [SystemNext]_systemVars => [Right]_systemVars
  BY SuccessStep
<1>2. SystemSpec => [][Right]_systemVars
  BY <1>1, SystemIsSafe, PTL DEF SystemSpec
<1>. QED  BY <1>2, PTL DEF SuccessIsTrue

LEMMA RestartStep ==
  ASSUME ProcessInv, ControlInv, [SystemNext]_systemVars, Returns("restart")
  PROVE  wanted' /\ (Alive' => launches' > call.since)
<1>1. call.op = "restart" /\ call.at # "ok" /\ call'.at = "ok"
  BY DEF Returns
<1>2. /\ call.at \notin {"idle", "ok"} /\ Promised(call.doing) /\ call.doing = "start"
  BY <1>1, ReturnKeepsPromise
<1>3. wanted' /\ launches \in Int /\ call.since \in Int /\ call.since <= launches
  BY <1>2 DEF Promised, ProcessInv, TypeOK, ControlInv, ControlTypeOK, CallIsInMethod, Calls
<1>4. Operator
  BY <1>1 DEF SystemNext, Relaunch, Rival, systemVars, control
<1>5. UNCHANGED <<vars, unit>> \/ Launch \/ (wanted /\ UNCHANGED vars)
  BY <1>2, <1>3, <1>4 DEF Operator, Begin, Check, Act, Wait, Recheck
<1>6. CASE Launch
  BY <1>3, <1>6 DEF Launch
<1>7. CASE wanted /\ UNCHANGED vars
  BY <1>1, <1>2, <1>3, <1>7 DEF vars, Alive, ControlInv, RestartFindsNew
<1>8. CASE UNCHANGED <<vars, unit>>
  BY <1>1, <1>2, <1>3, <1>8 DEF vars, unit, Alive, ControlInv, RestartFindsNew
<1>. QED  BY <1>3, <1>5, <1>6, <1>7, <1>8

\* A restart that reports success has not left the old process running.
THEOREM RestartIsReal == SystemSpec => RestartReplaces
<1>. DEFINE Right == Returns("restart") => wanted' /\ (Alive' => launches' > call.since)
<1>1. ProcessInv /\ ControlInv /\ [SystemNext]_systemVars => [Right]_systemVars
  BY RestartStep
<1>2. SystemSpec => [][Right]_systemVars
  BY <1>1, SystemIsSafe, PTL DEF SystemSpec
<1>. QED  BY <1>2, PTL DEF RestartReplaces
=============================================================================
