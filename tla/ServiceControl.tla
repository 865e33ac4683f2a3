--------------------------- MODULE ServiceControl ---------------------------
(***************************************************************************)
(* The service commands (systemServiceController of                        *)
(* cmd/service_controller.go) over the service manager, and the process of *)
(* AppProcess that the manager launches and stops.  An operator gives one  *)
(* command after the other, while the process goes its own way and a rival *)
(* (another operator, or the manager's own tools) commands the unit.  A    *)
(* status query and a command of the manager are one step each; stopping   *)
(* waits for the process.                                                  *)
(*                                                                         *)
(* The manager is external: it launches the process of a unit that is      *)
(* wanted, again whenever it has ended, and refuses or fails a command.    *)
(***************************************************************************)
EXTENDS AppProcess

CONSTANT MaxCommands \* bound on the commands of the operator; the rival gives one

ASSUME ControlAssumption == MaxCommands \in Nat

VARIABLES
  installed, wanted, \* the unit: its file exists, it is to run
  call,              \* the command of the operator
  commands,          \* how many it has given
  rival              \* the rival has given its command

unit == <<installed, wanted>>
control == <<unit, call, commands, rival>>
systemVars == <<vars, control>>

Ops == {"install", "uninstall", "start", "stop", "restart"}
Calls ==
  [op     : Ops \cup {"none"},
   doing  : Ops \cup {"none"},  \* the method it is in: uninstall and restart call others
   at     : {"idle", "check", "act", "wait", "recheck",
            "ok"},           \* idle, after a command that has reported success
   since  : 0..MaxLaunches]     \* how many processes there were when it began
NoCall == [op |-> "none", doing |-> "none", at |-> "idle", since |-> 0]

SystemTypeOK ==
  /\ TypeOK
  /\ installed \in BOOLEAN /\ wanted \in BOOLEAN /\ rival \in BOOLEAN
  /\ call \in Calls /\ commands \in 0..MaxCommands

SystemInit ==
  /\ Init
  /\ installed \in BOOLEAN /\ wanted \in {FALSE, installed /\ mode = "service"}
  /\ call = NoCall /\ commands = 0 /\ rival = FALSE

-----------------------------------------------------------------------------
(* The manager.                                                            *)

\* What a status query may say; status() passes ErrNotInstalled on as "absent".  A
\* process that is about to end counts as stopped or as neither: that the library says
\* "not installed" of such a unit, as it may under systemd, is left out.
Status ==
  {"error"} \cup (IF wanted THEN {"running"}
                 ELSE IF ~installed THEN {"absent"}
                 ELSE IF Alive THEN {"stopped", "unknown"} ELSE {"stopped"})

Relaunch == wanted /\ Launch /\ UNCHANGED control

-----------------------------------------------------------------------------
(* The operator.                                                           *)

Goto(place) == call' = [call EXCEPT !.at = place]
Return(result) == call' = [NoCall EXCEPT !.at = result]

\* Mutant: a restart is a start.
BeginWithoutStop(op) ==
  /\ call.at \in {"idle", "ok"} /\ commands < MaxCommands
  /\ commands' = commands + 1
  /\ call' = [op |-> op, at |-> "check", since |-> launches,
              doing |-> IF op = "restart" THEN "start" ELSE op]
  /\ UNCHANGED <<vars, unit, rival>>

Begin(op) ==
  /\ call.at \in {"idle", "ok"} /\ commands < MaxCommands
  /\ commands' = commands + 1
  /\ call' = [op |-> op, at |-> "check", since |-> launches,
              doing |-> IF op = "restart" THEN "stop" ELSE op]
  /\ UNCHANGED <<vars, unit, rival>>

\* The method that it is in succeeds.
Succeed ==
  CASE call.op = "restart" /\ call.doing = "stop" ->
         call' = [call EXCEPT !.doing = "start", !.at = "check"]
    [] call.op = "uninstall" /\ call.doing = "stop" ->
         call' = [call EXCEPT !.doing = "uninstall", !.at = "act"]
    [] OTHER -> Return("ok")

\* The state that the method is to reach, as a status tells it.
Reached(doing, status) ==
  CASE doing = "install"   -> status # "absent"
    [] doing = "uninstall" -> status = "absent"
    [] doing = "start"     -> status = "running"
    [] doing = "stop"      -> status \in {"absent", "stopped"}

\* Mutant: uninstall leaves the service running.
CheckWithoutStop ==
  /\ call.at = "check"
  /\ \E status \in Status :
       IF status = "error" THEN Return("idle")
       ELSE IF Reached(call.doing, status) THEN Succeed
       ELSE IF call.doing = "start" /\ status = "absent" THEN Return("idle")
       ELSE Goto("act")
  /\ UNCHANGED <<vars, unit, commands, rival>>

Check ==
  /\ call.at = "check"
  /\ \E status \in Status :
       IF status = "error" THEN Return("idle")
       ELSE IF Reached(call.doing, status) THEN Succeed
       ELSE IF call.doing = "start" /\ status = "absent" THEN Return("idle")
       ELSE IF call.doing = "uninstall" /\ status = "running"
            THEN call' = [call EXCEPT !.doing = "stop"]
            ELSE Goto("act")
  /\ UNCHANGED <<vars, unit, commands, rival>>

\* The command of the manager.  The unit file of a running service can be removed.
Act ==
  /\ call.at = "act"
  /\ \/ /\ call.doing = "install" /\ ~installed
        /\ installed' = TRUE /\ UNCHANGED <<vars, wanted>> /\ Succeed
     \/ /\ call.doing = "uninstall" /\ installed
        /\ installed' = FALSE /\ UNCHANGED <<vars, wanted>> /\ Succeed
     \/ /\ call.doing = "start" /\ installed
        /\ wanted' = TRUE /\ UNCHANGED installed
        /\ IF wanted THEN UNCHANGED vars ELSE Launch
        /\ Succeed
     \/ /\ call.doing = "stop"
        /\ wanted' = FALSE /\ UNCHANGED installed
        /\ IF Alive /\ ~sigterm THEN Terminate ELSE UNCHANGED vars
        /\ Goto("wait")
     \/ UNCHANGED <<vars, unit>> /\ Goto("recheck")
  /\ UNCHANGED <<commands, rival>>

\* The manager's stop returns when the process is gone, or gives up waiting.
Wait ==
  /\ call.at = "wait"
  /\ IF Alive \/ wanted THEN Goto("recheck") ELSE Succeed
  /\ UNCHANGED <<vars, unit, commands, rival>>

\* Mutant: any status will do.
RecheckPasses ==
  /\ call.at = "recheck"
  /\ \E status \in Status : IF status # "error" THEN Succeed ELSE Return("idle")
  /\ UNCHANGED <<vars, unit, commands, rival>>

\* After an error of the manager: the status may be the right one all the same.
Recheck ==
  /\ call.at = "recheck"
  /\ \E status \in Status :
       IF status # "error" /\ Reached(call.doing, status)
       THEN Succeed ELSE Return("idle")
  /\ UNCHANGED <<vars, unit, commands, rival>>

Operator ==
  (\E op \in Ops : Begin(op)) \/ Check \/ Act \/ Wait \/ Recheck

\* One command of somebody else to the manager, without waiting for the process.
Rival ==
  /\ ~rival /\ rival' = TRUE
  /\ \/ installed' \in BOOLEAN /\ UNCHANGED <<vars, wanted>>
     \/ installed /\ ~wanted /\ Launch /\ wanted' = TRUE /\ UNCHANGED installed
     \/ wanted /\ wanted' = FALSE /\ UNCHANGED installed
        /\ IF Alive /\ ~sigterm THEN Terminate ELSE UNCHANGED vars
  /\ UNCHANGED <<call, commands>>

-----------------------------------------------------------------------------
SystemNext ==
  \/ Steps /\ UNCHANGED control
  \/ mode = "run" /\ Terminate /\ UNCHANGED control
  \/ mode = "service" /\ (Relaunch \/ Operator \/ Rival)

SystemSpec ==
  /\ SystemInit /\ [][SystemNext]_systemVars
  /\ WF_systemVars(Main /\ UNCHANGED control) /\ WF_systemVars(Watcher /\ UNCHANGED control)
  /\ WF_systemVars(Command /\ UNCHANGED control)
  /\ WF_systemVars(Listener /\ server # "serving" /\ UNCHANGED control)

-----------------------------------------------------------------------------
(* Properties.                                                             *)

Returns(op) == call.op = op /\ call.at # "ok" /\ call'.at = "ok"

\* A command that reports success leaves the unit as it promises, whatever others do
\* meanwhile and wherever an error was passed over (the second status() of each method).
SuccessIsTrue ==
  [][/\ Returns("install") => installed' \/ wanted'
     /\ Returns("uninstall") => ~installed'
     /\ Returns("start") => wanted'
     /\ Returns("stop") => ~wanted']_systemVars

\* A restart that reports success has replaced the process (Restart: Stop, then Start).
RestartReplaces ==
  [][Returns("restart") => wanted' /\ (Alive' => launches' > call.since)]_systemVars

\* Unless a rival acts, the manager never keeps a process running whose unit file is
\* gone (Uninstall stops a running service first).
NoOrphan == ~rival /\ wanted => installed
=============================================================================
