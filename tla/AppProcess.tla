----------------------------- MODULE AppProcess -----------------------------
(***************************************************************************)
(* One process of an application: App.Run chooses between di.Run and the   *)
(* service host; fx.New waits for the web server, app.Start runs the       *)
(* hooks of lc, the last starter runs the command of the command line, and *)
(* the process ends when a signal or the end of the command stops the app. *)
(*                                                                         *)
(* Threads: the main goroutine, watchShutdown of the service host, the     *)
(* goroutine of Root.Start and the one that listens.  fx (hooks in order,  *)
(* roll back, stop in reverse, one buffered signal), the service manager   *)
(* and the operating system are external.  Run also waits for a restart    *)
(* signal; its type is private to di and nothing sends one, so the branch  *)
(* that rebuilds the app has no action here.                               *)
(***************************************************************************)
EXTENDS Integers, Sequences, FiniteSets

CONSTANTS
  Starters, Stoppers, \* sequences of components in the order of their group
  Earlier, Later,     \* hooks appended to fx past lc: before those of lc, by an Invoke in
                      \* a module, or behind them, like that of the MQTT broker
  Commands,           \* commands of the command line
  MaxLaunches         \* bound on the processes the service manager launches

\* The names that this module knows, and PriorityLevel.
Root == "root"
Web == "web"
Background == "background"
Latest == 10000

Component == [name : STRING, priority : Int]

\* A hook appended past lc has OnStart, OnStop or both.
Appended == [kind : {"OnStart", "OnStop", "both"}, name : STRING]

ASSUME ProcessAssumption ==
  /\ Starters \in Seq(Component) /\ Stoppers \in Seq(Component)
  /\ Earlier \in Seq(Appended) /\ Later \in Seq(Appended)
  /\ \E i \in DOMAIN Starters : Starters[i].name = Root
  /\ \A i, j \in DOMAIN Starters : Starters[i].name = Root =>
       Starters[i].priority = Latest /\ (Starters[j].name = Root => i = j)
  /\ MaxLaunches \in Nat \ {0}

\* sort.SliceStable by priority.
Precedes(s, i, j) ==
  s[i].priority < s[j].priority \/ (s[i].priority = s[j].priority /\ i < j)
\* Mutant: the order of the group is left.
SortAsGiven(s) == s
SortByPriority(s) ==
  [n \in DOMAIN s |-> s[CHOOSE i \in DOMAIN s :
                          Cardinality({j \in DOMAIN s : Precedes(s, j, i)}) = n - 1]]

HooksOf(kind, s) == [i \in DOMAIN s |-> [kind |-> kind, name |-> s[i].name]]
ContextHook == [kind |-> "context", name |-> Background]

\* Mutant: the hooks of the stoppers come before those of the starters.
HooksOfStoppersFirst ==
  Earlier \o <<ContextHook>> \o HooksOf("stop", SortByPriority(Stoppers))
          \o HooksOf("start", SortByPriority(Starters)) \o Later

\* The hooks of the app: NewBackgroundContext (the context is built first, for a
\* starter), AppendStarters, AppendStoppers, and what others append around them.
Hooks ==
  Earlier \o <<ContextHook>> \o HooksOf("start", SortByPriority(Starters))
          \o HooksOf("stop", SortByPriority(Stoppers)) \o Later

IsRootHook(hook) == hook.kind = "start" /\ hook.name = Root
CanFail(hook) == hook.kind \in {"start", "OnStart", "both"} /\ ~IsRootHook(hook)

VARIABLES
  mode,       \* "run": di.Run; "service": runWithServiceHost
  command,
  proc,       \* "off", "alive", or how it ended: "zero", "nonzero", "killed"
  launches,
  main,       \* where the main goroutine is
  watcher,    \* where watchShutdown is
  stopping,   \* who set `stopping`, or nobody; di.Run has one thread only
  ran,        \* the hooks that are started and not stopped
  expired,    \* the context of a start or a stop has expired
  cmd, cmdErr,        \* the goroutine of Root.Start and what Execute returned
  server, startedCh,  \* the listener, and whether Wait of the server is unblocked
  signal,     \* what the receivers of fx hold: the last signal
  receiving,  \* Done or Wait of the app has been called
  sigterm     \* the process has got SIGTERM

threads == <<main, watcher, stopping, ran, expired, cmd, cmdErr, server, startedCh,
             signal, receiving, sigterm>>
vars == <<mode, command, proc, launches, threads>>

Alive == proc = "alive"
Ended == proc \in {"zero", "nonzero", "killed"}

TypeOK ==
  /\ mode \in {"run", "service"}
  /\ command \in Commands
  /\ proc \in {"off", "alive", "zero", "nonzero", "killed"}
  /\ launches \in 0..MaxLaunches
  /\ main \in {"new", "starting", "rollback", "waiting", "stopping"}
  /\ watcher \in {"none", "spawned", "waiting", "stopping", "done"}
  /\ stopping \in {"nobody", "main", "watcher"}
  /\ ran \in 0..Len(Hooks)
  /\ expired \in BOOLEAN
  /\ cmd \in {"none", "running", "returned", "done"}
  /\ cmdErr \in BOOLEAN
  /\ server \in {"idle", "serving", "failing", "failed", "stopped"}
  /\ startedCh \in BOOLEAN
  /\ signal \in {"none", "term", "zero", "nonzero"}
  /\ receiving \in BOOLEAN
  /\ sigterm \in BOOLEAN

-----------------------------------------------------------------------------
(* Choice of the mode, launch, exit.                                       *)

\* shouldRunServiceHost: no arguments, nothing but flags, or serve.
ShouldRunServiceHost(c) == c \in {"default", "flags", "serve"}

\* Without arguments Root.Start runs serve.
Serves(c) == c \in {"default", "serve"}

\* An interactive run is launched by its user, once; a service by its manager.
Init ==
  /\ command \in Commands
  /\ \E enabled, interactive \in BOOLEAN :
       mode = IF enabled /\ ~interactive /\ ShouldRunServiceHost(command)
              THEN "service" ELSE "run"
  /\ proc = IF mode = "run" THEN "alive" ELSE "off"
  /\ launches = IF mode = "run" THEN 1 ELSE 0
  /\ main = "new" /\ watcher = "none" /\ stopping = "nobody"
  /\ ran = 0 /\ expired = FALSE
  /\ cmd = "none" /\ cmdErr = FALSE
  /\ server = "idle" /\ startedCh = FALSE
  /\ signal = "none" /\ receiving = FALSE /\ sigterm = FALSE

Launch ==
  /\ mode = "service" /\ ~Alive /\ launches < MaxLaunches
  /\ proc' = "alive" /\ launches' = launches + 1
  /\ main' = "new" /\ watcher' = "none" /\ stopping' = "nobody"
  /\ ran' = 0 /\ expired' = FALSE
  /\ cmd' = "none" /\ cmdErr' = FALSE
  /\ server' = "idle" /\ startedCh' = FALSE
  /\ signal' = "none" /\ receiving' = FALSE /\ sigterm' = FALSE
  /\ UNCHANGED <<mode, command>>

\* The process ends; its threads stay where they are.
Exit(how) ==
  /\ proc' = how
  /\ UNCHANGED <<mode, command, launches>>

Goes == Alive /\ UNCHANGED <<mode, command, proc, launches>>

-----------------------------------------------------------------------------
(* Signals of fx.                                                          *)

\* The channel of Done or Wait holds one signal and drops the next; before it is
\* made, the last signal is kept for it.
Broadcast(s) == signal' = IF receiving /\ signal # "none" THEN signal ELSE s

\* Somebody sends SIGTERM, once.  fx listens for it from Done or Wait on, the
\* service host while it waits for or performs its Stop.  Nobody else handles it.
Terminate ==
  /\ Alive /\ ~sigterm
  /\ sigterm' = TRUE
  /\ IF receiving \/ (mode = "service" /\ main \in {"waiting", "stopping"})
     THEN /\ IF receiving THEN Broadcast("term") ELSE UNCHANGED signal
          /\ UNCHANGED <<mode, command, proc, launches>>
     ELSE Exit("killed") /\ UNCHANGED signal
  /\ UNCHANGED <<main, watcher, stopping, ran, expired, cmd, cmdErr, server, startedCh,
                 receiving>>

-----------------------------------------------------------------------------
(* The listener: FiberServer.Listen in the goroutine of web.Init.          *)

serverVars == <<server, startedCh>>
notServer == <<main, watcher, stopping, ran, expired, cmd, cmdErr, signal, receiving, sigterm>>

ListenerGoes(to) == Goes /\ server' = to /\ UNCHANGED notServer

\* OnListen: the server accepts connections.
Listens == server = "idle" /\ ListenerGoes("serving") /\ startedCh' = TRUE

\* The settings are wrong: Listen returns, and nothing has called markStarted.
RejectsSettings == server = "idle" /\ ListenerGoes("failed") /\ UNCHANGED startedCh

\* The address is taken: listen calls markStarted, then Listen returns the error.
CannotListen == server = "idle" /\ ListenerGoes("failing") /\ startedCh' = TRUE

\* Listen returns an error, at once or after it has served.
ListenFails ==
  server \in {"failing", "serving"} /\ ListenerGoes("failed") /\ UNCHANGED startedCh

Listener == Listens \/ RejectsSettings \/ CannotListen \/ ListenFails

-----------------------------------------------------------------------------
(* The command line: the goroutine of Root.Start.                          *)

commandVars == <<cmd, cmdErr, signal>>
notCommand == <<main, watcher, stopping, ran, expired, serverVars, receiving, sigterm>>

\* serve returns when Listen has, and hides the error.
ServeReturns ==
  /\ cmd = "running" /\ Serves(command) /\ server \in {"failed", "stopped"}
  /\ Goes /\ cmd' = "returned" /\ UNCHANGED <<cmdErr, signal, notCommand>>

\* With nothing but flags, the root command prints its help and runs nothing.
HelpReturns ==
  /\ cmd = "running" /\ command = "flags"
  /\ Goes /\ cmd' = "returned" /\ UNCHANGED <<cmdErr, signal, notCommand>>

\* Any other command: PostRunE shuts the app down unless RunE has failed.
CommandReturns(failed) ==
  /\ cmd = "running" /\ ~Serves(command) /\ command # "flags"
  /\ Goes /\ cmd' = "returned" /\ cmdErr' = failed
  /\ IF failed THEN UNCHANGED signal ELSE Broadcast("zero")
  /\ UNCHANGED notCommand

\* Mutant: Shutdown without an exit code.
ShutsDownWithoutCode ==
  /\ cmd = "returned"
  /\ Goes /\ cmd' = "done" /\ Broadcast("zero")
  /\ UNCHANGED <<cmdErr, notCommand>>

\* Mutant: a command that fails leaves the app running.
ShutsDownOnSuccess ==
  /\ cmd = "returned"
  /\ Goes /\ cmd' = "done"
  /\ IF cmdErr THEN UNCHANGED signal ELSE Broadcast("zero")
  /\ UNCHANGED <<cmdErr, notCommand>>

\* stopOnce: the app is shut down with the exit code of the command.
ShutsDown ==
  /\ cmd = "returned"
  /\ Goes /\ cmd' = "done" /\ Broadcast(IF cmdErr THEN "nonzero" ELSE "zero")
  /\ UNCHANGED <<cmdErr, notCommand>>

Command == ServeReturns \/ HelpReturns \/ (\E failed \in BOOLEAN : CommandReturns(failed)) \/ ShutsDown

-----------------------------------------------------------------------------
(* Start and stop of the app, in the main goroutine or in watchShutdown.   *)

\* web.Init waits inside fx.New for Wait of the server or for its error.
ServerIsUp ==
  /\ main = "new" /\ startedCh
  /\ Goes /\ main' = "starting"
  /\ UNCHANGED <<watcher, stopping, ran, expired, commandVars, serverVars, receiving, sigterm>>

ServerIsDown ==
  /\ main = "new" /\ server = "failed"
  /\ Alive /\ Exit("nonzero") /\ UNCHANGED threads

\* app.Start runs the next hook.  Root.Start returns at once; its goroutine runs the
\* command, or stops at arguments that cobra does not accept.
StartHook ==
  /\ main = "starting" /\ ran < Len(Hooks)
  /\ Goes /\ ran' = ran + 1
  /\ IF IsRootHook(Hooks[ran + 1])
     THEN \E accepted \in BOOLEAN :
            cmd' = (IF accepted THEN "running" ELSE "returned") /\ cmdErr' = ~accepted
     ELSE UNCHANGED <<cmd, cmdErr>>
  /\ UNCHANGED <<main, watcher, stopping, expired, signal, serverVars, receiving, sigterm>>

\* A starter or an appended OnStart fails, and fx stops the hooks that it has run.
StartFails ==
  /\ main = "starting" /\ ran < Len(Hooks) /\ CanFail(Hooks[ran + 1])
  /\ Goes /\ main' = "rollback"
  /\ UNCHANGED <<watcher, stopping, ran, expired, commandVars, serverVars, receiving, sigterm>>

\* Only the service host limits the time of the start; the limit is that of the
\* roll back too.
StartExpires ==
  /\ mode = "service" /\ main = "starting" /\ ran < Len(Hooks)
  /\ Goes /\ main' = "rollback" /\ expired' = TRUE
  /\ UNCHANGED <<watcher, stopping, ran, commandVars, serverVars, receiving, sigterm>>

\* Mutant: the service host waits for SIGTERM only.
StartedUnwatched ==
  /\ main = "starting" /\ ran = Len(Hooks)
  /\ Goes /\ main' = "waiting"
  /\ receiving' = (mode = "run")
  /\ UNCHANGED <<watcher, stopping, ran, expired, commandVars, serverVars, sigterm>>

\* Run waits on Done; the service host spawns watchShutdown and waits for SIGTERM.
Started ==
  /\ main = "starting" /\ ran = Len(Hooks)
  /\ Goes /\ main' = "waiting"
  /\ receiving' = (mode = "run")
  /\ watcher' = IF mode = "service" THEN "spawned" ELSE watcher
  /\ UNCHANGED <<stopping, ran, expired, commandVars, serverVars, sigterm>>

WatchShutdown ==
  /\ watcher = "spawned"
  /\ Goes /\ watcher' = "waiting" /\ receiving' = TRUE
  /\ UNCHANGED <<main, stopping, ran, expired, commandVars, serverVars, sigterm>>

\* Mutant: Run waits for Shutdown only.
RunStopsOnShutdown ==
  /\ mode = "run" /\ main = "waiting" /\ signal \in {"zero", "nonzero"}
  /\ Goes /\ main' = "stopping" /\ stopping' = "main"
  /\ UNCHANGED <<watcher, ran, expired, commandVars, serverVars, receiving, sigterm>>

\* Run: <-app.Done().
RunStops ==
  /\ mode = "run" /\ main = "waiting" /\ signal # "none"
  /\ Goes /\ main' = "stopping" /\ stopping' = "main"
  /\ UNCHANGED <<watcher, ran, expired, commandVars, serverVars, receiving, sigterm>>

\* serviceHostProgram.Stop, on SIGTERM.  When watchShutdown stops the app, Stop
\* returns, and with it main.
ServiceStops ==
  /\ mode = "service" /\ main = "waiting" /\ sigterm
  /\ IF stopping = "nobody"
     THEN /\ Goes /\ main' = "stopping" /\ stopping' = "main"
          /\ UNCHANGED <<watcher, ran, expired, commandVars, serverVars, receiving, sigterm>>
     ELSE Alive /\ Exit("zero") /\ UNCHANGED threads

\* watchShutdown: <-fxApp.Wait().
WatcherWakes ==
  /\ watcher = "waiting" /\ signal # "none"
  /\ Goes
  /\ IF stopping = "nobody"
     THEN watcher' = "stopping" /\ stopping' = "watcher"
     ELSE watcher' = "done" /\ UNCHANGED stopping
  /\ UNCHANGED <<main, ran, expired, commandVars, serverVars, receiving, sigterm>>

Stops == main \in {"rollback", "stopping"} \/ watcher = "stopping"

\* Mutant: a hook is stopped twice.
StopHookAgain ==
  /\ Stops /\ ~expired
  /\ Goes /\ ran' = ran - 1
  /\ UNCHANGED <<main, watcher, stopping, expired, commandVars, serverVars, receiving, sigterm>>

\* app.Stop runs the OnStop of the last hook that is started.
StopHook ==
  /\ Stops /\ ran > 0 /\ ~expired
  /\ Goes /\ ran' = ran - 1
  /\ server' = IF Hooks[ran].kind = "stop" /\ Hooks[ran].name = Web /\ server = "serving"
               THEN "stopped" ELSE server
  /\ UNCHANGED <<main, watcher, stopping, expired, commandVars, startedCh, receiving, sigterm>>

\* The 15 or 20 seconds are over.
StopExpires ==
  /\ main = "stopping" \/ watcher = "stopping"
  /\ ran > 0 /\ ~expired
  /\ Goes /\ expired' = TRUE
  /\ UNCHANGED <<main, watcher, stopping, ran, commandVars, serverVars, receiving, sigterm>>

\* Mutant: Run does not wait for Stop.
StopReturnsAtOnce ==
  /\ Stops /\ (ran = 0 \/ expired \/ mode = "run")
  /\ Alive
  /\ \/ main = "rollback" /\ Exit("nonzero")
     \/ main = "stopping" /\ mode = "run" /\ Exit("zero")
     \/ main = "stopping" /\ mode = "service" /\ Exit(IF expired THEN "nonzero" ELSE "zero")
     \/ watcher = "stopping" /\ Exit(IF signal = "nonzero" THEN "nonzero" ELSE "zero")
  /\ UNCHANGED threads

\* The end: Run drops the error of Stop and the exit code of the signal, Stop of the
\* service host returns its error, watchShutdown exits with the code.
StopReturns ==
  /\ Stops /\ (ran = 0 \/ expired)
  /\ Alive
  /\ \/ main = "rollback" /\ Exit("nonzero")
     \/ main = "stopping" /\ mode = "run" /\ Exit("zero")
     \/ main = "stopping" /\ mode = "service" /\ Exit(IF expired THEN "nonzero" ELSE "zero")
     \/ watcher = "stopping" /\ Exit(IF signal = "nonzero" THEN "nonzero" ELSE "zero")
  /\ UNCHANGED threads

Main == ServerIsUp \/ ServerIsDown \/ StartHook \/ StartFails \/ StartExpires \/ Started
        \/ RunStops \/ ServiceStops \/ StopHook \/ StopExpires \/ StopReturns
Watcher == WatchShutdown \/ WatcherWakes

Steps == Main \/ Watcher \/ Listener \/ Command
Next == Steps \/ Launch \/ Terminate

\* A goroutine that can go on does; a listener starts or fails, and need not fail
\* after that.
Fairness ==
  /\ WF_vars(Main) /\ WF_vars(Watcher) /\ WF_vars(Command)
  /\ WF_vars(Listener /\ server # "serving")

Spec == Init /\ [][Next]_vars /\ Fairness

-----------------------------------------------------------------------------
(* Properties.                                                             *)

\* A process that ends by itself after its start has run every stop hook, or has
\* used up the time for them (stopApp, watchShutdown, Stop).  The exception is the
\* service host: when watchShutdown stops the app and SIGTERM comes, Stop returns
\* at once and the hooks are cut off.
StopHooksAreRun ==
  proc \in {"zero", "nonzero"} /\ main \in {"waiting", "stopping"} /\ ran > 0 =>
    expired \/ (mode = "service" /\ stopping = "watcher" /\ sigterm)

HasRun(kind, component) ==
  \E h \in 1..ran : Hooks[h].kind = kind /\ Hooks[h].name = component.name

\* A service whose command has failed tells its manager so, if nobody stops it:
\* Root.Start passes the code to fx and watchShutdown exits with it.
ServiceTellsFailure ==
  mode = "service" /\ cmdErr /\ proc = "zero" => sigterm

\* A failed start calls Stop of all components or of none.  When a starter fails, those
\* that have started are not stopped: AppendStoppers registers behind every starter what
\* AppendStarters has not reached.  When a hook behind them fails, such as that of an MQTT
\* broker that cannot be reached, each has started and Stop is called of each.
FailedStartStopsAllOrNone ==
  [][main = "starting" /\ main' = "rollback" /\ ~expired' =>
       \/ \A h \in 1..ran : Hooks[h].kind # "stop"
       \/ /\ \A i \in DOMAIN Starters : HasRun("start", Starters[i])
          /\ \A i \in DOMAIN Stoppers : HasRun("stop", Stoppers[i])]_vars

\* The command runs when every starter of an earlier priority has started
\* (lc.StartPriority(lc.Latest) of Root), and never while Stop hooks run.  What is
\* appended past lc behind the starters, the MQTT broker, starts after it.
CommandRunsLast ==
  [][cmd = "none" /\ cmd' # "none" =>
       /\ ~Stops
       /\ \A i \in DOMAIN Starters :
            Starters[i].priority < Latest => HasRun("start", Starters[i])]_vars

\* The end is not missed: when the command is over or SIGTERM has come, some thread of the
\* process can go on towards its end.  The signal is there for whoever waits for it,
\* also when it came before Done or Wait, or behind another one that filled the channel.
EndIsNotMissed ==
  Alive /\ (cmd = "done" \/ sigterm) =>
    \/ main = "starting" \/ Stops
    \/ /\ main = "waiting"
       /\ \/ mode = "run" /\ signal # "none"
          \/ mode = "service" /\ (sigterm \/ watcher = "spawned")
          \/ watcher = "waiting" /\ signal # "none"

\* The process of a command that is over ends, in both modes (Root.Start calls
\* Shutdown, for which Run or watchShutdown waits).
CommandEndsProcess == Alive /\ cmd = "done" ~> ~Alive

\* So does a process that gets SIGTERM.
TermEndsProcess == Alive /\ sigterm ~> ~Alive

\* What the help of healthcheck says, "exit non-zero when unhealthy", and Root.Start
\* means with the exit code: no process ends with code 0 when its command failed.
FailureHasExitCode == proc = "zero" => ~cmdErr
=============================================================================
