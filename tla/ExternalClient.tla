--------------------------- MODULE ExternalClient ---------------------------
(***************************************************************************)
(* The client of an external MQTT broker (realtime/mqtt/external.go).      *)
(*                                                                         *)
(* Its state is a struct guarded by a mutex; around it run the goroutines  *)
(* of the application (Start, Stop, Subscribe, Unsubscribe, Publish), one  *)
(* readLoop per connection and the reconnectLoop.  A section under the     *)
(* mutex is one step.  What happens between two sections (dialling, a      *)
(* packet on the wire, the backoff) separates two steps, so that every     *)
(* interleaving the mutex allows is a behaviour of the model.              *)
(***************************************************************************)
EXTENDS Naturals

CONSTANTS
  Hosts,      \* goroutines that call Start and Stop
  Apps,       \* goroutines that call Subscribe, Unsubscribe and Publish
  Loops,      \* goroutines available to run reconnectLoop
  Conns,      \* connections (pointers: two that are in use are never equal)
  Filters,    \* topic filters
  Ids,        \* subscription identifiers
  None,       \* nil
  MaxStarts   \* bound on the number of calls of Start

Callers == Hosts \cup Apps
Threads == Callers \cup Loops

ASSUME ConstantsAssumption ==
  /\ None \notin Conns
  /\ None \notin Filters
  /\ Hosts \cap Apps = {}
  /\ Callers \cap Loops = {}
  /\ MaxStarts \in Nat

VARIABLES
  \* The fields of the struct.
  conn,           \* the current connection, or None
  started,        \* a connection is installed
  closing,        \* Stop was called, and Start not since
  reconnecting,   \* a reconnectLoop was requested
  handlers,       \* filter -> the identifiers subscribed to it
  \* The goroutines.
  g,              \* the place and the local variables of each goroutine
  spawned,        \* reconnectLoops requested with `go` and not running yet
  readers,        \* connections served by a readLoop
  \* The network and the broker.
  wire,           \* "open", "broken" (by the peer), "closed" (by the client)
  subs,           \* the filters the broker holds for each connection
  \* History: not in the program, read by properties and bounds only.
  starts,         \* how often Start was called
  up              \* the last Start succeeded, and Stop was not called since

client == <<conn, started, closing, reconnecting, handlers>>
network == <<wire, subs>>
history == <<starts, up>>
vars == <<client, g, spawned, readers, network, history>>

-----------------------------------------------------------------------------
(* Goroutines.                                                             *)

Places == {"idle", "dial", "install", "snapshot", "resubscribe", "failed",
           "backoff", "check", "exiting", "locate", "write", "closing"}

Ops == {"none", "start", "stop", "subscribe", "unsubscribe", "publish",
        "reconnect"}

Goroutine ==
  [at     : Places,
   op     : Ops,                    \* the call it executes
   mine   : Conns \cup {None},      \* the connection it established
   target : Conns \cup {None},      \* the connection it is writing to
   filter : Filters \cup {None},    \* the filter it is about
   todo   : SUBSET Filters]         \* filters still to be resubscribed

Idle == [at |-> "idle", op |-> "none", mine |-> None, target |-> None,
         filter |-> None, todo |-> {}]

Calling(op, at) == [Idle EXCEPT !.op = op, !.at = at]

Become(t, state) == g' = [g EXCEPT ![t] = state]
Goto(t, place) == Become(t, [g[t] EXCEPT !.at = place])
Return(t) == Become(t, Idle)

\* Start and reconnectLoop both establish a connection and resubscribe.
Establishing(t) == g[t].op \in {"start", "reconnect"}

\* The state in which goroutine t resumes after a failed attempt to connect:
\* Start returns the error, reconnectLoop waits before it tries again.
AfterFailure(t) == IF g[t].op = "start" THEN Idle
                   ELSE Calling("reconnect", "backoff")

Subscribed == {f \in Filters : handlers[f] # {}}

\* A connection no goroutine refers to: its memory can be that of a new one.
Unused(c) ==
  /\ wire[c] # "open"
  /\ c # conn
  /\ c \notin readers
  /\ \A t \in Threads : c \notin {g[t].mine, g[t].target}

-----------------------------------------------------------------------------
Init ==
  /\ conn = None
  /\ started = FALSE
  /\ closing = FALSE
  /\ reconnecting = FALSE
  /\ handlers = [f \in Filters |-> {}]
  /\ g = [t \in Threads |-> Idle]
  /\ spawned = 0
  /\ readers = {}
  /\ wire = [c \in Conns |-> "closed"]
  /\ subs = [c \in Conns |-> {}]
  /\ starts = 0
  /\ up = FALSE

-----------------------------------------------------------------------------
(* handleConnectionLoss(c, reconnect): a report that c was lost.  It is    *)
(* ignored when another connection is current; else it clears the client,  *)
(* closes c and asks for a reconnectLoop unless one exists or Stop was     *)
(* called.                                                                 *)

\* Mutant: every report is taken for one on the current connection.
IgnoredNever(c) == FALSE

Ignored(c) == conn # None /\ conn # c

\* Mutant: a loop is started although one exists.
WantsLoopAlways(reconnect) == reconnect /\ ~closing

WantsLoop(reconnect) == reconnect /\ ~closing /\ ~reconnecting

ConnectionLoss(c, reconnect) ==
  \/ /\ Ignored(c)
     /\ UNCHANGED <<client, spawned, wire>>
  \/ /\ ~Ignored(c)
     /\ conn' = None
     /\ started' = FALSE
     /\ wire' = [wire EXCEPT ![c] = "closed"]
     /\ IF WantsLoop(reconnect)
        THEN reconnecting' = TRUE /\ spawned' = spawned + 1
        ELSE UNCHANGED <<reconnecting, spawned>>
     /\ UNCHANGED <<closing, handlers>>

-----------------------------------------------------------------------------
(* Start and Stop.                                                         *)

\* A Start that finds the client started returns at once and changes nothing.
StartBegin(h) ==
  /\ g[h].at = "idle"
  /\ starts < MaxStarts
  /\ ~started
  /\ closing' = FALSE
  /\ Become(h, Calling("start", "dial"))
  /\ starts' = starts + 1
  /\ UNCHANGED <<conn, started, reconnecting, handlers, spawned, readers,
                 network, up>>

StopBegin(h) ==
  /\ g[h].at = "idle"
  /\ closing' = TRUE
  /\ conn' = None
  /\ started' = FALSE
  /\ Become(h, IF conn = None THEN Idle
               ELSE [Calling("stop", "closing") EXCEPT !.target = conn])
  /\ up' = FALSE
  /\ UNCHANGED <<reconnecting, handlers, spawned, readers, network, starts>>

\* The DISCONNECT packet, whose error is ignored, and conn.Close.
StopClose(h) ==
  /\ g[h].at = "closing"
  /\ wire' = [wire EXCEPT ![g[h].target] = "closed"]
  /\ Return(h)
  /\ UNCHANGED <<client, spawned, readers, subs, history>>

-----------------------------------------------------------------------------
(* Establishing a connection: establishConnection, setConnected and the    *)
(* loop over subscriptionFilters, in Start and in reconnectLoop.           *)

DialOk(t) ==
  /\ g[t].at = "dial"
  /\ \E c \in Conns :
       /\ Unused(c)
       /\ wire' = [wire EXCEPT ![c] = "open"]
       /\ subs' = [subs EXCEPT ![c] = {}]
       /\ Become(t, [g[t] EXCEPT !.at = "install", !.mine = c])
  /\ UNCHANGED <<client, spawned, readers, history>>

\* The dial, the CONNECT packet or the CONNACK failed, or timed out.
DialFail(t) ==
  /\ g[t].at = "dial"
  /\ Become(t, AfterFailure(t))
  /\ UNCHANGED <<client, spawned, readers, network, history>>

\* Mutant: Start forgets its readLoop.
ReadsFromInstallNever(t) == FALSE

\* Start launches its readLoop next to setConnected, reconnectLoop at its end.
ReadsFromInstall(t) == g[t].op = "start"

\* setConnected.
Install(t) ==
  /\ g[t].at = "install"
  /\ conn' = g[t].mine
  /\ started' = TRUE
  /\ readers' = IF ReadsFromInstall(t) THEN readers \cup {g[t].mine} ELSE readers
  /\ Goto(t, "snapshot")
  /\ UNCHANGED <<closing, reconnecting, handlers, spawned, network, history>>

Snapshot(t) ==
  /\ g[t].at = "snapshot"
  /\ Become(t, [g[t] EXCEPT !.at = "resubscribe", !.todo = Subscribed])
  /\ UNCHANGED <<client, spawned, readers, network, history>>

\* connectedConn in the subscribeRemote of one of the filters, in any order.
ResubscribeNext(t) ==
  /\ g[t].at = "resubscribe"
  /\ \E f \in g[t].todo :
       Become(t, IF started /\ conn # None
                 THEN [g[t] EXCEPT !.at = "write", !.target = conn,
                                   !.filter = f, !.todo = @ \ {f}]
                 ELSE [g[t] EXCEPT !.at = "failed", !.todo = {}])
  /\ UNCHANGED <<client, spawned, readers, network, history>>

StartReturns(t) ==
  /\ g[t].at = "resubscribe"
  /\ g[t].todo = {}
  /\ g[t].op = "start"
  /\ up' = ~closing
  /\ Return(t)
  /\ UNCHANGED <<client, spawned, readers, network, starts>>

\* Mutant: reconnectLoop forgets its readLoop.
ReconnectReturnsUnread(t) ==
  /\ g[t].at = "resubscribe"
  /\ g[t].todo = {}
  /\ g[t].op = "reconnect"
  /\ Become(t, Calling("reconnect", "exiting"))
  /\ UNCHANGED <<client, spawned, readers, network, history>>

\* `go e.readLoop(conn, reader); return`: the deferred reset is still to run.
ReconnectReturns(t) ==
  /\ g[t].at = "resubscribe"
  /\ g[t].todo = {}
  /\ g[t].op = "reconnect"
  /\ readers' = readers \cup {g[t].mine}
  /\ Become(t, Calling("reconnect", "exiting"))
  /\ UNCHANGED <<client, spawned, network, history>>

\* handleConnectionLoss(conn, false) after a resubscription failed.
Abandon(t) ==
  /\ g[t].at = "failed"
  /\ ConnectionLoss(g[t].mine, FALSE)
  /\ Become(t, AfterFailure(t))
  /\ UNCHANGED <<readers, subs, history>>

-----------------------------------------------------------------------------
(* The rest of reconnectLoop.                                              *)

LoopBegin(l) ==
  /\ spawned > 0
  /\ g[l].at = "idle"
  /\ spawned' = spawned - 1
  /\ Become(l, Calling("reconnect", "check"))
  /\ UNCHANGED <<client, readers, network, history>>

\* Mutant: an attempt is made without looking at closing.
LoopCheckNot(l) ==
  /\ g[l].at = "check"
  /\ Goto(l, "dial")
  /\ UNCHANGED <<client, spawned, readers, network, history>>

LoopCheck(l) ==
  /\ g[l].at = "check"
  /\ Goto(l, IF closing THEN "exiting" ELSE "dial")
  /\ UNCHANGED <<client, spawned, readers, network, history>>

\* waitForReconnectBackoff: the timer fires, or a tick finds closing set.
Backoff(l) ==
  /\ g[l].at = "backoff"
  /\ \/ Goto(l, "check")
     \/ closing /\ Goto(l, "exiting")
  /\ UNCHANGED <<client, spawned, readers, network, history>>

\* The deferred function.
LoopExit(l) ==
  /\ g[l].at = "exiting"
  /\ reconnecting' = FALSE
  /\ Return(l)
  /\ UNCHANGED <<conn, started, closing, handlers, spawned, readers, network,
                 history>>

-----------------------------------------------------------------------------
(* Subscribe, Unsubscribe, Publish.                                        *)

Subscribe(a, f, i) ==
  /\ g[a].at = "idle"
  /\ handlers' = [handlers EXCEPT ![f] = @ \cup {i}]
  /\ Become(a, IF handlers[f] = {} /\ started
               THEN [Calling("subscribe", "locate") EXCEPT !.filter = f]
               ELSE Idle)
  /\ UNCHANGED <<conn, started, closing, reconnecting, spawned, readers,
                 network, history>>

\* Mutant: UNSUBSCRIBE is sent for any registered identifier.
LastOfAny(f, i) == i \in handlers[f]

\* Without identifier i the filter has no handler.
LastOf(f, i) == handlers[f] \subseteq {i}

Unsubscribe(a, f, i) ==
  /\ g[a].at = "idle"
  /\ handlers[f] # {}
  /\ handlers' = [handlers EXCEPT ![f] = @ \ {i}]
  /\ Become(a, IF LastOf(f, i) /\ started
               THEN [Calling("unsubscribe", "locate") EXCEPT !.filter = f]
               ELSE Idle)
  /\ UNCHANGED <<conn, started, closing, reconnecting, spawned, readers,
                 network, history>>

Publish(a) ==
  /\ g[a].at = "idle"
  /\ Become(a, Calling("publish", "locate"))
  /\ UNCHANGED <<client, spawned, readers, network, history>>

\* connectedConn; without a connection the call returns the error.
Locate(a) ==
  /\ g[a].at = "locate"
  /\ Become(a, IF started /\ conn # None
               THEN [g[a] EXCEPT !.at = "write", !.target = conn]
               ELSE Idle)
  /\ UNCHANGED <<client, spawned, readers, network, history>>

-----------------------------------------------------------------------------
(* writePacket.  A packet on an open connection reaches the broker, which  *)
(* takes packets in order; on a broken one it is lost, with or without an  *)
(* error; on one the client closed it fails.                               *)

\* Mutant: every packet subscribes.
DeliveredAll(t, held) == held \cup {g[t].filter}

Delivered(t, held) ==
  CASE g[t].op \in {"start", "reconnect", "subscribe"} -> held \cup {g[t].filter}
    [] g[t].op = "unsubscribe" -> held \ {g[t].filter}
    [] OTHER -> held

WriteOk(t) ==
  /\ g[t].at = "write"
  /\ wire[g[t].target] # "closed"
  /\ subs' = IF wire[g[t].target] = "open"
             THEN [subs EXCEPT ![g[t].target] = Delivered(t, @)]
             ELSE subs
  /\ Become(t, IF Establishing(t)
               THEN [g[t] EXCEPT !.at = "resubscribe", !.target = None,
                                 !.filter = None]
               ELSE Idle)
  /\ UNCHANGED <<client, spawned, readers, wire, history>>

WriteFail(t) ==
  /\ g[t].at = "write"
  /\ wire[g[t].target] # "open"
  /\ ConnectionLoss(g[t].target, TRUE)
  /\ Become(t, IF Establishing(t)
               THEN [g[t] EXCEPT !.at = "failed", !.target = None,
                                 !.filter = None, !.todo = {}]
               ELSE Idle)
  /\ UNCHANGED <<readers, subs, history>>

-----------------------------------------------------------------------------
(* readLoop.  A PUBLISH only calls handlers, and a PINGREQ that can be     *)
(* answered changes nothing here.                                          *)

ReadFails(c) ==
  /\ c \in readers
  /\ wire[c] # "open"
  /\ readers' = readers \ {c}
  /\ ConnectionLoss(c, TRUE)
  /\ UNCHANGED <<g, subs, history>>

\* A PINGREQ read before the connection broke: the answer fails.
PingFails(c) ==
  /\ c \in readers
  /\ wire[c] # "open"
  /\ ConnectionLoss(c, TRUE)
  /\ UNCHANGED <<g, readers, subs, history>>

\* The broker or the network breaks a connection: an outage, a restart of the
\* broker, a second client with the same identifier, a missed keepalive.
Break(c) ==
  /\ wire[c] = "open"
  /\ wire' = [wire EXCEPT ![c] = "broken"]
  /\ UNCHANGED <<client, g, spawned, readers, subs, history>>

-----------------------------------------------------------------------------
HostStep(h) == StartBegin(h) \/ StopBegin(h)

AppStep(a) ==
  \/ Publish(a)
  \/ \E f \in Filters, i \in Ids : Subscribe(a, f, i) \/ Unsubscribe(a, f, i)

EstablishStep(t) ==
  \/ DialOk(t) \/ DialFail(t) \/ Install(t) \/ Snapshot(t)
  \/ ResubscribeNext(t) \/ StartReturns(t) \/ ReconnectReturns(t) \/ Abandon(t)

LoopStep(l) == LoopBegin(l) \/ LoopCheck(l) \/ Backoff(l) \/ LoopExit(l)

\* A goroutine inside a call takes its next step.
Proceed(t) ==
  \/ StopClose(t) \/ EstablishStep(t) \/ Locate(t) \/ WriteOk(t) \/ WriteFail(t)

Next ==
  \/ \E h \in Hosts : HostStep(h)
  \/ \E a \in Apps : AppStep(a)
  \/ \E l \in Loops : LoopStep(l)
  \/ \E t \in Threads : Proceed(t)
  \/ \E c \in Conns : ReadFails(c) \/ PingFails(c) \/ Break(c)

Spec == Init /\ [][Next]_vars

\* The Go scheduler runs every goroutine that can run, reads and writes on a
\* dead connection return (the deadlines see to it) and timers fire.  Nothing
\* obliges a caller to call or the network to break or to recover.
Fairness ==
  /\ \A t \in Threads : WF_vars(Proceed(t))
  /\ \A l \in Loops : WF_vars(LoopStep(l))
  /\ \A c \in Conns : WF_vars(ReadFails(c))

FairSpec == Spec /\ Fairness

-----------------------------------------------------------------------------
(* Properties.                                                             *)

\* Type correctness: every variable, and every field of a goroutine's state,
\* stays in its domain.
TypeOK ==
  /\ conn \in Conns \cup {None}
  /\ started \in BOOLEAN
  /\ closing \in BOOLEAN
  /\ reconnecting \in BOOLEAN
  /\ handlers \in [Filters -> SUBSET Ids]
  /\ g \in [Threads -> Goroutine]
  /\ spawned \in Nat
  /\ readers \subseteq Conns
  /\ wire \in [Conns -> {"open", "broken", "closed"}]
  /\ subs \in [Conns -> SUBSET Filters]
  /\ starts \in 0..MaxStarts
  /\ up \in BOOLEAN

\* Loss reports of readers and writers race each other and the end of the
\* loop, yet never start a second reconnectLoop beside a first: reconnecting is
\* set exactly while one is requested or runs.
OneReconnectLoop ==
  \/ /\ ~reconnecting
     /\ spawned = 0
     /\ \A l \in Loops : g[l].at = "idle"
  \/ /\ reconnecting
     /\ spawned = 1
     /\ \A l \in Loops : g[l].at = "idle"
  \/ /\ reconnecting
     /\ spawned = 0
     /\ \E l \in Loops : \A m \in Loops : (g[m].at # "idle") <=> (m = l)

\* Whatever calls overlap, the current connection has a readLoop or belongs to a
\* goroutine that will launch one or discard the connection.  A connection
\* without a reader would deliver nothing, and its loss would never be noticed.
ConnectedIsWatched ==
  conn # None =>
    \/ conn \in readers
    \/ \E t \in Threads :
         /\ g[t].mine = conn
         /\ g[t].at \in {"snapshot", "resubscribe", "write", "failed"}

\* A late loss report, of a readLoop or a writer that outlived its connection,
\* never tears down the connection that replaced it: the client drops a
\* connection only when that one is dead, when the goroutine that established
\* it gives it up, or in Stop.
LossHitsOnlyItsConnection ==
  [][(conn # None /\ conn' = None) =>
       \/ wire[conn] # "open"
       \/ \E t \in Threads : g[t].at = "failed" /\ g[t].mine = conn
       \/ \E h \in Hosts : StopBegin(h)]_vars

\* As long as Start was called once, as fx hooks call it, no connection is left
\* open behind the current one: each open connection is current, about to be
\* installed or given up by the goroutine that established it, or about to be
\* closed by Stop.
NoOrphanConnection ==
  starts <= 1 =>
    \A c \in Conns : wire[c] = "open" =>
      \/ c = conn
      \/ \E t \in Threads :
           \/ g[t].mine = c /\ g[t].at \in {"install", "resubscribe", "failed"}
           \/ g[t].target = c /\ g[t].at = "closing"

\* Goroutine t is going to subscribe filter f on the current connection.
WillSubscribe(t, f) ==
  \/ g[t].at = "snapshot"
  \/ f \in g[t].todo
  \/ /\ g[t].op \in {"start", "reconnect", "subscribe"}
     /\ g[t].filter = f
     /\ g[t].at = "locate" \/ g[t].target = conn

\* As long as a single goroutine subscribes and unsubscribes, a handler is never
\* forgotten: across outages, reconnections and failed calls, each filter with
\* a handler is held by the broker for the current connection, or somebody is
\* about to subscribe it, or about to discard the connection.
HandlersReachBroker ==
  (conn # None /\ wire[conn] = "open") =>
    \A f \in Subscribed :
      \/ f \in subs[conn]
      \/ \E t \in Threads :
           \/ WillSubscribe(t, f)
           \/ g[t].at = "failed" /\ g[t].mine = conn

\* After a Start that succeeded, and until Stop, a client without a connection is
\* being reconnected, or will be: the last readLoop has not yet reported.
LossIsRecovered ==
  (up /\ conn = None) =>
    \/ spawned > 0
    \/ readers # {}
    \/ \E l \in Loops : g[l].at \notin {"idle", "exiting"}

\* A broken connection does not stay the current one: someone notices.
OutageIsNoticed ==
  \A c \in Conns : (conn = c /\ wire[c] = "broken") ~> (conn # c)

\* Once Stop was called for good, reconnectLoop ends: it does not keep dialling.
StopEndsReconnecting == <>[]closing => <>[]~reconnecting

=============================================================================
