---------------------------- MODULE ManagedPubSub ---------------------------
(***************************************************************************)
(* The registrar of topic handlers (realtime/subscribers.go): goroutines   *)
(* call Topic while the fx lifecycle calls Stop.  Topic subscribes outside *)
(* the mutex and looks at `stopped` again before it records the entry.     *)
(* The Subscriber behind it is the embedded server or the client of an     *)
(* external broker; only its table of handlers and its errors matter here. *)
(***************************************************************************)
EXTENDS Naturals

CONSTANTS
  Registrars,  \* goroutines that call Topic
  Stoppers,    \* goroutines that call Stop
  Filters,     \* topic filters
  Allowed,     \* those that isTopicAllowed accepts
  MaxTopics    \* bound on the number of identifiers given out

Procs == Registrars \cup Stoppers

ASSUME PubSubAssumption ==
  /\ Registrars \cap Stoppers = {}
  /\ Allowed \subseteq Filters
  /\ MaxTopics \in Nat

VARIABLES
  nextID,      \* the next identifier
  stopped,     \* Stop was called
  items,       \* the entries Stop will unsubscribe
  registered,  \* the table of the Subscriber
  orphans,     \* history: entries left behind by a Subscribe that failed
  at,          \* where each goroutine is
  entry,       \* the entry each Topic call is about
  todo         \* the entries each Stop call has still to unsubscribe

vars == <<nextID, stopped, items, registered, orphans, at, entry, todo>>

Entry == Filters \X (1..MaxTopics)

NoEntry == <<>>

Places == {"idle", "subscribe", "record", "undo", "stopping"}

\* Mutant: identifiers are counted from 0.
InitZero ==
  /\ nextID = 0
  /\ stopped = FALSE
  /\ items = {}
  /\ registered = {}
  /\ orphans = {}
  /\ at = [p \in Procs |-> "idle"]
  /\ entry = [p \in Procs |-> NoEntry]
  /\ todo = [p \in Procs |-> {}]

Init ==
  /\ nextID = 1
  /\ stopped = FALSE
  /\ items = {}
  /\ registered = {}
  /\ orphans = {}
  /\ at = [p \in Procs |-> "idle"]
  /\ entry = [p \in Procs |-> NoEntry]
  /\ todo = [p \in Procs |-> {}]

Goto(p, place) == at' = [at EXCEPT ![p] = place]

-----------------------------------------------------------------------------
(* Topic.  A call that finds the registrar stopped, or a filter that the   *)
(* ACL denies, returns an error and changes nothing.                       *)

\* Mutant: the identifier is read, not taken.
TopicBeginShared(r, f) ==
  /\ at[r] = "idle"
  /\ nextID <= MaxTopics
  /\ ~stopped
  /\ f \in Allowed
  /\ nextID' = IF \E p \in Procs : at[p] = "subscribe" THEN nextID ELSE nextID + 1
  /\ entry' = [entry EXCEPT ![r] = <<f, nextID>>]
  /\ Goto(r, "subscribe")
  /\ UNCHANGED <<stopped, items, registered, orphans, todo>>

TopicBegin(r, f) ==
  /\ at[r] = "idle"
  /\ nextID <= MaxTopics
  /\ ~stopped
  /\ f \in Allowed
  /\ nextID' = nextID + 1
  /\ entry' = [entry EXCEPT ![r] = <<f, nextID>>]
  /\ Goto(r, "subscribe")
  /\ UNCHANGED <<stopped, items, registered, orphans, todo>>

SubscribeOk(r) ==
  /\ at[r] = "subscribe"
  /\ registered' = registered \cup {entry[r]}
  /\ Goto(r, "record")
  /\ UNCHANGED <<nextID, stopped, items, orphans, entry, todo>>

\* Subscribe fails and Topic returns its error.  The external client returns the
\* error of the SUBSCRIBE packet and keeps the handler all the same.
SubscribeFails(r) ==
  /\ at[r] = "subscribe"
  /\ \/ UNCHANGED <<registered, orphans>>
     \/ /\ registered' = registered \cup {entry[r]}
        /\ orphans' = orphans \cup {entry[r]}
  /\ entry' = [entry EXCEPT ![r] = NoEntry]
  /\ Goto(r, "idle")
  /\ UNCHANGED <<nextID, stopped, items, todo>>

\* Mutant: the second look at stopped is missing.
RecordAlways(r) ==
  /\ at[r] = "record"
  /\ items' = items \cup {entry[r]}
  /\ entry' = [entry EXCEPT ![r] = NoEntry]
  /\ Goto(r, "idle")
  /\ UNCHANGED <<nextID, stopped, registered, orphans, todo>>

Record(r) ==
  /\ at[r] = "record"
  /\ IF stopped
     THEN Goto(r, "undo") /\ UNCHANGED <<items, entry>>
     ELSE /\ items' = items \cup {entry[r]}
          /\ entry' = [entry EXCEPT ![r] = NoEntry]
          /\ Goto(r, "idle")
  /\ UNCHANGED <<nextID, stopped, registered, orphans, todo>>

\* Mutant: the late Topic returns its error without unsubscribing.
UndoNothing(r) ==
  /\ at[r] = "undo"
  /\ entry' = [entry EXCEPT ![r] = NoEntry]
  /\ Goto(r, "idle")
  /\ UNCHANGED <<nextID, stopped, items, registered, orphans, todo>>

\* Unsubscribe removes the handler from the table even when it returns an error.
Undo(r) ==
  /\ at[r] = "undo"
  /\ registered' = registered \ {entry[r]}
  /\ entry' = [entry EXCEPT ![r] = NoEntry]
  /\ Goto(r, "idle")
  /\ UNCHANGED <<nextID, stopped, items, orphans, todo>>

-----------------------------------------------------------------------------
(* Stop.  A second call returns at once, whatever the first has done yet.  *)

\* Mutant: Stop is not idempotent and does not take the entries.
StopBeginKeeping(s) ==
  /\ at[s] = "idle"
  /\ stopped' = TRUE
  /\ todo' = [todo EXCEPT ![s] = items]
  /\ Goto(s, "stopping")
  /\ UNCHANGED <<nextID, items, registered, orphans, entry>>

StopBegin(s) ==
  /\ at[s] = "idle"
  /\ ~stopped
  /\ stopped' = TRUE
  /\ todo' = [todo EXCEPT ![s] = items]
  /\ items' = {}
  /\ Goto(s, "stopping")
  /\ UNCHANGED <<nextID, registered, orphans, entry>>

StopNext(s) ==
  /\ at[s] = "stopping"
  /\ \E e \in todo[s] :
       /\ registered' = registered \ {e}
       /\ todo' = [todo EXCEPT ![s] = @ \ {e}]
  /\ UNCHANGED <<nextID, stopped, items, orphans, at, entry>>

StopReturns(s) ==
  /\ at[s] = "stopping"
  /\ todo[s] = {}
  /\ Goto(s, "idle")
  /\ UNCHANGED <<nextID, stopped, items, registered, orphans, entry, todo>>

-----------------------------------------------------------------------------
TopicStep(r) == SubscribeOk(r) \/ SubscribeFails(r) \/ Record(r) \/ Undo(r)

StopStep(s) == StopNext(s) \/ StopReturns(s)

Next ==
  \/ \E r \in Registrars, f \in Filters : TopicBegin(r, f)
  \/ \E r \in Registrars : TopicStep(r)
  \/ \E s \in Stoppers : StopBegin(s) \/ StopStep(s)

Spec == Init /\ [][Next]_vars

\* A call that has begun goes on: the calls of the Subscriber return.
FairSpec ==
  /\ Spec
  /\ \A r \in Registrars : WF_vars(TopicStep(r))
  /\ \A s \in Stoppers : WF_vars(StopStep(s))

-----------------------------------------------------------------------------
(* Properties.                                                             *)

\* Type correctness of the registrar and of the calls in progress.
TypeOK ==
  /\ nextID \in 1..(MaxTopics + 1)
  /\ stopped \in BOOLEAN
  /\ items \subseteq Entry
  /\ registered \subseteq Entry
  /\ orphans \subseteq Entry
  /\ at \in [Procs -> Places]
  /\ entry \in [Procs -> Entry \cup {NoEntry}]
  /\ todo \in [Procs -> SUBSET Entry]

\* Somebody still answers for entry e: the next Stop, a Topic that is not done with
\* it, or a Stop that has not come to it.
Owned(e) ==
  \/ e \in items
  \/ \E p \in Procs : at[p] \in {"record", "undo"} /\ entry[p] = e
  \/ \E p \in Procs : e \in todo[p]

\* No handler stays registered behind the registrar's back, wherever Stop falls
\* into a Topic call: at any time each one has somebody who will unsubscribe it,
\* except those of a Subscribe that reported an error.  When Stop has returned
\* and no Topic call is in flight, nothing is registered.
HandlersHaveOwners == \A e \in registered : e \in orphans \/ Owned(e)

\* The converse: what Topic recorded stays registered until Stop.  (The table is
\* keyed by identifier: one given out twice would be taken away too early.)
ManagedIsRegistered == items \subseteq registered

\* Two calls of Topic never use one identifier: the Subscriber would replace the
\* handler of the first, and the first Unsubscribe would remove both.
IdentifiersDiffer ==
  \A p \in Procs : entry[p] # NoEntry =>
    /\ \A q \in Procs \ {p} : entry[q] # NoEntry => entry[q][2] # entry[p][2]
    /\ \A e \in items : e[2] # entry[p][2]

\* After Stop every managed handler is removed in the end, with all the Topic calls
\* that were in flight; no Topic call begun later leaves one.
StopRemovesHandlers == stopped ~> [](registered \subseteq orphans)

=============================================================================
