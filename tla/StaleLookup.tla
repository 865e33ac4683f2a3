----------------------------- MODULE StaleLookup -----------------------------
(***************************************************************************)
(* What the users of a cached key lookup may rely on: an answer is the     *)
(* value the key has in the base store, or one it had at most Lag ago.     *)
(***************************************************************************)
EXTENDS Naturals

CONSTANTS
  Keys,      \* key identifiers
  Values,    \* what the base store may hold for a key
  First,     \* the values it may hold at the beginning
  Lag        \* for each value, how long it may be answered after its end

VARIABLES
  now,       \* the time
  db,        \* the value of each key in the base store
  past,      \* the values it had before
  ended,     \* when each of those ended
  answer     \* the <<key, value>> that the last step gave as an answer, if it did

vars == <<now, db, past, ended, answer>>

Init ==
  /\ now = 0
  /\ db \in [Keys -> First]
  /\ past = [k \in Keys |-> {}]
  /\ ended = [k \in Keys |-> [v \in Values |-> 0]]
  /\ answer = {}

Tick == now' = now + 1 /\ answer' = {} /\ UNCHANGED <<db, past, ended>>

\* The base store changes; a rotation changes two keys at once.
Change ==
  /\ db' \in [Keys -> Values]
  /\ past' = [k \in Keys |-> IF db'[k] = db[k] THEN past[k] ELSE past[k] \cup {db[k]}]
  /\ ended' = [k \in Keys |-> IF db'[k] = db[k] THEN ended[k]
                              ELSE [ended[k] EXCEPT ![db[k]] = now]]
  /\ answer' = {}
  /\ UNCHANGED now

Fresh(k, v) == v = db[k] \/ (v \in past[k] /\ now <= ended[k][v] + Lag[v])

Answer(k, v) ==
  /\ Fresh(k, v)
  /\ answer' = {<<k, v>>}
  /\ UNCHANGED <<now, db, past, ended>>

NoAnswer == answer' = {} /\ UNCHANGED <<now, db, past, ended>>

Next == Tick \/ Change \/ NoAnswer \/ \E k \in Keys, v \in Values : Answer(k, v)

Spec == Init /\ [][Next]_vars
=============================================================================
