----------------------------- MODULE ApiKeyCache -----------------------------
(***************************************************************************)
(* The two caches in front of the store of API keys                        *)
(* (security/apikey/cache.go): on each node a map in memory, L1, and one   *)
(* Redis, L2, shared by the nodes.  Lookups of one key on one node are     *)
(* joined by a singleflight group.  RevokeKey and RotateKey change the     *)
(* base store, then invalidate the caches from the node they run on.       *)
(*                                                                         *)
(* There is a Redis; without one FindByKeyID and InvalidateKey skip it.    *)
(* A section under the mutex and a call of Redis or of the base store are  *)
(* one step each.  The time of local computation is neglected.             *)
(***************************************************************************)
EXTENDS Naturals, FiniteSets

CONSTANTS
  Nodes,         \* processes of the service
  Keys,          \* key identifiers
  Callers,       \* goroutines that call FindByKeyID
  Admins,        \* goroutines that call RevokeKey and RotateKey
  L1TTL, NegativeTTL, L1MaxEntries,  \* cfg
  L2TTL,         \* cfg too, which nothing reads
  MaxFlight,     \* the longest that a FindByKeyID takes
  Nil,           \* no caller, no key, no node
  MaxTime,       \* bound on the time
  MaxChanges     \* bound on how often the base store changes a key

\* "reissued" is a key that was rotated and kept its identifier: it is live, with
\* another secret.
Values == {"absent", "live", "reissued", "revoked"}

Threads == Callers \cup Admins

ASSUME CacheAssumption ==
  /\ Callers \cap Admins = {}
  /\ Nil \notin Callers \cup Nodes \cup Keys
  /\ {L1TTL, NegativeTTL, L1MaxEntries} \subseteq Nat \ {0}
  /\ {MaxFlight, MaxTime, MaxChanges, L2TTL} \subseteq Nat

VARIABLES
  now,
  db,       \* the base store: what it holds for each key
  l1,       \* node -> the entries of its map
  l2,       \* the entries of Redis
  flight,   \* node, key -> the caller that executes the shared call, or Nil
  g,        \* the place and the local variables of each goroutine
  \* History, for StaleLookup.
  past, ended, answer

store == <<db, past, ended>>
vars == <<now, store, l1, l2, flight, g, answer>>

\* Both maps hold at most one entry for a key.
Entry == [key : Keys, val : Values, expire : Nat]

Places == {"idle", "getL1", "expired", "enter", "wait", "recheck", "reexpired",
           "getL2", "base", "setL1fromL2", "setL1", "setL2",
           "delete", "forget", "del"}

Goroutine ==
  [at     : Places,
   node   : Nodes \cup {Nil},
   key    : Keys \cup {Nil},
   val    : Values,              \* the result it carries
   since  : Nat,                 \* when FindByKeyID was called
   leader : Callers \cup {Nil},  \* the caller whose result it waits for
   after  : Keys \cup {Nil}]     \* the key to be invalidated next

Idle == [at |-> "idle", node |-> Nil, key |-> Nil, val |-> "absent",
         since |-> 0, leader |-> Nil, after |-> Nil]

Goto(t, place) == g' = [g EXCEPT ![t].at = place]
Carry(t, place, v) == g' = [g EXCEPT ![t].at = place, ![t].val = v]

Of(entries, k) == {e \in entries : e.key = k}

\* ttlFor.  The expiry date of a key shortens the life of its entry; an entry for
\* an expired key lives NegativeTTL.
TTLs(v) == IF v = "absent" THEN {NegativeTTL} ELSE 1..L1TTL \cup {NegativeTTL}

Init ==
  /\ now = 0
  /\ db \in [Keys -> {"absent", "live"}]
  /\ l1 = [n \in Nodes |-> {}]
  /\ l2 = {}
  /\ flight = [nk \in Nodes \X Keys |-> Nil]
  /\ g = [t \in Threads |-> Idle]
  /\ past = [k \in Keys |-> {}]
  /\ ended = [k \in Keys |-> [v \in Values |-> 0]]
  /\ answer = {}

-----------------------------------------------------------------------------
(* FindByKeyID up to the shared call.                                      *)

Ask(c, n, k) ==
  /\ g[c].at = "idle"
  /\ g' = [g EXCEPT ![c] = [Idle EXCEPT !.at = "getL1", !.node = n, !.key = k,
                                        !.since = now]]
  /\ answer' = {}
  /\ UNCHANGED <<now, store, l1, l2, flight>>

\* The callers that get the result of c: c and those that joined its call.
Joined(c) == {c} \cup {d \in Callers : g[d].at = "wait" /\ g[d].leader = c}

\* Mutant: the callers that joined a call that was forgotten are left waiting.
ReturnToCurrent(c, vs) ==
  /\ g' = [t \in Threads |->
            IF t = c \/ (t \in Joined(c) /\ \E n \in Nodes, k \in Keys : flight[<<n, k>>] = c)
            THEN Idle ELSE g[t]]
  /\ answer' = {g[c].key} \X vs
  /\ flight' = [nk \in Nodes \X Keys |-> IF flight[nk] = c THEN Nil ELSE flight[nk]]

\* They return, with value v or, for no v, with an error.
Return(c, vs) ==
  /\ g' = [t \in Threads |-> IF t \in Joined(c) THEN Idle ELSE g[t]]
  /\ answer' = {g[c].key} \X vs
  /\ flight' = [nk \in Nodes \X Keys |-> IF flight[nk] = c THEN Nil ELSE flight[nk]]

\* getL1 at one of its two places: a hit, a miss, or an entry that is found
\* expired and will be deleted in a section of its own.
GetL1(c, place, expired, missed) ==
  LET found == Of(l1[g[c].node], g[c].key) IN
  /\ g[c].at = place
  /\ \/ \E e \in found : now <= e.expire /\ Return(c, {e.val})
     \/ /\ IF found = {} THEN Goto(c, missed)
           ELSE \E e \in found : now > e.expire /\ Goto(c, expired)
        /\ answer' = {} /\ UNCHANGED flight
  /\ UNCHANGED <<now, store, l1, l2>>

\* The deletion takes whatever entry the key has by now.
DropExpired(c, place, missed) ==
  /\ g[c].at = place
  /\ l1' = [l1 EXCEPT ![g[c].node] = @ \ Of(@, g[c].key)]
  /\ Goto(c, missed)
  /\ answer' = {}
  /\ UNCHANGED <<now, store, l2, flight>>

\* Mutant: the two cases of a call in flight are swapped.
EnterSwapped(c) ==
  LET n == g[c].node
      k == g[c].key
  IN
  /\ g[c].at = "enter"
  /\ IF flight[<<n, k>>] # Nil
     THEN /\ flight' = [flight EXCEPT ![<<n, k>>] = c]
          /\ Goto(c, "recheck")
     ELSE /\ g' = [g EXCEPT ![c].at = "wait", ![c].leader = flight[<<n, k>>]]
          /\ UNCHANGED flight
  /\ answer' = {}
  /\ UNCHANGED <<now, store, l1, l2>>

\* sf.Do: join the call in flight, or make one.
Enter(c) ==
  LET n == g[c].node
      k == g[c].key
  IN
  /\ g[c].at = "enter"
  /\ IF flight[<<n, k>>] = Nil
     THEN /\ flight' = [flight EXCEPT ![<<n, k>>] = c]
          /\ Goto(c, "recheck")
     ELSE /\ g' = [g EXCEPT ![c].at = "wait", ![c].leader = flight[<<n, k>>]]
          /\ UNCHANGED flight
  /\ answer' = {}
  /\ UNCHANGED <<now, store, l1, l2>>

-----------------------------------------------------------------------------
(* The shared call.                                                        *)

Fail(c) == Return(c, {}) /\ UNCHANGED <<now, store, l1, l2>>

\* Redis does not answer an entry once its time to live is over.  An entry that does not
\* decode would be deleted and count as none; setL2, the only writer, writes none.
GetL2(c) ==
  /\ g[c].at = "getL2"
  /\ LET found == {e \in Of(l2, g[c].key) : now < e.expire} IN
     \/ Fail(c)
     \/ /\ \/ \E e \in found : Carry(c, "setL1fromL2", e.val)
           \/ found = {} /\ Goto(c, "base")
        /\ answer' = {}
        /\ UNCHANGED <<now, store, l1, l2, flight>>

\* Mutant: an error of the base store is taken for a key it does not hold.
BaseErrorIsAbsent(c) ==
  /\ g[c].at = "base"
  /\ Carry(c, "setL1", "absent") \/ Carry(c, "setL1", db[g[c].key])
  /\ answer' = {}
  /\ UNCHANGED <<now, store, l1, l2, flight>>

Base(c) ==
  /\ g[c].at = "base"
  /\ \/ Fail(c)
     \/ /\ Carry(c, "setL1", db[g[c].key])
        /\ answer' = {}
        /\ UNCHANGED <<now, store, l1, l2, flight>>

\* Mutant: the map is never full.
EvictNever(entries) == {entries}

\* A full map gives up one arbitrary entry, which may be that of the key itself.
Evict(entries) ==
  IF Cardinality(entries) < L1MaxEntries THEN {entries}
  ELSE {entries \ {e} : e \in entries}

SetL1(c) ==
  LET n == g[c].node
      k == g[c].key
  IN
  /\ \E kept \in Evict(l1[n]), ttl \in TTLs(g[c].val) :
       l1' = [l1 EXCEPT ![n] =
                (kept \ Of(kept, k))
                  \cup {[key |-> k, val |-> g[c].val, expire |-> now + ttl]}]

\* The result came from Redis: it is not written back there.
FillFromL2(c) ==
  /\ g[c].at = "setL1fromL2"
  /\ SetL1(c)
  /\ Return(c, {g[c].val})
  /\ UNCHANGED <<now, store, l2>>

Fill(c) ==
  /\ g[c].at = "setL1"
  /\ SetL1(c)
  /\ Goto(c, "setL2")
  /\ answer' = {}
  /\ UNCHANGED <<now, store, l2, flight>>

\* Mutant: entries of Redis live L2TTL.
SetL2ForL2TTL(c) ==
  /\ g[c].at = "setL2"
  /\ l2' = (l2 \ Of(l2, g[c].key))
             \cup {[key |-> g[c].key, val |-> g[c].val, expire |-> now + L2TTL]}
  /\ Return(c, {g[c].val})
  /\ UNCHANGED <<now, store, l1>>

\* An error of Redis, after which the entry may be there or not, is that of the
\* lookup, although L1 has the value.
SetL2(c) ==
  /\ g[c].at = "setL2"
  /\ \/ Fail(c)
     \/ /\ \E ttl \in TTLs(g[c].val) :
             l2' = (l2 \ Of(l2, g[c].key))
                     \cup {[key |-> g[c].key, val |-> g[c].val, expire |-> now + ttl]}
        /\ Return(c, {g[c].val}) \/ Return(c, {})
        /\ UNCHANGED <<now, store, l1>>

-----------------------------------------------------------------------------
(* CachedRevoker and CachedRotator.                                        *)

\* The base store takes the changes new, a function on some of the keys.
Write(new) ==
  LET changed == {k \in DOMAIN new : new[k] # db[k]} IN
  /\ \A k \in changed : Cardinality(past[k]) < MaxChanges
  /\ db' = [k \in Keys |-> IF k \in changed THEN new[k] ELSE db[k]]
  /\ past' = [k \in Keys |-> IF k \in changed THEN past[k] \cup {db[k]} ELSE past[k]]
  /\ ended' = [k \in Keys |-> IF k \in changed
                              THEN [ended[k] EXCEPT ![db[k]] = now]
                              ELSE ended[k]]

\* The application issues a key: no cache is told.
Issue(k) ==
  /\ db[k] = "absent"
  /\ Write([x \in {k} |-> "live"])
  /\ answer' = {}
  /\ UNCHANGED <<now, l1, l2, flight, g>>

\* The key to be invalidated first, and the one after it, if any.
Invalidating(a, n, k, next) ==
  g' = [g EXCEPT ![a] = [Idle EXCEPT !.at = "delete", !.node = n, !.key = k,
                                     !.after = next]]

\* base.RevokeKey succeeded, or returned an error although it had been executed.
\* A key that is revoked already can be revoked again, for the invalidation.
Revoke(a, n, k) ==
  /\ g[a].at = "idle"
  /\ db[k] # "absent"
  /\ Write([x \in {k} |-> "revoked"])
  /\ Invalidating(a, n, k, Nil) \/ UNCHANGED g
  /\ answer' = {}
  /\ UNCHANGED <<now, l1, l2, flight>>

\* base.RotateKey issues a key in the place of k, with the identifier of k or with
\* another, and then it revokes k.
Rotate(a, n, k, new) ==
  /\ g[a].at = "idle"
  /\ db[k] = "live"
  /\ \/ /\ new = k
        /\ Write([x \in {k} |-> "reissued"])
        /\ Invalidating(a, n, k, Nil) \/ UNCHANGED g
     \/ /\ db[new] = "absent"
        /\ Write([x \in {k, new} |-> IF x = k THEN "revoked" ELSE "live"])
        /\ Invalidating(a, n, k, new) \/ UNCHANGED g
  /\ answer' = {}
  /\ UNCHANGED <<now, l1, l2, flight>>

\* InvalidateKey: the map, the singleflight group, Redis.
Delete(a) ==
  /\ g[a].at = "delete"
  /\ l1' = [l1 EXCEPT ![g[a].node] = @ \ Of(@, g[a].key)]
  /\ Goto(a, "forget")
  /\ answer' = {}
  /\ UNCHANGED <<now, store, l2, flight>>

Forget(a) ==
  /\ g[a].at = "forget"
  /\ flight' = [flight EXCEPT ![<<g[a].node, g[a].key>>] = Nil]
  /\ Goto(a, "del")
  /\ answer' = {}
  /\ UNCHANGED <<now, store, l1, l2>>

\* An error, after which the entry may be there or not, ends the whole call.
Del(a) ==
  /\ g[a].at = "del"
  /\ \/ /\ l2' = l2 \ Of(l2, g[a].key)
        /\ IF g[a].after = Nil THEN g' = [g EXCEPT ![a] = Idle]
           ELSE Invalidating(a, g[a].node, g[a].after, Nil)
     \/ /\ g' = [g EXCEPT ![a] = Idle]
        /\ l2' = l2 \ Of(l2, g[a].key) \/ l2' = l2
  /\ answer' = {}
  /\ UNCHANGED <<now, store, l1, flight>>

-----------------------------------------------------------------------------
\* Time passes, no call of FindByKeyID taking more than MaxFlight.
Tick ==
  /\ now < MaxTime
  /\ \A c \in Callers : g[c].at # "idle" => now < g[c].since + MaxFlight
  /\ now' = now + 1
  /\ answer' = {}
  /\ UNCHANGED <<store, l1, l2, flight, g>>

FindStep(c) ==
  \/ GetL1(c, "getL1", "expired", "enter")
  \/ DropExpired(c, "expired", "enter")
  \/ Enter(c)
  \/ GetL1(c, "recheck", "reexpired", "getL2")
  \/ DropExpired(c, "reexpired", "getL2")
  \/ GetL2(c) \/ Base(c) \/ FillFromL2(c) \/ Fill(c) \/ SetL2(c)

InvalidateStep(a) == Delete(a) \/ Forget(a) \/ Del(a)

Next ==
  \/ Tick
  \/ \E k \in Keys : Issue(k)
  \/ \E c \in Callers, n \in Nodes, k \in Keys : Ask(c, n, k)
  \/ \E c \in Callers : FindStep(c)
  \/ \E a \in Admins, n \in Nodes, k \in Keys :
       Revoke(a, n, k) \/ \E new \in Keys : Rotate(a, n, k, new)
  \/ \E a \in Admins : InvalidateStep(a)

Spec == Init /\ [][Next]_vars

-----------------------------------------------------------------------------
(* Properties.                                                             *)

\* Type correctness; a caller that waits, waits for a caller.
TypeOK ==
  /\ now \in 0..MaxTime
  /\ db \in [Keys -> Values]
  /\ l1 \in [Nodes -> SUBSET Entry]
  /\ l2 \subseteq Entry
  /\ flight \in [Nodes \X Keys -> Callers \cup {Nil}]
  /\ g \in [Threads -> Goroutine]
  /\ \A c \in Callers : g[c].at = "wait" => g[c].leader \in Callers
  /\ past \in [Keys -> SUBSET Values]
  /\ ended \in [Keys -> [Values -> Nat]]
  /\ answer \subseteq Keys \X Values

\* However lookups interleave, the map of a node never outgrows its limit.
MapIsBounded == \A n \in Nodes : Cardinality(l1[n]) <= L1MaxEntries

\* A value is put into L1 at most MaxFlight after its lookup began, and what it was
\* read from, the base store or an entry of Redis that was written in the same
\* way, had it then.
MaxTTL == IF L1TTL > NegativeTTL THEN L1TTL ELSE NegativeTTL

Lag == [v \in Values |-> 2 * (MaxFlight + (IF v = "absent" THEN NegativeTTL ELSE MaxTTL))]

Promise == INSTANCE StaleLookup WITH First <- {"absent", "live"}

\* Whatever fails or overlaps, no answer is older than two lives of an entry and
\* two lookups: a revoked key is refused everywhere from then on, and a new key
\* is found.  L1 is filled from Redis with a whole new time to live, hence twice.
AnswersAreFresh == Promise!Spec

\* Everything Redis holds of key k and every lookup that is about to store a value
\* of it has the value of the base store.
Current(k) ==
  /\ \A e \in Of(l2, k) : e.val = db[k]
  /\ \A c \in Callers :
       (g[c].key = k /\ g[c].at \in {"setL1fromL2", "setL1", "setL2"}) => g[c].val = db[k]

\* An invalidation that leaves nothing stale in Redis or in flight is final: until
\* the key changes again no stale value enters Redis or the map of a node.
InvalidationIsFinal ==
  [][\A k \in Keys : (Current(k) /\ db'[k] = db[k]) =>
       /\ Current(k)'
       /\ \A n \in Nodes : \A e \in Of(l1'[n], k) : e \in l1[n] \/ e.val = db[k]]_vars

\* A caller that waits, waits for one that executes the shared call of its key on
\* its node, whatever Forget has removed from the group meanwhile: nobody waits
\* for a result that nobody will give.
WaitersAreServed ==
  \A c \in Callers : g[c].at = "wait" =>
    \E d \in Callers :
      /\ g[c].leader = d
      /\ g[d].at \in {"recheck", "reexpired", "getL2", "base", "setL1fromL2", "setL1", "setL2"}
      /\ <<g[d].node, g[d].key>> = <<g[c].node, g[c].key>>

=============================================================================
