------------------------- MODULE ApiKeyCacheProofs -------------------------
(***************************************************************************)
(* Theorems about ApiKeyCache, for any nodes, keys, callers and times to   *)
(* live: it implements StaleLookup, its maps are bounded, nobody waits for *)
(* a result that nobody gives, and an invalidation that leaves nothing     *)
(* stale behind is final.                                                  *)
(***************************************************************************)
EXTENDS ApiKeyCache, FiniteSetTheorems, TLAPS

\* The places of the caller that executes the shared call.
Leading == {"recheck", "reexpired", "getL2", "base", "setL1fromL2", "setL1", "setL2"}

CallsOK ==
  /\ \A c \in Callers : g[c].at \in {"idle", "getL1", "expired", "enter", "wait"} \cup Leading
  /\ \A a \in Admins : g[a].at \in {"idle", "delete", "forget", "del"}
  /\ \A t \in Threads : g[t].at # "idle" => g[t].node \in Nodes /\ g[t].key \in Keys

Typed == TypeOK /\ CallsOK

LEMMA Constants ==
  /\ L1TTL \in Nat \ {0} /\ NegativeTTL \in Nat \ {0} /\ L1MaxEntries \in Nat \ {0}
  /\ MaxFlight \in Nat /\ MaxTime \in Nat
  /\ Callers \cap Admins = {} /\ Nil \notin Callers /\ Nil \notin Nodes /\ Nil \notin Keys
BY CacheAssumption DEF CacheAssumption

LEMMA TTLsAreNumbers ==
  ASSUME NEW v \in Values, NEW ttl \in TTLs(v)
  PROVE  /\ ttl \in Nat
         /\ MaxTTL \in Nat
         /\ ttl <= (IF v = "absent" THEN NegativeTTL ELSE MaxTTL)
BY Constants DEF TTLs, MaxTTL

-----------------------------------------------------------------------------
(* The base store: every step is a step of StaleLookup there.              *)

StoreMoves ==
  /\ db' \in [Keys -> Values]
  /\ past' = [k \in Keys |-> IF db'[k] = db[k] THEN past[k] ELSE past[k] \cup {db[k]}]
  /\ ended' = [k \in Keys |-> IF db'[k] = db[k] THEN ended[k]
                              ELSE [ended[k] EXCEPT ![db[k]] = now]]

LEMMA WriteMoves ==
  ASSUME Typed, NEW new, DOMAIN new \subseteq Keys,
         \A k \in DOMAIN new : new[k] \in Values, Write(new)
  PROVE  StoreMoves
<1> DEFINE changed == {k \in DOMAIN new : new[k] # db[k]}
<1>1. db' = [k \in Keys |-> IF k \in changed THEN new[k] ELSE db[k]]
  BY DEF Write
<1>2. db' \in [Keys -> Values]
  BY <1>1 DEF Typed, TypeOK
<1>3. \A k \in Keys : k \in changed <=> db'[k] # db[k]
  BY <1>1
<1>4. past' = [k \in Keys |-> IF k \in changed THEN past[k] \cup {db[k]} ELSE past[k]]
  BY DEF Write
<1>5. ended' = [k \in Keys |-> IF k \in changed THEN [ended[k] EXCEPT ![db[k]] = now]
                               ELSE ended[k]]
  BY DEF Write
<1> HIDE DEF changed
<1>6. past' = [k \in Keys |-> IF db'[k] = db[k] THEN past[k] ELSE past[k] \cup {db[k]}]
  BY <1>3, <1>4
<1>7. ended' = [k \in Keys |-> IF db'[k] = db[k] THEN ended[k]
                               ELSE [ended[k] EXCEPT ![db[k]] = now]]
  BY <1>3, <1>5
<1> QED BY <1>2, <1>6, <1>7 DEF StoreMoves

LEMMA UnchangedMoves ==
  ASSUME Typed, UNCHANGED store
  PROVE  StoreMoves
BY DEF Typed, TypeOK, StoreMoves, store

LEMMA StoreTypeKept ==
  ASSUME Typed, StoreMoves
  PROVE  /\ db' \in [Keys -> Values]
         /\ past' \in [Keys -> SUBSET Values]
         /\ ended' \in [Keys -> [Values -> Nat]]
<1> USE DEF Typed, TypeOK, StoreMoves
<1>1. \A k \in Keys : db[k] \in Values /\ now \in Nat /\ [ended[k] EXCEPT ![db[k]] = now] \in [Values -> Nat]
  BY Constants
<1> QED BY <1>1

-----------------------------------------------------------------------------
(* Types.                                                                  *)

LEMMA InitTyped == Init => Typed
BY Constants
DEF Init, Typed, TypeOK, CallsOK, Leading, Idle, Goroutine, Places, Values, Threads

\* A call goes on to a place; nobody else moves.
Moves(c, to) ==
  /\ g' \in [Threads -> Goroutine]
  /\ g'[c].at = to /\ g'[c].node = g[c].node /\ g'[c].key = g[c].key
  /\ g'[c].since = g[c].since
  /\ \A t \in Threads \ {c} : g'[t] = g[t]

LEMMA GotoMoves ==
  ASSUME Typed, NEW t \in Threads, NEW place \in Places, Goto(t, place)
  PROVE  Moves(t, place) /\ g'[t].val = g[t].val
BY DEF Typed, TypeOK, Goto, Moves, Goroutine

LEMMA CarryMoves ==
  ASSUME Typed, NEW t \in Threads, NEW place \in Places, NEW v \in Values, Carry(t, place, v)
  PROVE  Moves(t, place) /\ g'[t].val = v
BY DEF Typed, TypeOK, Carry, Moves, Goroutine

LEMMA ReturnEffect ==
  ASSUME Typed, NEW c \in Callers, NEW vs, vs \subseteq Values, g[c].key \in Keys, Return(c, vs)
  PROVE  /\ g' \in [Threads -> Goroutine]
         /\ \A t \in Threads : g'[t] = IF t \in Joined(c) THEN Idle ELSE g[t]
         /\ flight' \in [Nodes \X Keys -> Callers \cup {Nil}]
         /\ \A nk \in Nodes \X Keys : flight'[nk] = IF flight[nk] = c THEN Nil ELSE flight[nk]
         /\ answer' = {g[c].key} \X vs /\ answer' \subseteq Keys \X Values
<1>1. Idle \in Goroutine
  BY DEF Idle, Goroutine, Places, Values
<1>2. flight' = [nk \in Nodes \X Keys |-> IF flight[nk] = c THEN Nil ELSE flight[nk]]
  BY DEF Return
<1>3. \A nk \in Nodes \X Keys : flight[nk] \in Callers \cup {Nil}
  BY DEF Typed, TypeOK
<1> QED BY <1>1, <1>2, <1>3 DEF Return, Typed, TypeOK, Threads

-----------------------------------------------------------------------------
(* What a step does to the calls and to the group of shared calls.         *)

Joins(c) ==
  /\ g[c].at = "enter" /\ flight[<<g[c].node, g[c].key>>] # Nil
  /\ Moves(c, "wait")
  /\ g'[c].leader = flight[<<g[c].node, g[c].key>>]
  /\ UNCHANGED flight /\ answer' = {}

Leads(c) ==
  /\ g[c].at = "enter" /\ flight[<<g[c].node, g[c].key>>] = Nil
  /\ Moves(c, "recheck")
  /\ flight' = [flight EXCEPT ![<<g[c].node, g[c].key>>] = c] /\ answer' = {}

GoesOn(c) ==
  /\ \/ \E to \in {"expired", "enter"} : g[c].at \in {"getL1", "expired"} /\ Moves(c, to)
     \/ \E to \in Leading : g[c].at \in Leading /\ Moves(c, to)
  /\ UNCHANGED flight /\ answer' = {}

Answers(c) ==
  /\ g[c].at \in {"getL1"} \cup Leading
  /\ \E vs \in SUBSET Values : Return(c, vs)

LEMMA FindStepMoves ==
  ASSUME Typed, NEW c \in Callers, FindStep(c)
  PROVE  /\ Joins(c) \/ Leads(c) \/ GoesOn(c) \/ Answers(c)
         /\ UNCHANGED <<now, store>>
         /\ g[c].node \in Nodes /\ g[c].key \in Keys
<1>0. c \in Threads /\ g[c].node \in Nodes /\ g[c].key \in Keys
      /\ l1[g[c].node] \subseteq Entry /\ l2 \subseteq Entry /\ g[c] \in Goroutine
      /\ db[g[c].key] \in Values
  BY DEF FindStep, GetL1, DropExpired, Enter, GetL2, Base, FillFromL2, Fill, SetL2, Typed,
     TypeOK, CallsOK, Threads
<1>a. UNCHANGED <<now, store>>
  BY DEF FindStep, GetL1, DropExpired, Enter, GetL2, Base, FillFromL2, Fill, SetL2, Fail
<1> SUFFICES Joins(c) \/ Leads(c) \/ GoesOn(c) \/ Answers(c)
  BY <1>0, <1>a
<1>1. ASSUME NEW from, NEW expired, NEW missed, GetL1(c, from, expired, missed),
             \/ from = "getL1" /\ expired = "expired" /\ missed = "enter"
             \/ from = "recheck" /\ expired = "reexpired" /\ missed = "getL2"
      PROVE  GoesOn(c) \/ Answers(c)
  <2>1. CASE \E e \in Of(l1[g[c].node], g[c].key) : Return(c, {e.val})
    <3>1. PICK e \in l1[g[c].node] : Return(c, {e.val})
      BY <2>1 DEF Of
    <3>2. {e.val} \in SUBSET Values
      BY <1>0, <3>1 DEF Entry
    <3>3. g[c].at \in {"getL1"} \cup Leading
      BY <1>1 DEF GetL1, Leading
    <3> QED BY <3>1, <3>2, <3>3 DEF Answers
  <2>2. CASE (Goto(c, missed) \/ Goto(c, expired)) /\ answer' = {} /\ UNCHANGED flight
    <3>1. g[c].at = from /\ missed \in Places /\ expired \in Places
      BY <1>1 DEF GetL1, Places
    <3>2. Moves(c, missed) \/ Moves(c, expired)
      BY <1>0, <2>2, <3>1, GotoMoves
    <3> QED BY <1>1, <2>2, <3>1, <3>2 DEF GoesOn, Leading
  <2> QED BY <1>1, <2>1, <2>2 DEF GetL1
<1>2. ASSUME NEW from, NEW missed, DropExpired(c, from, missed),
             \/ from = "expired" /\ missed = "enter"
             \/ from = "reexpired" /\ missed = "getL2"
      PROVE  GoesOn(c)
  <2>1. Moves(c, missed)
    BY <1>0, <1>2, GotoMoves DEF DropExpired, Places
  <2> QED BY <1>2, <2>1 DEF DropExpired, GoesOn, Leading
<1>3. CASE Enter(c)
  <2>1. CASE flight[<<g[c].node, g[c].key>>] = Nil
    <3>1. Moves(c, "recheck")
      BY <1>0, <1>3, <2>1, GotoMoves DEF Enter, Places
    <3> QED BY <1>3, <2>1, <3>1 DEF Enter, Leads
  <2>2. CASE flight[<<g[c].node, g[c].key>>] # Nil
    <3>1. flight[<<g[c].node, g[c].key>>] \in Callers
      BY <1>0, <2>2 DEF Typed, TypeOK
    <3>2. g' = [g EXCEPT ![c].at = "wait", ![c].leader = flight[<<g[c].node, g[c].key>>]]
      BY <1>3, <2>2 DEF Enter
    <3>3. Moves(c, "wait") /\ g'[c].leader = flight[<<g[c].node, g[c].key>>]
      BY <1>0, <1>3, <3>1, <3>2 DEF Enter, Moves, Typed, TypeOK, Goroutine, Places
    <3> QED BY <1>3, <2>2, <3>3 DEF Enter, Joins
  <2> QED BY <2>1, <2>2
<1>4. ASSUME NEW vs, vs \subseteq Values, Return(c, vs), g[c].at \in Leading
      PROVE  Answers(c)
  BY <1>4 DEF Answers
<1>5. CASE GetL2(c)
  <2>1. CASE Fail(c)
    BY <1>4, <1>5, <2>1 DEF Fail, GetL2, Leading
  <2>2. CASE ~Fail(c)
    <3>1. \/ \E e \in Of(l2, g[c].key) : Carry(c, "setL1fromL2", e.val)
          \/ Goto(c, "base")
      BY <1>5, <2>2 DEF GetL2
    <3>2. Moves(c, "setL1fromL2") \/ Moves(c, "base")
      BY <1>0, <1>5, <3>1, CarryMoves, GotoMoves DEF GetL2, Of, Entry, Places
    <3> QED BY <1>5, <2>2, <3>2 DEF GetL2, GoesOn, Leading
  <2> QED BY <2>1, <2>2
<1>6. CASE Base(c)
  <2>1. CASE Fail(c)
    BY <1>4, <1>6, <2>1 DEF Fail, Base, Leading
  <2>2. CASE Carry(c, "setL1", db[g[c].key]) /\ answer' = {} /\ UNCHANGED flight
    <3>1. Moves(c, "setL1")
      BY <1>0, <1>6, <2>2, CarryMoves DEF Base, Places
    <3> QED BY <1>6, <2>2, <3>1 DEF Base, GoesOn, Leading
  <2> QED BY <1>6, <2>1, <2>2 DEF Base
<1>7. CASE FillFromL2(c)
  BY <1>0, <1>4, <1>7 DEF FillFromL2, Leading, Goroutine
<1>8. CASE Fill(c)
  <2>1. Moves(c, "setL2")
    BY <1>0, <1>8, GotoMoves DEF Fill, Places
  <2> QED BY <1>8, <2>1 DEF Fill, GoesOn, Leading
<1>9. CASE SetL2(c)
  <2>1. Return(c, {}) \/ Return(c, {g[c].val})
    BY <1>9 DEF SetL2, Fail
  <2> QED BY <1>0, <1>4, <1>9, <2>1 DEF SetL2, Leading, Goroutine
<1> QED BY <1>1, <1>2, <1>3, <1>5, <1>6, <1>7, <1>8, <1>9 DEF FindStep
-----------------------------------------------------------------------------
(* What a step does to the caches, and what it carries and answers.        *)

\* An entry that c puts into a cache now.
Filled(c, e) ==
  /\ e \in Entry /\ e.key = g[c].key /\ e.val = g[c].val
  /\ \E ttl \in TTLs(e.val) : e.expire = now + ttl

LEMMA SetL1Fills ==
  ASSUME Typed, NEW c \in Callers, g[c].node \in Nodes, g[c].key \in Keys, SetL1(c)
  PROVE  /\ l1' \in [Nodes -> SUBSET Entry]
         /\ \A n \in Nodes : \A e \in l1'[n] : e \in l1[n] \/ Filled(c, e)
<1> DEFINE entry(ttl) == [key |-> g[c].key, val |-> g[c].val, expire |-> now + ttl]
<1>1. PICK kept \in Evict(l1[g[c].node]), ttl \in TTLs(g[c].val) :
        l1' = [l1 EXCEPT ![g[c].node] = (kept \ Of(kept, g[c].key)) \cup {entry(ttl)}]
  BY DEF SetL1
<1>2. kept \subseteq l1[g[c].node]
  BY DEF Evict
<1>3. g[c].val \in Values /\ now \in Nat /\ ttl \in Nat
  BY TTLsAreNumbers, Constants DEF Typed, TypeOK, Goroutine, Threads
<1>4. entry(ttl) \in Entry /\ Filled(c, entry(ttl))
  BY <1>3 DEF Entry, Filled
<1>5. (kept \ Of(kept, g[c].key)) \cup {entry(ttl)} \subseteq Entry
  BY <1>2, <1>4 DEF Typed, TypeOK
<1> HIDE DEF entry
<1>6. \A n \in Nodes : \A e \in l1'[n] : e \in l1[n] \/ e = entry(ttl)
  BY <1>1, <1>2 DEF Typed, TypeOK
<1> QED BY <1>1, <1>4, <1>5, <1>6 DEF Typed, TypeOK

LEMMA FindStepCaches ==
  ASSUME Typed, NEW c \in Callers, FindStep(c)
  PROVE  /\ l1' \in [Nodes -> SUBSET Entry] /\ l2' \subseteq Entry
         /\ \A n \in Nodes : \A e \in l1'[n] :
              e \in l1[n] \/ (g[c].at \in {"setL1fromL2", "setL1"} /\ Filled(c, e))
         /\ \A e \in l2' : e \in l2 \/ (g[c].at = "setL2" /\ Filled(c, e))
<1>0. /\ g[c].node \in Nodes /\ g[c].key \in Keys /\ g[c].val \in Values /\ now \in Nat
      /\ l1 \in [Nodes -> SUBSET Entry] /\ l2 \subseteq Entry
  BY FindStepMoves, Constants DEF Typed, TypeOK, Goroutine, Threads
<1>1. CASE UNCHANGED <<l1, l2>>
  BY <1>0, <1>1
<1>2. ASSUME NEW place, NEW missed, DropExpired(c, place, missed)
      PROVE  l1' \in [Nodes -> SUBSET Entry] /\ l2' = l2 /\ \A n \in Nodes : l1'[n] \subseteq l1[n]
  BY <1>0, <1>2 DEF DropExpired
<1>3. CASE FillFromL2(c) \/ Fill(c)
  <2>1. SetL1(c) /\ l2' = l2 /\ g[c].at \in {"setL1fromL2", "setL1"}
    BY <1>3 DEF FillFromL2, Fill
  <2> QED BY <1>0, <2>1, SetL1Fills
<1>4. CASE SetL2(c) /\ ~Fail(c)
  <2> DEFINE entry(ttl) == [key |-> g[c].key, val |-> g[c].val, expire |-> now + ttl]
  <2>1. PICK ttl \in TTLs(g[c].val) : l2' = (l2 \ Of(l2, g[c].key)) \cup {entry(ttl)}
    BY <1>4 DEF SetL2
  <2>2. l1' = l1 /\ g[c].at = "setL2"
    BY <1>4 DEF SetL2
  <2>3. ttl \in Nat
    BY <1>0, TTLsAreNumbers
  <2>4. entry(ttl) \in Entry /\ Filled(c, entry(ttl))
    BY <1>0, <2>3 DEF Entry, Filled
  <2> HIDE DEF entry
  <2>5. l2' \subseteq Entry /\ \A e \in l2' : e \in l2 \/ e = entry(ttl)
    BY <1>0, <2>1, <2>4
  <2> QED BY <1>0, <2>2, <2>4, <2>5
<1>5. \/ UNCHANGED <<l1, l2>>
      \/ DropExpired(c, "expired", "enter") \/ DropExpired(c, "reexpired", "getL2")
      \/ FillFromL2(c) \/ Fill(c) \/ (SetL2(c) /\ ~Fail(c))
  BY DEF FindStep, GetL1, Enter, GetL2, Base, SetL2, Fail
<1>6. CASE DropExpired(c, "expired", "enter") \/ DropExpired(c, "reexpired", "getL2")
  <2>1. l1' \in [Nodes -> SUBSET Entry] /\ l2' = l2 /\ \A n \in Nodes : l1'[n] \subseteq l1[n]
    BY <1>2, <1>6
  <2> QED BY <1>0, <2>1
<1> QED BY <1>1, <1>3, <1>4, <1>5, <1>6

LEMMA FindStepCarries ==
  ASSUME Typed, NEW c \in Callers, FindStep(c)
  PROVE  /\ g'[c].at = "setL1fromL2" =>
              \E e \in l2 : e.key = g[c].key /\ e.val = g'[c].val /\ now < e.expire
         /\ g'[c].at = "setL1" => g'[c].val = db[g[c].key]
         /\ g'[c].at = "setL2" => g[c].at = "setL1" /\ g'[c].val = g[c].val
<1>0. /\ c \in Threads /\ g[c].key \in Keys /\ l2 \subseteq Entry /\ db[g[c].key] \in Values
      /\ c \in Joined(c) /\ Idle.at = "idle"
      /\ g \in [Threads -> Goroutine]
  BY FindStepMoves DEF Typed, TypeOK, Threads, Joined, Idle
<1>1. ASSUME NEW vs, Return(c, vs)
      PROVE  g'[c].at = "idle"
  BY <1>0, <1>1 DEF Return
<1>2. ASSUME NEW place, Goto(c, place)
      PROVE  g'[c].at = place /\ g'[c].val = g[c].val
  BY <1>0, <1>2 DEF Goto, Goroutine
<1>3. ASSUME NEW place, NEW v, Carry(c, place, v)
      PROVE  g'[c].at = place /\ g'[c].val = v
  BY <1>0, <1>3 DEF Carry, Goroutine
<1>4. CASE GetL1(c, "getL1", "expired", "enter") \/ GetL1(c, "recheck", "reexpired", "getL2")
  <2>1. \/ \E vs : Return(c, vs)
        \/ \E place \in {"expired", "enter", "reexpired", "getL2"} : Goto(c, place)
    BY <1>4 DEF GetL1
  <2> QED BY <1>1, <1>2, <2>1
<1>5. CASE DropExpired(c, "expired", "enter") \/ DropExpired(c, "reexpired", "getL2")
  BY <1>2, <1>5 DEF DropExpired
<1>6. CASE Enter(c)
  <2>1. Goto(c, "recheck") \/ g'[c].at = "wait"
    BY <1>0, <1>6 DEF Enter, Goroutine
  <2> QED BY <1>2, <2>1
<1>7. CASE GetL2(c)
  <2>1. \/ Return(c, {}) \/ Goto(c, "base")
        \/ \E e \in l2 : e.key = g[c].key /\ now < e.expire /\ Carry(c, "setL1fromL2", e.val)
    BY <1>7 DEF GetL2, Fail, Of
  <2> QED BY <1>1, <1>2, <1>3, <2>1
<1>8. CASE Base(c)
  BY <1>1, <1>3, <1>8 DEF Base, Fail
<1>9. CASE FillFromL2(c) \/ SetL2(c)
  BY <1>1, <1>9 DEF FillFromL2, SetL2, Fail
<1>10. CASE Fill(c)
  BY <1>2, <1>10 DEF Fill
<1> QED BY <1>4, <1>5, <1>6, <1>7, <1>8, <1>9, <1>10 DEF FindStep

LEMMA FindStepAnswers ==
  ASSUME Typed, NEW c \in Callers, FindStep(c)
  PROVE  \/ answer' = {}
         \/ \E v \in Values :
              /\ answer' = {<<g[c].key, v>>}
              /\ \/ \E e \in l1[g[c].node] : e.key = g[c].key /\ v = e.val /\ now <= e.expire
                 \/ g[c].at \in {"setL1fromL2", "setL2"} /\ v = g[c].val
<1>0. /\ g[c].node \in Nodes /\ g[c].key \in Keys /\ g[c].val \in Values
      /\ l1[g[c].node] \subseteq Entry
  BY FindStepMoves DEF Typed, TypeOK, Goroutine, Threads
<1>1. ASSUME NEW v \in Values, Return(c, {v})
      PROVE  answer' = {<<g[c].key, v>>}
  BY <1>1 DEF Return
<1>2. Return(c, {}) => answer' = {}
  BY DEF Return
<1>3. ASSUME GetL1(c, "getL1", "expired", "enter") \/ GetL1(c, "recheck", "reexpired", "getL2"),
             answer' # {}
      PROVE  \E e \in l1[g[c].node] :
               e.key = g[c].key /\ now <= e.expire /\ answer' = {<<g[c].key, e.val>>}
  <2>1. PICK e \in l1[g[c].node] : e.key = g[c].key /\ now <= e.expire /\ Return(c, {e.val})
    BY <1>3 DEF GetL1, Of
  <2>2. e.val \in Values
    BY <1>0 DEF Entry
  <2> QED BY <1>1, <2>1, <2>2
<1>4. CASE FillFromL2(c)
  BY <1>0, <1>1, <1>4 DEF FillFromL2
<1>5. CASE SetL2(c)
  BY <1>0, <1>1, <1>2, <1>5 DEF SetL2, Fail
<1>6. CASE GetL1(c, "getL1", "expired", "enter") \/ GetL1(c, "recheck", "reexpired", "getL2")
  BY <1>0, <1>3, <1>6 DEF Entry
<1>7. CASE \/ DropExpired(c, "expired", "enter") \/ DropExpired(c, "reexpired", "getL2")
           \/ Enter(c) \/ GetL2(c) \/ Base(c) \/ Fill(c)
  BY <1>2, <1>7 DEF DropExpired, Enter, GetL2, Base, Fill, Fail
<1> QED BY <1>4, <1>5, <1>6, <1>7 DEF FindStep
-----------------------------------------------------------------------------
(* The steps that are not of a lookup.                                     *)

CachesShrink ==
  /\ l1' \in [Nodes -> SUBSET Entry] /\ l2' \subseteq l2
  /\ \A n \in Nodes : l1'[n] \subseteq l1[n]

\* An invalidation goes on; it removes calls from the group.
AdminMoves(a) ==
  /\ g' \in [Threads -> Goroutine] /\ \A t \in Threads \ {a} : g'[t] = g[t]
  /\ g'[a].at \in {"idle", "delete", "forget", "del"}
  /\ g'[a].at # "idle" => g'[a].node \in Nodes /\ g'[a].key \in Keys
  /\ flight' \in [Nodes \X Keys -> Callers \cup {Nil}]
  /\ \A nk \in Nodes \X Keys : flight'[nk] \in {flight[nk], Nil}

Asks(c) ==
  /\ g[c].at = "idle"
  /\ \E n \in Nodes, k \in Keys :
       g' = [g EXCEPT ![c] = [Idle EXCEPT !.at = "getL1", !.node = n, !.key = k, !.since = now]]
  /\ UNCHANGED flight

TimePasses ==
  /\ now' = now + 1 /\ now < MaxTime
  /\ \A c \in Callers : g[c].at # "idle" => now < g[c].since + MaxFlight
  /\ UNCHANGED <<g, flight>>

Rest ==
  /\ StoreMoves /\ CachesShrink /\ answer' = {}
  /\ \/ UNCHANGED store /\ TimePasses
     \/ now' = now /\ UNCHANGED <<g, flight>>
     \/ now' = now /\ \E c \in Callers : Asks(c)
     \/ now' = now /\ \E a \in Admins : AdminMoves(a)

LEMMA GoroutineIdle ==
  ASSUME NEW place \in Places, NEW n \in Nodes, NEW k \in Keys, NEW next \in Keys \cup {Nil},
         NEW time \in Nat
  PROVE  /\ Idle \in Goroutine /\ Idle.at = "idle"
         /\ [Idle EXCEPT !.at = place, !.node = n, !.key = k, !.after = next] \in Goroutine
         /\ [Idle EXCEPT !.at = place, !.node = n, !.key = k, !.since = time] \in Goroutine
BY DEF Idle, Goroutine, Places, Values

LEMMA InvalidatingMoves ==
  ASSUME Typed, NEW a \in Admins, NEW n \in Nodes, NEW k \in Keys, NEW next \in Keys \cup {Nil},
         Invalidating(a, n, k, next) \/ g' = [g EXCEPT ![a] = Idle] \/ UNCHANGED g,
         UNCHANGED flight
  PROVE  AdminMoves(a)
<1>0. a \in Threads /\ "delete" \in Places /\ g \in [Threads -> Goroutine]
      /\ flight \in [Nodes \X Keys -> Callers \cup {Nil}]
  BY DEF Threads, Places, Typed, TypeOK
<1>1. CASE Invalidating(a, n, k, next)
  <2> DEFINE called == [Idle EXCEPT !.at = "delete", !.node = n, !.key = k, !.after = next]
  <2>1. called \in Goroutine
    BY <1>0, GoroutineIdle, Constants
  <2>2. called.at = "delete" /\ called.node = n /\ called.key = k
    BY DEF Idle
  <2>3. g' = [g EXCEPT ![a] = called]
    BY <1>1 DEF Invalidating
  <2> HIDE DEF called
  <2> QED BY <1>0, <2>1, <2>2, <2>3 DEF AdminMoves
<1>2. CASE g' = [g EXCEPT ![a] = Idle]
  <2>1. Idle \in Goroutine /\ Idle.at = "idle"
    BY <1>0, GoroutineIdle, Constants
  <2> QED BY <1>0, <1>2, <2>1 DEF AdminMoves
<1>3. CASE UNCHANGED g
  BY <1>0, <1>3 DEF AdminMoves, Typed, CallsOK
<1> QED BY <1>1, <1>2, <1>3

LEMMA AdminSteps ==
  ASSUME Typed, NEW a \in Admins,
         \/ InvalidateStep(a)
         \/ \E n \in Nodes, k \in Keys :
              Revoke(a, n, k) \/ \E new \in Keys : Rotate(a, n, k, new)
  PROVE  Rest
<1>0. /\ a \in Threads /\ g \in [Threads -> Goroutine] /\ l1 \in [Nodes -> SUBSET Entry]
      /\ flight \in [Nodes \X Keys -> Callers \cup {Nil}]
  BY DEF Threads, Typed, TypeOK
<1>1. CASE InvalidateStep(a)
  <2>0. g[a].node \in Nodes /\ g[a].key \in Keys /\ UNCHANGED <<now, store>> /\ answer' = {}
    BY <1>0, <1>1 DEF InvalidateStep, Delete, Forget, Del, Typed, CallsOK
  <2>1. StoreMoves
    BY <2>0, UnchangedMoves
  <2>2. CachesShrink
    BY <1>0, <1>1, <2>0 DEF InvalidateStep, Delete, Forget, Del, CachesShrink, Of
  <2>3. CASE Delete(a)
    <3>1. Moves(a, "forget") /\ UNCHANGED flight
      BY <1>0, <2>3, GotoMoves DEF Delete, Places
    <3> QED BY <1>0, <2>0, <2>1, <2>2, <3>1 DEF Rest, AdminMoves, Moves
  <2>4. CASE Forget(a)
    <3>1. Moves(a, "del")
      BY <1>0, <2>4, GotoMoves DEF Forget, Places
    <3>2. flight' = [flight EXCEPT ![<<g[a].node, g[a].key>>] = Nil]
      BY <2>4 DEF Forget
    <3> QED BY <1>0, <2>0, <2>1, <2>2, <3>1, <3>2 DEF Rest, AdminMoves, Moves
  <2>5. CASE Del(a)
    <3>1. UNCHANGED flight
      BY <2>5 DEF Del
    <3>2. \/ g' = [g EXCEPT ![a] = Idle]
          \/ g[a].after \in Keys /\ Invalidating(a, g[a].node, g[a].after, Nil)
      BY <1>0, <2>5 DEF Del, Goroutine
    <3>3. AdminMoves(a)
      BY <2>0, <3>1, <3>2, InvalidatingMoves
    <3> QED BY <2>0, <2>1, <2>2, <3>3 DEF Rest
  <2> QED BY <1>1, <2>3, <2>4, <2>5 DEF InvalidateStep
<1>2. ASSUME NEW n \in Nodes, NEW k \in Keys, NEW next \in Keys \cup {Nil}, StoreMoves,
             Invalidating(a, n, k, next) \/ UNCHANGED g,
             answer' = {}, UNCHANGED <<now, l1, l2, flight>>
      PROVE  Rest
  <2>1. AdminMoves(a)
    BY <1>2, InvalidatingMoves
  <2>2. CachesShrink
    BY <1>0, <1>2 DEF CachesShrink
  <2> QED BY <1>2, <2>1, <2>2 DEF Rest
<1>3. ASSUME NEW n \in Nodes, NEW k \in Keys, Revoke(a, n, k)
      PROVE  Rest
  <2>1. Write([x \in {k} |-> "revoked"])
    BY <1>3 DEF Revoke
  <2>2. StoreMoves
    BY <2>1, WriteMoves DEF Values
  <2> QED BY <1>2, <1>3, <2>2 DEF Revoke
<1>4. ASSUME NEW n \in Nodes, NEW k \in Keys, NEW new \in Keys, Rotate(a, n, k, new)
      PROVE  Rest
  <2>1. \/ Write([x \in {k} |-> "reissued"])
        \/ Write([x \in {k, new} |-> IF x = k THEN "revoked" ELSE "live"])
    BY <1>4 DEF Rotate
  <2>2. StoreMoves
    <3>1. CASE Write([x \in {k} |-> "reissued"])
      BY <3>1, WriteMoves DEF Values
    <3>2. CASE Write([x \in {k, new} |-> IF x = k THEN "revoked" ELSE "live"])
      BY <3>2, WriteMoves DEF Values
    <3> QED BY <2>1, <3>1, <3>2
  <2> QED BY <1>2, <1>4, <2>2 DEF Rotate
<1> QED BY <1>1, <1>3, <1>4

LEMMA StepCases ==
  ASSUME Typed, [Next]_vars
  PROVE  (\E c \in Callers : FindStep(c)) \/ Rest \/ UNCHANGED vars
<1>0. g \in [Threads -> Goroutine] /\ l1 \in [Nodes -> SUBSET Entry]
      /\ answer \subseteq Keys \X Values
  BY DEF Typed, TypeOK
<1>1. CASE Tick
  BY <1>0, <1>1, UnchangedMoves DEF Tick, Rest, TimePasses, CachesShrink
<1>2. ASSUME NEW k \in Keys, Issue(k) PROVE Rest
  <2>1. Write([x \in {k} |-> "live"])
    BY <1>2 DEF Issue
  <2>2. StoreMoves
    BY <2>1, WriteMoves DEF Values
  <2> QED BY <1>0, <1>2, <2>2 DEF Issue, Rest, CachesShrink
<1>3. ASSUME NEW c \in Callers, NEW n \in Nodes, NEW k \in Keys, Ask(c, n, k) PROVE Rest
  BY <1>0, <1>3, UnchangedMoves DEF Ask, Rest, Asks, CachesShrink
<1> QED BY <1>1, <1>2, <1>3, AdminSteps DEF Next
-----------------------------------------------------------------------------
(* The group of shared calls.                                              *)

\* The caller in the group executes the call of that node and key.
FlightOK ==
  \A nk \in Nodes \X Keys :
    LET d == flight[nk] IN
    d # Nil => d \in Callers /\ g[d].at \in Leading /\ <<g[d].node, g[d].key>> = nk

GroupInv == Typed /\ FlightOK /\ WaitersAreServed

\* A waiter's leader is on its way, with the same node and key.
LEMMA Served ==
  ASSUME Typed, WaitersAreServed, NEW c \in Callers, g[c].at = "wait"
  PROVE  LET d == g[c].leader IN
         d \in Callers /\ g[d].at \in Leading /\ g[d].node = g[c].node /\ g[d].key = g[c].key
BY DEF WaitersAreServed, Leading

LEMMA GroupInvFromServed ==
  ASSUME Typed', FlightOK',
         \A c \in Callers : g'[c].at = "wait" =>
           LET d == g'[c].leader IN
           d \in Callers /\ g'[d].at \in Leading /\ g'[d].node = g'[c].node /\ g'[d].key = g'[c].key
  PROVE  GroupInv'
BY DEF GroupInv, WaitersAreServed, Leading

LEMMA StepKeepsOthers ==
  ASSUME Typed, StoreMoves, now' \in 0..MaxTime,
         l1' \in [Nodes -> SUBSET Entry], l2' \subseteq Entry,
         flight' \in [Nodes \X Keys -> Callers \cup {Nil}],
         g' \in [Threads -> Goroutine], CallsOK',
         \A c \in Callers : g'[c].at = "wait" => g'[c].leader \in Callers,
         answer' \subseteq Keys \X Values
  PROVE  Typed'
BY StoreTypeKept DEF Typed, TypeOK

LEMMA FindStepGroup ==
  ASSUME GroupInv, NEW c \in Callers, FindStep(c)
  PROVE  GroupInv'
<1>0. /\ Typed /\ c \in Threads /\ Callers \subseteq Threads /\ Admins \subseteq Threads
      /\ g \in [Threads -> Goroutine] /\ flight \in [Nodes \X Keys -> Callers \cup {Nil}]
      /\ UNCHANGED <<now, store>> /\ StoreMoves
      /\ g[c].node \in Nodes /\ g[c].key \in Keys
      /\ <<g[c].node, g[c].key>> \in Nodes \X Keys
  BY FindStepMoves, UnchangedMoves DEF GroupInv, Typed, TypeOK, Threads
<1>1. now' \in 0..MaxTime /\ l1' \in [Nodes -> SUBSET Entry] /\ l2' \subseteq Entry
  BY <1>0, FindStepCaches DEF Typed, TypeOK
<1>2. /\ \A d \in Callers : g[d].at \in {"idle", "getL1", "expired", "enter", "wait"} \cup Leading
      /\ \A a \in Admins : g[a].at \in {"idle", "delete", "forget", "del"}
      /\ \A t \in Threads : g[t].at # "idle" => g[t].node \in Nodes /\ g[t].key \in Keys
      /\ Callers \cap Admins = {} /\ Nil \notin Callers
  BY <1>0, Constants DEF Typed, CallsOK
<1>3. \A nk \in Nodes \X Keys : flight[nk] # Nil =>
        /\ flight[nk] \in Callers /\ g[flight[nk]].at \in Leading
        /\ g[flight[nk]].node = nk[1] /\ g[flight[nk]].key = nk[2]
        /\ nk = <<nk[1], nk[2]>>
  BY DEF GroupInv, FlightOK
<1>4. \A d \in Callers : g[d].at = "wait" =>
        /\ g[d].leader \in Callers /\ g[g[d].leader].at \in Leading
        /\ g[g[d].leader].node = g[d].node /\ g[g[d].leader].key = g[d].key
  BY <1>0, Served DEF GroupInv
<1>5. ASSUME NEW to, Moves(c, to), answer' = {},
             \/ to \in {"expired", "enter"} /\ g[c].at \in {"getL1", "expired"} /\ flight' = flight
             \/ to \in Leading /\ g[c].at \in Leading /\ flight' = flight
             \/ Joins(c) /\ to = "wait"
             \/ Leads(c) /\ to = "recheck"
      PROVE  GroupInv'
  <2>1. /\ g' \in [Threads -> Goroutine] /\ \A t \in Threads \ {c} : g'[t] = g[t]
        /\ g'[c].at = to /\ g'[c].node = g[c].node /\ g'[c].key = g[c].key
    BY <1>5 DEF Moves
  <2>2. to \in {"expired", "enter", "wait"} \cup Leading /\ to # "idle" /\ g[c].at # "wait"
        /\ (g[c].at \in Leading => to \in Leading) /\ g[c].at # "idle"
    BY <1>5 DEF Leading, Joins, Leads
  <2>3. flight' \in [Nodes \X Keys -> Callers \cup {Nil}]
        /\ \A nk \in Nodes \X Keys : \/ flight'[nk] = flight[nk]
                                     \/ flight'[nk] = c /\ to \in Leading
                                        /\ nk = <<g[c].node, g[c].key>>
    BY <1>0, <1>5 DEF Joins, Leads, Leading
  <2>4. CallsOK'
    BY <1>0, <1>2, <2>1, <2>2 DEF CallsOK
  <2>5. \A nk \in Nodes \X Keys : flight'[nk] # Nil =>
          /\ flight'[nk] \in Callers /\ g'[flight'[nk]].at \in Leading
          /\ g'[flight'[nk]].node = nk[1] /\ g'[flight'[nk]].key = nk[2]
          /\ nk = <<nk[1], nk[2]>>
    BY <1>0, <1>3, <2>1, <2>2, <2>3
  <2>6. FlightOK'
    BY <2>5 DEF FlightOK
  <2>7. \A d \in Callers : g'[d].at = "wait" =>
          /\ g'[d].leader \in Callers /\ g'[g'[d].leader].at \in Leading
          /\ g'[g'[d].leader].node = g'[d].node /\ g'[g'[d].leader].key = g'[d].key
    <3>1. ASSUME NEW d \in Callers, g'[d].at = "wait", d # c
          PROVE  /\ g'[d].leader \in Callers /\ g'[g'[d].leader].at \in Leading
                 /\ g'[g'[d].leader].node = g'[d].node /\ g'[g'[d].leader].key = g'[d].key
      BY <1>0, <1>4, <2>1, <2>2, <3>1
    <3>2. ASSUME g'[c].at = "wait"
          PROVE  /\ g'[c].leader \in Callers /\ g'[g'[c].leader].at \in Leading
                 /\ g'[g'[c].leader].node = g'[c].node /\ g'[g'[c].leader].key = g'[c].key
      <4>1. Joins(c)
        BY <1>5, <2>1, <3>2 DEF Leading
      <4>2. g'[c].leader = flight[<<g[c].node, g[c].key>>] /\ g'[c].leader # Nil
            /\ g[c].at \notin Leading
        BY <4>1 DEF Joins, Leading
      <4>3. g'[c].leader # c
        BY <1>0, <1>3, <4>2
      <4> QED BY <1>0, <1>3, <2>1, <4>2, <4>3
    <3> QED BY <3>1, <3>2
  <2>8. Typed'
    BY <1>0, <1>1, <1>5, <2>1, <2>3, <2>4, <2>7, StepKeepsOthers
  <2> QED BY <2>6, <2>7, <2>8, GroupInvFromServed
<1>6. CASE Answers(c)
  <2>1. PICK vs \in SUBSET Values : Return(c, vs)
    BY <1>6 DEF Answers
  <2>2. /\ g' \in [Threads -> Goroutine]
        /\ \A t \in Threads : g'[t] = IF t \in Joined(c) THEN Idle ELSE g[t]
        /\ flight' \in [Nodes \X Keys -> Callers \cup {Nil}]
        /\ \A nk \in Nodes \X Keys : flight'[nk] = IF flight[nk] = c THEN Nil ELSE flight[nk]
        /\ answer' \subseteq Keys \X Values
    BY <1>0, <2>1, ReturnEffect
  <2>3. Idle.at = "idle" /\ c \in Joined(c) /\ Joined(c) \subseteq Callers
        /\ \A d \in Callers \ {c} : d \in Joined(c) <=> g[d].at = "wait" /\ g[d].leader = c
    BY DEF Idle, Joined
  <2>4. CallsOK'
    BY <1>0, <1>2, <2>2, <2>3 DEF CallsOK
  <2>5. \A nk \in Nodes \X Keys : flight'[nk] # Nil =>
          /\ flight'[nk] \in Callers /\ g'[flight'[nk]].at \in Leading
          /\ g'[flight'[nk]].node = nk[1] /\ g'[flight'[nk]].key = nk[2]
          /\ nk = <<nk[1], nk[2]>>
    BY <1>0, <1>3, <2>2, <2>3 DEF Leading
  <2>6. FlightOK'
    BY <2>5 DEF FlightOK
  <2>7. \A d \in Callers : g'[d].at = "wait" =>
          /\ g'[d].leader \in Callers /\ g'[g'[d].leader].at \in Leading
          /\ g'[g'[d].leader].node = g'[d].node /\ g'[g'[d].leader].key = g'[d].key
    <3>1. ASSUME NEW d \in Callers, g'[d].at = "wait"
          PROVE  /\ g'[d].leader \in Callers /\ g'[g'[d].leader].at \in Leading
                 /\ g'[g'[d].leader].node = g'[d].node /\ g'[g'[d].leader].key = g'[d].key
      <4>1. d \notin Joined(c) /\ g'[d] = g[d] /\ d # c
        BY <1>0, <2>2, <2>3, <3>1
      <4>2. g[d].leader # c /\ g[g[d].leader].at # "wait" /\ g[d].leader \in Callers
        BY <1>4, <2>3, <3>1, <4>1 DEF Leading
      <4>3. g'[g[d].leader] = g[g[d].leader]
        BY <1>0, <2>2, <2>3, <4>2
      <4> QED BY <1>4, <3>1, <4>1, <4>3
    <3> QED BY <3>1
  <2>8. Typed'
    BY <1>0, <1>1, <2>2, <2>4, <2>7, StepKeepsOthers
  <2> QED BY <2>6, <2>7, <2>8, GroupInvFromServed
<1>7. CASE GoesOn(c)
  BY <1>5, <1>7 DEF GoesOn
<1>8. CASE Joins(c)
  BY <1>5, <1>8 DEF Joins
<1>9. CASE Leads(c)
  BY <1>5, <1>9 DEF Leads
<1> QED BY <1>0, <1>6, <1>7, <1>8, <1>9, FindStepMoves
LEMMA RestGroup ==
  ASSUME GroupInv, Rest
  PROVE  GroupInv'
<1>0. /\ Typed /\ Callers \subseteq Threads /\ Admins \subseteq Threads
      /\ g \in [Threads -> Goroutine] /\ flight \in [Nodes \X Keys -> Callers \cup {Nil}]
      /\ StoreMoves /\ now \in 0..MaxTime /\ l2 \subseteq Entry
      /\ \A c \in Callers : g[c].at = "wait" => g[c].leader \in Callers
  BY DEF GroupInv, Typed, TypeOK, Threads, Rest
<1>1. /\ now' \in 0..MaxTime /\ l1' \in [Nodes -> SUBSET Entry] /\ l2' \subseteq Entry
      /\ answer' \subseteq Keys \X Values
  BY <1>0, Constants DEF Rest, TimePasses, CachesShrink
<1>2. /\ \A d \in Callers : g[d].at \in {"idle", "getL1", "expired", "enter", "wait"} \cup Leading
      /\ \A a \in Admins : g[a].at \in {"idle", "delete", "forget", "del"}
      /\ \A t \in Threads : g[t].at # "idle" => g[t].node \in Nodes /\ g[t].key \in Keys
      /\ Callers \cap Admins = {} /\ Nil \notin Callers
  BY <1>0, Constants DEF Typed, CallsOK
<1>3. \A nk \in Nodes \X Keys : flight[nk] # Nil =>
        /\ flight[nk] \in Callers /\ g[flight[nk]].at \in Leading
        /\ <<g[flight[nk]].node, g[flight[nk]].key>> = nk
  BY DEF GroupInv, FlightOK
<1>4. \A d \in Callers : g[d].at = "wait" =>
        /\ g[d].leader \in Callers /\ g[g[d].leader].at \in Leading
        /\ g[g[d].leader].node = g[d].node /\ g[g[d].leader].key = g[d].key
  BY <1>0, Served DEF GroupInv
\* A step after which the callers that lead or wait are where they were.
<1>5. ASSUME g' \in [Threads -> Goroutine], CallsOK',
             flight' \in [Nodes \X Keys -> Callers \cup {Nil}],
             \A nk \in Nodes \X Keys : flight'[nk] \in {flight[nk], Nil},
             \A d \in Callers : g[d].at \in Leading \/ g'[d].at \in Leading \cup {"wait"} =>
               g'[d] = g[d]
      PROVE  GroupInv'
  <2>1. FlightOK'
    BY <1>3, <1>5 DEF FlightOK
  <2>2. \A d \in Callers : g'[d].at = "wait" =>
          /\ g'[d].leader \in Callers /\ g'[g'[d].leader].at \in Leading
          /\ g'[g'[d].leader].node = g'[d].node /\ g'[g'[d].leader].key = g'[d].key
    BY <1>4, <1>5
  <2>3. Typed'
    BY <1>0, <1>1, <1>5, <2>2, StepKeepsOthers
  <2> QED BY <2>1, <2>2, <2>3, GroupInvFromServed
<1>6. CASE UNCHANGED <<g, flight>>
  <2>1. CallsOK'
    BY <1>0, <1>6 DEF Typed, CallsOK
  <2> QED BY <1>0, <1>5, <1>6, <2>1
<1>7. ASSUME NEW c \in Callers, Asks(c) PROVE GroupInv'
  <2>1. PICK n \in Nodes, k \in Keys :
          g' = [g EXCEPT ![c] = [Idle EXCEPT !.at = "getL1", !.node = n, !.key = k, !.since = now]]
    BY <1>7 DEF Asks
  <2> DEFINE called == [Idle EXCEPT !.at = "getL1", !.node = n, !.key = k, !.since = now]
  <2>2. called \in Goroutine /\ called.at = "getL1" /\ called.node = n /\ called.key = k
    <3>1. now \in Nat /\ "getL1" \in Places
      BY <1>0, Constants DEF Places
    <3>2. called \in Goroutine
      BY <3>1, GoroutineIdle
    <3> QED BY <3>2 DEF Idle
  <2> HIDE DEF called
  <2>3. /\ g' \in [Threads -> Goroutine] /\ g'[c] = called
        /\ \A t \in Threads \ {c} : g'[t] = g[t]
    BY <1>0, <2>1, <2>2 DEF called
  <2>4. CallsOK'
    BY <1>0, <1>2, <2>2, <2>3 DEF CallsOK
  <2>5. \A d \in Callers : g[d].at \in Leading \/ g'[d].at \in Leading \cup {"wait"} => g'[d] = g[d]
    BY <1>0, <1>7, <2>2, <2>3 DEF Asks, Leading
  <2> QED BY <1>0, <1>5, <1>7, <2>3, <2>4, <2>5 DEF Asks
<1>8. ASSUME NEW a \in Admins, AdminMoves(a) PROVE GroupInv'
  <2>1. CallsOK'
    BY <1>0, <1>2, <1>8 DEF AdminMoves, CallsOK
  <2>2. \A d \in Callers : g'[d] = g[d]
    BY <1>0, <1>2, <1>8 DEF AdminMoves
  <2> QED BY <1>5, <1>8, <2>1, <2>2 DEF AdminMoves
<1> QED BY <1>6, <1>7, <1>8 DEF Rest, TimePasses

LEMMA InitGroup == Init => GroupInv
<1> SUFFICES ASSUME Init PROVE GroupInv
  OBVIOUS
<1>1. Typed
  BY InitTyped
<1>2. \A t \in Threads : g[t].at = "idle"
  BY DEF Init, Idle
<1>3. WaitersAreServed
  BY <1>2 DEF WaitersAreServed, Threads
<1>4. FlightOK
  BY DEF FlightOK, Init
<1> QED BY <1>1, <1>3, <1>4 DEF GroupInv

LEMMA StutterGroup ==
  ASSUME GroupInv, UNCHANGED vars
  PROVE  GroupInv'
BY DEF GroupInv, Typed, TypeOK, CallsOK, FlightOK, WaitersAreServed, vars, store

LEMMA StepGroup == GroupInv /\ [Next]_vars => GroupInv'
<1> SUFFICES ASSUME GroupInv, [Next]_vars PROVE GroupInv'
  OBVIOUS
<1>1. (\E c \in Callers : FindStep(c)) \/ Rest \/ UNCHANGED vars
  BY StepCases DEF GroupInv
<1> QED BY <1>1, FindStepGroup, RestGroup, StutterGroup

LEMMA GroupIsSound == Spec => []GroupInv
BY InitGroup, StepGroup, PTL DEF Spec

\* Type correctness of the caches, the group and the calls.
THEOREM CacheTypeCorrect == Spec => []TypeOK
<1>1. GroupInv => TypeOK
  BY DEF GroupInv, Typed
<1> QED BY <1>1, GroupIsSound, PTL

\* A caller that waits in the singleflight group gets a result (sf.Do, sf.Forget).
THEOREM NobodyWaitsForEver == Spec => []WaitersAreServed
<1>1. GroupInv => WaitersAreServed
  BY DEF GroupInv
<1> QED BY <1>1, GroupIsSound, PTL

-----------------------------------------------------------------------------
(* The limit of the map.                                                   *)

Bounded(entries) == IsFiniteSet(entries) /\ Cardinality(entries) <= L1MaxEntries

BoundInv == \A n \in Nodes : Bounded(l1[n])

LEMMA SubsetIsBounded ==
  ASSUME NEW entries, Bounded(entries), NEW some, some \subseteq entries
  PROVE  Bounded(some)
<1>1. IsFiniteSet(some) /\ Cardinality(some) <= Cardinality(entries)
  BY FS_Subset DEF Bounded
<1>2. Cardinality(some) \in Nat /\ Cardinality(entries) \in Nat
  BY <1>1, FS_CardinalityType DEF Bounded
<1> QED BY <1>1, <1>2, Constants DEF Bounded

LEMMA EvictionMakesRoom ==
  ASSUME NEW entries, Bounded(entries), NEW kept \in Evict(entries)
  PROVE  IsFiniteSet(kept) /\ Cardinality(kept) < L1MaxEntries
<1>0. Cardinality(entries) \in Nat /\ IsFiniteSet(entries)
      /\ L1MaxEntries \in Nat /\ Cardinality(entries) <= L1MaxEntries
  BY FS_CardinalityType, Constants DEF Bounded
<1>1. CASE Cardinality(entries) < L1MaxEntries
  BY <1>0, <1>1 DEF Evict
<1>2. CASE ~(Cardinality(entries) < L1MaxEntries)
  <2>1. PICK e \in entries : kept = entries \ {e}
    BY <1>2 DEF Evict
  <2>2. IsFiniteSet(kept) /\ Cardinality(kept) = Cardinality(entries) - 1
    BY <1>0, <2>1, FS_RemoveElement
  <2> QED BY <1>0, <2>2
<1> QED BY <1>1, <1>2

LEMMA SetL1IsBounded ==
  ASSUME Typed, BoundInv, NEW c \in Callers, g[c].node \in Nodes, SetL1(c)
  PROVE  BoundInv'
<1>1. PICK kept \in Evict(l1[g[c].node]), ttl \in TTLs(g[c].val) :
        l1' = [l1 EXCEPT ![g[c].node] = (kept \ Of(kept, g[c].key))
                 \cup {[key |-> g[c].key, val |-> g[c].val, expire |-> now + ttl]}]
  BY DEF SetL1
<1>2. IsFiniteSet(kept) /\ Cardinality(kept) < L1MaxEntries
  BY EvictionMakesRoom DEF BoundInv
<1>3. IsFiniteSet(kept \ Of(kept, g[c].key))
      /\ Cardinality(kept \ Of(kept, g[c].key)) <= Cardinality(kept)
  BY <1>2, FS_Subset DEF Of
<1>4. /\ Cardinality(kept \ Of(kept, g[c].key)) \in Nat /\ Cardinality(kept) \in Nat
  BY <1>2, <1>3, FS_CardinalityType
<1> DEFINE entry == [key |-> g[c].key, val |-> g[c].val, expire |-> now + ttl]
<1> HIDE DEF entry
<1>5. IsFiniteSet((kept \ Of(kept, g[c].key)) \cup {entry})
      /\ Cardinality((kept \ Of(kept, g[c].key)) \cup {entry})
           <= Cardinality(kept \ Of(kept, g[c].key)) + 1
  <2> DEFINE others == kept \ Of(kept, g[c].key)
  <2>1. IsFiniteSet(others) /\ Cardinality(others) \in Nat
    BY <1>3, <1>4
  <2> HIDE DEF others
  <2>2. IsFiniteSet(others \cup {entry})
        /\ Cardinality(others \cup {entry}) \in {Cardinality(others), Cardinality(others) + 1}
    BY <2>1, FS_AddElement
  <2>3. Cardinality(others \cup {entry}) <= Cardinality(others) + 1
    BY <2>1, <2>2
  <2> QED BY <2>2, <2>3 DEF others
<1>6. Bounded((kept \ Of(kept, g[c].key)) \cup {entry})
  <2>1. Cardinality((kept \ Of(kept, g[c].key)) \cup {entry}) \in Nat
    BY <1>5, FS_CardinalityType
  <2> QED BY <1>2, <1>3, <1>4, <1>5, <2>1, Constants DEF Bounded
<1>7. l1' = [l1 EXCEPT ![g[c].node] = (kept \ Of(kept, g[c].key)) \cup {entry}]
  BY <1>1 DEF entry
<1>8. \A n \in Nodes : l1'[n] = l1[n] \/ l1'[n] = (kept \ Of(kept, g[c].key)) \cup {entry}
  BY <1>7 DEF Typed, TypeOK
<1> QED BY <1>6, <1>8 DEF BoundInv

LEMMA StepBounded == GroupInv /\ BoundInv /\ [Next]_vars => BoundInv'
<1> SUFFICES ASSUME Typed, BoundInv, [Next]_vars PROVE BoundInv'
  BY DEF GroupInv
<1>1. CASE \A n \in Nodes : l1'[n] \subseteq l1[n]
  BY <1>1, SubsetIsBounded DEF BoundInv
<1>2. CASE Rest \/ UNCHANGED vars
  BY <1>1, <1>2 DEF Rest, CachesShrink, vars
<1>3. ASSUME NEW c \in Callers, FindStep(c) PROVE BoundInv'
  <2>1. CASE FillFromL2(c) \/ Fill(c)
    BY <1>3, <2>1, SetL1IsBounded, FindStepMoves DEF FillFromL2, Fill
  <2>2. CASE ~(FillFromL2(c) \/ Fill(c))
    <3>1. \A n \in Nodes : l1'[n] \subseteq l1[n]
      BY <1>3, <2>2
      DEF FindStep, GetL1, DropExpired, Enter, GetL2, Base, SetL2, Fail, Typed, TypeOK
    <3> QED BY <1>1, <3>1
  <2> QED BY <2>1, <2>2
<1> QED BY <1>2, <1>3, StepCases

\* However lookups interleave, the map of a node never outgrows its limit (setL1 evicts
\* one entry before it inserts).
THEOREM MapStaysBounded == Spec => []MapIsBounded
<1>1. Init => BoundInv
  BY FS_EmptySet, Constants DEF Init, BoundInv, Bounded
<1>2. BoundInv => MapIsBounded
  BY DEF BoundInv, Bounded, MapIsBounded
<1> QED BY <1>1, <1>2, GroupIsSound, StepBounded, PTL DEF Spec
-----------------------------------------------------------------------------
(* The age of what the caches hold, the lookups carry and the callers get. *)

\* The longest that a value lives after the lookup that stores it began.
Late(v) == MaxFlight + (IF v = "absent" THEN NegativeTTL ELSE MaxTTL)

\* v was the value of k in the base store no longer than slack before t.
Within(k, v, t, slack) == v = db[k] \/ (v \in past[k] /\ t <= ended[k][v] + slack)

LookupsAreShort ==
  \A c \in Callers : g[c].at # "idle" => g[c].since <= now /\ now <= g[c].since + MaxFlight

EntryAge(e, slack) ==
  e.expire <= now + Late(e.val) /\ Within(e.key, e.val, e.expire, slack)

\* An entry of L1 may have been made from one of L2.
CacheAge ==
  /\ \A n \in Nodes : \A e \in l1[n] : EntryAge(e, 2 * Late(e.val))
  /\ \A e \in l2 : EntryAge(e, Late(e.val))

CarriedAge ==
  \A c \in Callers :
    /\ g[c].at \in {"setL1", "setL2"} => Within(g[c].key, g[c].val, g[c].since, 0)
    /\ g[c].at = "setL1fromL2" => Within(g[c].key, g[c].val, g[c].since, Late(g[c].val))

AgeInv == LookupsAreShort /\ CacheAge /\ CarriedAge

LEMMA LateIsNumber ==
  ASSUME NEW v \in Values
  PROVE  /\ Late(v) \in Nat
         /\ MaxFlight <= Late(v)
         /\ \A ttl \in TTLs(v) : ttl \in Nat /\ MaxFlight + ttl <= Late(v)
<1>1. "live" \in Values /\ NegativeTTL \in TTLs(v)
  BY DEF Values, TTLs
<1>2. MaxTTL \in Nat /\ MaxFlight \in Nat /\ NegativeTTL \in Nat
  BY <1>1, TTLsAreNumbers, Constants
<1> QED BY <1>2, TTLsAreNumbers DEF Late

LEMMA Numbers ==
  ASSUME Typed
  PROVE  /\ now \in Nat
         /\ \A k \in Keys, v \in Values : ended[k][v] \in Nat
         /\ \A c \in Callers : g[c].since \in Nat /\ g[c].val \in Values
         /\ \A n \in Nodes : \A e \in l1[n] :
              e.key \in Keys /\ e.val \in Values /\ e.expire \in Nat
         /\ \A e \in l2 : e.key \in Keys /\ e.val \in Values /\ e.expire \in Nat
<1>1. now \in Nat
  BY Constants DEF Typed, TypeOK
<1>2. \A k \in Keys, v \in Values : ended[k][v] \in Nat
  BY DEF Typed, TypeOK
<1>3. \A c \in Callers : g[c].since \in Nat /\ g[c].val \in Values
  BY DEF Typed, TypeOK, Threads, Goroutine
<1>4. \A e \in Entry : e.key \in Keys /\ e.val \in Values /\ e.expire \in Nat
  BY DEF Entry
<1>5. l2 \subseteq Entry /\ \A n \in Nodes : l1[n] \subseteq Entry
  BY DEF Typed, TypeOK
<1> QED BY <1>1, <1>2, <1>3, <1>4, <1>5

\* A value that has not ended by t + slack yet ends later, if it ends.
LEMMA WithinIsKept ==
  ASSUME Typed, StoreMoves, NEW k \in Keys, NEW v \in Values, NEW t \in Nat, NEW slack \in Nat,
         Within(k, v, t, slack), t <= now + slack
  PROVE  v = db'[k] \/ (v \in past'[k] /\ t <= ended'[k][v] + slack)
<1>1. past'[k] = IF db'[k] = db[k] THEN past[k] ELSE past[k] \cup {db[k]}
  BY DEF StoreMoves
<1>2. ended'[k] = IF db'[k] = db[k] THEN ended[k] ELSE [ended[k] EXCEPT ![db[k]] = now]
  BY DEF StoreMoves
<1>3. ended[k] \in [Values -> Nat] /\ db[k] \in Values
  BY DEF Typed, TypeOK
<1>4. CASE db'[k] = db[k]
  BY <1>1, <1>2, <1>4 DEF Within
<1>5. CASE db'[k] # db[k] /\ v = db[k]
  BY <1>1, <1>2, <1>3, <1>5
<1>6. CASE db'[k] # db[k] /\ v # db[k]
  BY <1>1, <1>2, <1>3, <1>6 DEF Within
<1> QED BY <1>4, <1>5, <1>6

LEMMA FindStepCalls ==
  ASSUME Typed, NEW c \in Callers, FindStep(c), NEW d \in Callers
  PROVE  \/ g'[d].at = "idle"
         \/ g'[d] = g[d] /\ d # c
         \/ d = c /\ g[c].at # "idle" /\ g'[c].key = g[c].key /\ g'[c].since = g[c].since
<1>0. c \in Threads /\ d \in Threads /\ Idle.at = "idle" /\ c \in Joined(c)
      /\ g[c].node \in Nodes /\ g[c].key \in Keys
  BY FindStepMoves DEF Threads, Idle, Joined
<1>1. ASSUME NEW to, Moves(c, to), g[c].at # "idle"
      PROVE  \/ g'[d] = g[d] /\ d # c
             \/ d = c /\ g[c].at # "idle" /\ g'[c].key = g[c].key /\ g'[c].since = g[c].since
  BY <1>0, <1>1 DEF Moves
<1>2. CASE Answers(c)
  BY <1>0, <1>2, ReturnEffect DEF Answers
<1>3. CASE Joins(c) \/ Leads(c)
  BY <1>1, <1>3 DEF Joins, Leads
<1>4. CASE GoesOn(c)
  BY <1>1, <1>4 DEF GoesOn, Leading
<1> QED BY <1>2, <1>3, <1>4, FindStepMoves

LEMMA RestCalls ==
  ASSUME Typed, Rest, NEW d \in Callers
  PROVE  \/ g'[d] = g[d] /\ (now' = now + 1 /\ g[d].at # "idle" => now < g[d].since + MaxFlight)
         \/ g'[d].at = "getL1" /\ g'[d].since = now /\ now' = now
<1>0. d \in Threads /\ d \notin Admins /\ g \in [Threads -> Goroutine] /\ now \in Nat
  BY Constants, Numbers DEF Threads, Typed, TypeOK
<1>1. CASE TimePasses
  BY <1>1 DEF TimePasses
<1>2. CASE now' = now /\ UNCHANGED <<g, flight>>
  BY <1>0, <1>2
<1>3. ASSUME NEW c \in Callers, Asks(c), now' = now
      PROVE  \/ g'[d] = g[d]
             \/ g'[d].at = "getL1" /\ g'[d].since = now
  <2>1. PICK n \in Nodes, k \in Keys :
          g' = [g EXCEPT ![c] = [Idle EXCEPT !.at = "getL1", !.node = n, !.key = k, !.since = now]]
    BY <1>3 DEF Asks
  <2> QED BY <1>0, <2>1 DEF Idle
<1>4. ASSUME NEW a \in Admins, AdminMoves(a) PROVE g'[d] = g[d]
  BY <1>0, <1>4 DEF AdminMoves
<1> QED BY <1>0, <1>1, <1>2, <1>3, <1>4 DEF Rest
\* The next value of now, and what it says of lookups.
LEMMA StepLookupsAreShort ==
  ASSUME Typed, LookupsAreShort, (\E c \in Callers : FindStep(c)) \/ Rest \/ UNCHANGED vars
  PROVE  LookupsAreShort' /\ now' \in Nat /\ now <= now'
<1>0. now \in Nat /\ MaxFlight \in Nat /\ \A d \in Callers : g[d].since \in Nat
  BY Numbers, Constants
<1>1. ASSUME NEW c \in Callers, FindStep(c)
      PROVE  LookupsAreShort' /\ now' = now
  <2>1. now' = now
    BY <1>1, FindStepMoves
  <2>2. ASSUME NEW d \in Callers, g'[d].at # "idle"
        PROVE  g'[d].since <= now' /\ now' <= g'[d].since + MaxFlight
    <3>1. g[d].at # "idle" /\ g'[d].since = g[d].since
      BY <1>1, <2>2, FindStepCalls
    <3> QED BY <2>1, <3>1 DEF LookupsAreShort
  <2> QED BY <2>1, <2>2 DEF LookupsAreShort
<1>2. CASE Rest
  <2>1. now' = now \/ now' = now + 1
    BY <1>2 DEF Rest, TimePasses
  <2>2. ASSUME NEW d \in Callers, g'[d].at # "idle"
        PROVE  g'[d].since <= now' /\ now' <= g'[d].since + MaxFlight
    <3>1. CASE g'[d] = g[d] /\ (now' = now + 1 /\ g[d].at # "idle" => now < g[d].since + MaxFlight)
      <4>1. g[d].at # "idle" /\ g[d].since <= now /\ now <= g[d].since + MaxFlight
        BY <2>2, <3>1 DEF LookupsAreShort
      <4> QED BY <1>0, <2>1, <3>1, <4>1
    <3>2. CASE g'[d].at = "getL1" /\ g'[d].since = now /\ now' = now
      BY <1>0, <3>2
    <3> QED BY <1>2, <3>1, <3>2, RestCalls
  <2> QED BY <1>0, <2>1, <2>2 DEF LookupsAreShort
<1>3. CASE UNCHANGED vars
  BY <1>0, <1>3 DEF vars, LookupsAreShort
<1> QED BY <1>0, <1>1, <1>2, <1>3

\* What c carries is no older than it says when c puts it into a cache.
LEMMA FilledAge ==
  ASSUME Typed, LookupsAreShort, CarriedAge, NEW c \in Callers,
         g[c].at \in {"setL1fromL2", "setL1", "setL2"}, NEW e, Filled(c, e)
  PROVE  /\ e.expire <= now + Late(e.val)
         /\ Within(e.key, e.val, e.expire, 2 * Late(e.val))
         /\ g[c].at # "setL1fromL2" => Within(e.key, e.val, e.expire, Late(e.val))
<1>1. e.key \in Keys /\ e.val \in Values /\ e.key = g[c].key /\ e.val = g[c].val
  BY DEF Filled, Entry
<1>2. PICK ttl \in TTLs(e.val) : e.expire = now + ttl
  BY DEF Filled
<1>3. ttl \in Nat /\ Late(e.val) \in Nat /\ MaxFlight + ttl <= Late(e.val) /\ MaxFlight \in Nat
  BY <1>1, LateIsNumber, Constants
<1>4. now \in Nat /\ g[c].since \in Nat /\ ended[e.key][e.val] \in Nat
  BY <1>1, Numbers
<1>5. now <= g[c].since + MaxFlight
  BY DEF LookupsAreShort
<1>6. e.expire <= now + Late(e.val) /\ e.expire <= g[c].since + Late(e.val) /\ e.expire \in Nat
  BY <1>2, <1>3, <1>4, <1>5
<1>7. CASE g[c].at = "setL1fromL2"
  <2>1. Within(e.key, e.val, g[c].since, Late(e.val))
    BY <1>1, <1>7 DEF CarriedAge
  <2> QED BY <1>3, <1>4, <1>6, <1>7, <2>1 DEF Within
<1>8. CASE g[c].at # "setL1fromL2"
  <2>1. Within(e.key, e.val, g[c].since, 0)
    BY <1>1, <1>8 DEF CarriedAge
  <2> QED BY <1>3, <1>4, <1>6, <1>8, <2>1 DEF Within
<1> QED BY <1>7, <1>8

LEMMA FindStepAge ==
  ASSUME Typed, AgeInv, NEW c \in Callers, FindStep(c)
  PROVE  CacheAge' /\ CarriedAge'
<1>0. now' = now /\ db' = db /\ past' = past /\ ended' = ended
  BY FindStepMoves DEF store
<1>1. CacheAge'
  <2>1. ASSUME NEW n \in Nodes, NEW e \in l1'[n]
        PROVE  e.expire <= now + Late(e.val) /\ Within(e.key, e.val, e.expire, 2 * Late(e.val))
    <3>1. CASE e \in l1[n]
      BY <3>1 DEF AgeInv, CacheAge, EntryAge
    <3>2. CASE g[c].at \in {"setL1fromL2", "setL1"} /\ Filled(c, e)
      BY <3>2, FilledAge DEF AgeInv
    <3> QED BY <3>1, <3>2, FindStepCaches
  <2>2. ASSUME NEW e \in l2'
        PROVE  e.expire <= now + Late(e.val) /\ Within(e.key, e.val, e.expire, Late(e.val))
    <3>1. CASE e \in l2
      BY <3>1 DEF AgeInv, CacheAge, EntryAge
    <3>2. CASE g[c].at = "setL2" /\ Filled(c, e)
      BY <3>2, FilledAge DEF AgeInv
    <3> QED BY <3>1, <3>2, FindStepCaches
  <2> QED BY <1>0, <2>1, <2>2 DEF CacheAge, EntryAge, Within
<1>2. CarriedAge'
  <2>1. ASSUME NEW d \in Callers
        PROVE  /\ g'[d].at \in {"setL1", "setL2"} => Within(g'[d].key, g'[d].val, g'[d].since, 0)
               /\ g'[d].at = "setL1fromL2" =>
                    Within(g'[d].key, g'[d].val, g'[d].since, Late(g'[d].val))
    <3>1. CASE g'[d].at = "idle"
      BY <3>1
    <3>2. CASE g'[d] = g[d]
      BY <3>2 DEF AgeInv, CarriedAge
    <3>3. CASE d = c /\ g[c].at # "idle" /\ g'[c].key = g[c].key /\ g'[c].since = g[c].since
      <4>1. CASE g'[c].at = "setL1"
        BY <3>3, <4>1, FindStepCarries DEF Within
      <4>2. CASE g'[c].at = "setL2"
        BY <3>3, <4>2, FindStepCarries DEF AgeInv, CarriedAge
      <4>3. CASE g'[c].at = "setL1fromL2"
        <5>1. PICK e \in l2 : e.key = g[c].key /\ e.val = g'[c].val /\ now < e.expire
          BY <4>3, FindStepCarries
        <5>2. Within(e.key, e.val, e.expire, Late(e.val))
          BY DEF AgeInv, CacheAge, EntryAge
        <5>3. e.key \in Keys /\ e.val \in Values /\ e.expire \in Nat /\ now \in Nat
              /\ g[c].since \in Nat /\ g[c].since <= now
          BY <3>3, Numbers DEF AgeInv, LookupsAreShort
        <5>4. ended[e.key][e.val] \in Nat /\ Late(e.val) \in Nat
          BY <5>3, Numbers, LateIsNumber
        <5>5. Within(e.key, e.val, g[c].since, Late(e.val))
          BY <5>1, <5>2, <5>3, <5>4 DEF Within
        <5> QED BY <3>3, <4>3, <5>1, <5>5
      <4> QED BY <3>3, <4>1, <4>2, <4>3
    <3> QED BY <3>1, <3>2, <3>3, FindStepCalls
  <2> QED BY <1>0, <2>1 DEF CarriedAge, Within
<1> QED BY <1>1, <1>2

LEMMA RestAge ==
  ASSUME Typed, AgeInv, Rest
  PROVE  CacheAge' /\ CarriedAge'
<1>0. StoreMoves /\ now \in Nat /\ now' \in Nat /\ now <= now'
  BY StepLookupsAreShort, Numbers DEF AgeInv, Rest
<1>1. ASSUME NEW e, NEW slack \in Nat, EntryAge(e, slack), Late(e.val) <= slack,
             e.key \in Keys, e.val \in Values, e.expire \in Nat
      PROVE  EntryAge(e, slack)'
  <2>1. Late(e.val) \in Nat /\ e.expire <= now + Late(e.val)
    BY <1>1, LateIsNumber DEF EntryAge
  <2>2. e.expire <= now + slack /\ e.expire <= now' + Late(e.val)
    BY <1>0, <1>1, <2>1
  <2>3. e.val = db'[e.key] \/ (e.val \in past'[e.key] /\ e.expire <= ended'[e.key][e.val] + slack)
    BY <1>0, <1>1, <2>2, WithinIsKept DEF EntryAge
  <2> QED BY <2>2, <2>3 DEF EntryAge, Within
<1>2. CacheAge'
  <2>1. ASSUME NEW n \in Nodes, NEW e \in l1'[n] PROVE EntryAge(e, 2 * Late(e.val))'
    <3>1. e \in l1[n]
      BY <2>1 DEF Rest, CachesShrink
    <3>2. EntryAge(e, 2 * Late(e.val)) /\ e.key \in Keys /\ e.val \in Values /\ e.expire \in Nat
      BY <3>1, Numbers DEF AgeInv, CacheAge
    <3>3. 2 * Late(e.val) \in Nat /\ Late(e.val) <= 2 * Late(e.val)
      BY <3>2, LateIsNumber
    <3> QED BY <1>1, <3>2, <3>3
  <2>2. ASSUME NEW e \in l2' PROVE EntryAge(e, Late(e.val))'
    <3>1. e \in l2
      BY <2>2 DEF Rest, CachesShrink
    <3>2. EntryAge(e, Late(e.val)) /\ e.key \in Keys /\ e.val \in Values /\ e.expire \in Nat
      BY <3>1, Numbers DEF AgeInv, CacheAge
    <3>3. Late(e.val) \in Nat /\ Late(e.val) <= Late(e.val)
      BY <3>2, LateIsNumber
    <3> QED BY <1>1, <3>2, <3>3
  <2> QED BY <2>1, <2>2 DEF CacheAge
<1>3. CarriedAge'
  <2>1. ASSUME NEW d \in Callers, g'[d].at \in {"setL1fromL2", "setL1", "setL2"}
        PROVE  /\ g'[d] = g[d] /\ g[d].key \in Keys /\ g[d].val \in Values
               /\ g[d].since \in Nat /\ g[d].since <= now
               /\ Late(g[d].val) \in Nat
    <3>1. g'[d] = g[d]
      BY <2>1, RestCalls
    <3>2. g[d].key \in Keys
      BY <2>1, <3>1 DEF Typed, CallsOK, Threads
    <3> QED BY <2>1, <3>1, <3>2, Numbers, LateIsNumber DEF AgeInv, LookupsAreShort
  <2>2. ASSUME NEW d \in Callers, g'[d].at \in {"setL1", "setL2"}
        PROVE  Within(g[d].key, g[d].val, g[d].since, 0)'
    <3>1. Within(g[d].key, g[d].val, g[d].since, 0)
      BY <2>1, <2>2 DEF AgeInv, CarriedAge
    <3>2. g[d].since <= now + 0
      BY <1>0, <2>1, <2>2
    <3>3. \/ g[d].val = db'[g[d].key]
          \/ g[d].val \in past'[g[d].key] /\ g[d].since <= ended'[g[d].key][g[d].val] + 0
      BY <1>0, <2>1, <2>2, <3>1, <3>2, WithinIsKept
    <3> QED BY <2>1, <2>2, <3>3 DEF Within
  <2>3. ASSUME NEW d \in Callers, g'[d].at = "setL1fromL2"
        PROVE  Within(g[d].key, g[d].val, g[d].since, Late(g[d].val))'
    <3>1. Within(g[d].key, g[d].val, g[d].since, Late(g[d].val))
      BY <2>1, <2>3 DEF AgeInv, CarriedAge
    <3>2. g[d].since <= now + Late(g[d].val)
      BY <1>0, <2>1, <2>3
    <3>3. \/ g[d].val = db'[g[d].key]
          \/ g[d].val \in past'[g[d].key]
             /\ g[d].since <= ended'[g[d].key][g[d].val] + Late(g[d].val)
      BY <1>0, <2>1, <2>3, <3>1, <3>2, WithinIsKept
    <3> QED BY <2>1, <2>3, <3>3 DEF Within
  <2> QED BY <2>2, <2>3 DEF CarriedAge
<1> QED BY <1>2, <1>3
LEMMA InitAge == Init => AgeInv
<1> SUFFICES ASSUME Init PROVE AgeInv
  OBVIOUS
<1>1. \A c \in Callers : g[c].at = "idle"
  BY DEF Init, Idle, Threads
<1> QED BY <1>1 DEF AgeInv, LookupsAreShort, CacheAge, CarriedAge, Init

LEMMA StepAge == GroupInv /\ AgeInv /\ [Next]_vars => AgeInv'
<1> SUFFICES ASSUME Typed, AgeInv, [Next]_vars PROVE AgeInv'
  BY DEF GroupInv
<1>1. (\E c \in Callers : FindStep(c)) \/ Rest \/ UNCHANGED vars
  BY StepCases
<1>2. LookupsAreShort'
  BY <1>1, StepLookupsAreShort DEF AgeInv
<1>3. CASE (\E c \in Callers : FindStep(c)) \/ Rest
  BY <1>2, <1>3, FindStepAge, RestAge DEF AgeInv
<1>4. CASE UNCHANGED vars
  BY <1>4 DEF AgeInv, LookupsAreShort, CacheAge, CarriedAge, EntryAge, Within, vars, store
<1> QED BY <1>1, <1>3, <1>4

\* What a lookup answers is fresh enough for StaleLookup.
LEMMA AnswersOfAge ==
  ASSUME Typed, AgeInv, NEW c \in Callers, FindStep(c), NEW v \in Values,
         \/ \E e \in l1[g[c].node] : e.key = g[c].key /\ v = e.val /\ now <= e.expire
         \/ g[c].at \in {"setL1fromL2", "setL2"} /\ v = g[c].val
  PROVE  Promise!Fresh(g[c].key, v)
<1>0. /\ g[c].node \in Nodes /\ g[c].key \in Keys /\ now \in Nat /\ Late(v) \in Nat
      /\ ended[g[c].key][v] \in Nat /\ g[c].since \in Nat
      /\ MaxFlight \in Nat /\ MaxFlight <= Late(v)
  BY FindStepMoves, Numbers, LateIsNumber, Constants
<1>1. Lag[v] = 2 * Late(v)
  BY DEF Lag, Late
<1>2. SUFFICES Within(g[c].key, v, now, 2 * Late(v))
  BY <1>1, <1>2 DEF Promise!Fresh, Within
<1>3. ASSUME NEW e \in l1[g[c].node], e.key = g[c].key, v = e.val, now <= e.expire
      PROVE  Within(g[c].key, v, now, 2 * Late(v))
  <2>1. Within(g[c].key, v, e.expire, 2 * Late(v))
    BY <1>0, <1>3 DEF AgeInv, CacheAge, EntryAge
  <2>2. e.expire \in Nat
    BY <1>0, Numbers
  <2> QED BY <1>0, <1>3, <2>1, <2>2 DEF Within
<1>4. ASSUME g[c].at \in {"setL1fromL2", "setL2"}, v = g[c].val
      PROVE  Within(g[c].key, v, now, 2 * Late(v))
  <2>1. Within(g[c].key, v, g[c].since, Late(v)) \/ Within(g[c].key, v, g[c].since, 0)
    BY <1>4 DEF AgeInv, CarriedAge
  <2>2. now <= g[c].since + Late(v)
    BY <1>0, <1>4 DEF AgeInv, LookupsAreShort
  <2> QED BY <1>0, <2>1, <2>2 DEF Within
<1> QED BY <1>3, <1>4

\* Whatever fails or overlaps, the cached lookup implements StaleLookup: no answer is
\* older than two lives of an entry and two lookups (FindByKeyID with setL1, setL2).
THEOREM CacheIsFresh == Spec => AnswersAreFresh
<1>1. Init => Promise!Init
  BY DEF Init, Promise!Init
<1>2. GroupInv /\ AgeInv /\ [Next]_vars => [Promise!Next]_(Promise!vars)
  <2> SUFFICES ASSUME Typed, AgeInv, [Next]_vars
               PROVE  Promise!Next \/ UNCHANGED Promise!vars
    BY DEF GroupInv
  <2>1. ASSUME NEW c \in Callers, FindStep(c) PROVE Promise!Next
    <3>1. UNCHANGED <<now, db, past, ended>> /\ g[c].key \in Keys
      BY <2>1, FindStepMoves DEF store
    <3>2. CASE answer' = {}
      BY <3>1, <3>2 DEF Promise!Next, Promise!NoAnswer
    <3>3. CASE answer' # {}
      <4>1. PICK v \in Values :
              /\ answer' = {<<g[c].key, v>>}
              /\ \/ \E e \in l1[g[c].node] : e.key = g[c].key /\ v = e.val /\ now <= e.expire
                 \/ g[c].at \in {"setL1fromL2", "setL2"} /\ v = g[c].val
        BY <2>1, <3>3, FindStepAnswers
      <4>2. Promise!Fresh(g[c].key, v)
        BY <2>1, <4>1, AnswersOfAge
      <4>3. Promise!Answer(g[c].key, v)
        BY <3>1, <4>1, <4>2 DEF Promise!Answer
      <4> QED BY <3>1, <4>3 DEF Promise!Next
    <3> QED BY <3>2, <3>3
  <2>2. CASE Rest
    <3>1. CASE now' = now
      BY <2>2, <3>1 DEF Rest, StoreMoves, Promise!Next, Promise!Change
    <3>2. CASE now' # now
      BY <2>2, <3>2 DEF Rest, TimePasses, store, Promise!Next, Promise!Tick
    <3> QED BY <3>1, <3>2
  <2>3. CASE UNCHANGED vars
    BY <2>3 DEF vars, store, Promise!vars
  <2> QED BY <2>1, <2>2, <2>3, StepCases
<1> QED BY <1>1, <1>2, GroupIsSound, InitAge, StepAge, PTL DEF Spec, AnswersAreFresh, Promise!Spec

-----------------------------------------------------------------------------
\* Once an invalidation leaves nothing stale of a key in Redis or in flight, no stale
\* value of it comes back until the key changes (InvalidateKey against FindByKeyID).
THEOREM InvalidationStaysFinal == Spec => InvalidationIsFinal
<1> DEFINE Final(k) == (Current(k) /\ db'[k] = db[k]) =>
             /\ Current(k)'
             /\ \A n \in Nodes : \A e \in Of(l1'[n], k) : e \in l1[n] \/ e.val = db[k]
<1>1. ASSUME Typed, [Next]_vars, NEW k \in Keys, Current(k), db'[k] = db[k]
      PROVE  /\ \A e \in Of(l2', k) : e.val = db[k]
             /\ \A d \in Callers :
                  (g'[d].key = k /\ g'[d].at \in {"setL1fromL2", "setL1", "setL2"})
                    => g'[d].val = db[k]
             /\ \A n \in Nodes : \A e \in Of(l1'[n], k) : e \in l1[n] \/ e.val = db[k]
  <2>1. ASSUME NEW c \in Callers, FindStep(c)
        PROVE  /\ \A e \in Of(l2', k) : e.val = db[k]
               /\ \A d \in Callers :
                    (g'[d].key = k /\ g'[d].at \in {"setL1fromL2", "setL1", "setL2"})
                      => g'[d].val = db[k]
               /\ \A n \in Nodes : \A e \in Of(l1'[n], k) : e \in l1[n] \/ e.val = db[k]
    <3>1. ASSUME NEW e, Filled(c, e), e.key = k, g[c].at \in {"setL1fromL2", "setL1", "setL2"}
          PROVE  e.val = db[k]
      BY <1>1, <3>1 DEF Filled, Current
    <3>2. ASSUME NEW e \in Of(l2', k) PROVE e.val = db[k]
      BY <1>1, <2>1, <3>1, FindStepCaches DEF Of, Current
    <3>3. ASSUME NEW n \in Nodes, NEW e \in Of(l1'[n], k) PROVE e \in l1[n] \/ e.val = db[k]
      BY <1>1, <2>1, <3>1, FindStepCaches DEF Of
    <3>4. ASSUME NEW d \in Callers, g'[d].key = k, g'[d].at \in {"setL1fromL2", "setL1", "setL2"}
          PROVE  g'[d].val = db[k]
      <4>1. CASE g'[d] = g[d]
        BY <1>1, <3>4, <4>1 DEF Current
      <4>2. CASE d = c /\ g'[c].key = g[c].key
        <5>1. CASE g'[c].at = "setL1fromL2"
          BY <1>1, <2>1, <3>4, <4>2, <5>1, FindStepCarries DEF Current, Of
        <5>2. CASE g'[c].at \in {"setL1", "setL2"}
          BY <1>1, <2>1, <3>4, <4>2, <5>2, FindStepCarries DEF Current
        <5> QED BY <3>4, <4>2, <5>1, <5>2
      <4> QED BY <1>1, <2>1, <3>4, <4>1, <4>2, FindStepCalls
    <3> QED BY <3>2, <3>3, <3>4
  <2>2. CASE Rest
    <3>1. \A e \in Of(l2', k) : e.val = db[k]
      BY <1>1, <2>2 DEF Rest, CachesShrink, Of, Current
    <3>2. \A n \in Nodes : \A e \in Of(l1'[n], k) : e \in l1[n]
      BY <2>2 DEF Rest, CachesShrink, Of
    <3>3. ASSUME NEW d \in Callers, g'[d].key = k, g'[d].at \in {"setL1fromL2", "setL1", "setL2"}
          PROVE  g'[d].val = db[k]
      BY <1>1, <2>2, <3>3, RestCalls DEF Current
    <3> QED BY <3>1, <3>2, <3>3
  <2>3. CASE UNCHANGED vars
    BY <1>1, <2>3 DEF vars, Current, Of
  <2> QED BY <1>1, <2>1, <2>2, <2>3, StepCases
<1>2. GroupInv /\ [Next]_vars => [\A k \in Keys : Final(k)]_vars
  BY <1>1 DEF GroupInv, Current
<1> QED BY <1>2, GroupIsSound, PTL DEF Spec, InvalidationIsFinal
=============================================================================
