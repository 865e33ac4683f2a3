-------------------------- MODULE AppProcessProofs --------------------------
(***************************************************************************)
(* Proofs about AppProcess, for every list of starters and stoppers.       *)
(*                                                                         *)
(* The first part is about sorting by priority, which AppProcess defines   *)
(* by ranks: a rank is a bijection, so the sorted list is a permutation,   *)
(* and it is in order.  The second part turns this into the facts          *)
(* about the hooks that the steps depend on, and the third is the          *)
(* inductive invariant.                                                    *)
(***************************************************************************)
EXTENDS AppProcess, FiniteSetTheorems, FunctionTheorems, SequenceTheorems, TLAPS

-----------------------------------------------------------------------------
(* Sorting by rank.                                                        *)

Before(s, i) == {j \in DOMAIN s : Precedes(s, j, i)}
Rank(s, i) == Cardinality(Before(s, i))
Place(s, n) == CHOOSE i \in DOMAIN s : Rank(s, i) = n - 1

LEMMA ComponentOfSeq ==
  ASSUME NEW s \in Seq(Component), NEW i \in DOMAIN s
  PROVE  s[i].name \in STRING /\ s[i].priority \in Int
<1>1. DOMAIN s = 1..Len(s)
  BY LenProperties
<1>2. s[i] \in Component
  BY <1>1, ElementOfSeq
<1>. QED  BY <1>2 DEF Component

\* Precedes is a strict total order of the indices.
LEMMA PrecedesIsOrder ==
  ASSUME NEW s \in Seq(Component), NEW i \in DOMAIN s, NEW j \in DOMAIN s, NEW k \in DOMAIN s
  PROVE  /\ ~Precedes(s, i, i)
         /\ i # j => Precedes(s, i, j) \/ Precedes(s, j, i)
         /\ Precedes(s, i, j) /\ Precedes(s, j, k) => Precedes(s, i, k)
<1>1. DOMAIN s = 1..Len(s) /\ Len(s) \in Nat
  BY LenProperties
<1>2. i \in Int /\ j \in Int /\ k \in Int
  BY <1>1
<1>3. s[i].priority \in Int /\ s[j].priority \in Int /\ s[k].priority \in Int
  BY ComponentOfSeq
<1>4. ~Precedes(s, i, i)
  BY <1>2, <1>3 DEF Precedes
<1>5. i # j => Precedes(s, i, j) \/ Precedes(s, j, i)
  BY <1>2, <1>3 DEF Precedes
<1>6. Precedes(s, i, j) /\ Precedes(s, j, k) => Precedes(s, i, k)
  BY <1>2, <1>3 DEF Precedes
<1>. QED  BY <1>4, <1>5, <1>6

\* The rank of an index is one of the first Len(s) numbers, and grows with Precedes.
LEMMA RankIsMonotonic ==
  ASSUME NEW s \in Seq(Component), NEW j \in DOMAIN s
  PROVE  /\ Rank(s, j) \in 0..(Len(s) - 1)
         /\ \A i \in DOMAIN s : Precedes(s, i, j) => Rank(s, i) < Rank(s, j)
<1>1. DOMAIN s = 1..Len(s) /\ Len(s) \in Nat
  BY LenProperties
<1>2. IsFiniteSet(DOMAIN s) /\ Cardinality(DOMAIN s) = Len(s)
  <2>1. /\ IsFiniteSet(1..Len(s))
        /\ Cardinality(1..Len(s)) = IF 1 > Len(s) THEN 0 ELSE Len(s) - 1 + 1
    BY <1>1, FS_Interval
  <2>. QED  BY <2>1, <1>1
<1>3. ASSUME NEW i \in DOMAIN s
      PROVE  IsFiniteSet(Before(s, i)) /\ Rank(s, i) \in Nat
  <2>1. Before(s, i) \in SUBSET DOMAIN s
    BY DEF Before
  <2>2. IsFiniteSet(Before(s, i))
    BY <1>2, <2>1, FS_Subset
  <2>3. Rank(s, i) \in Nat
    BY <2>2, FS_CardinalityType DEF Rank
  <2>. QED  BY <2>2, <2>3
<1>4. Rank(s, j) < Len(s)
  <2>1. IsFiniteSet(DOMAIN s \ {j}) /\ Cardinality(DOMAIN s \ {j}) = Len(s) - 1
    BY <1>2, FS_RemoveElement
  <2>2. Before(s, j) \in SUBSET (DOMAIN s \ {j})
    BY PrecedesIsOrder DEF Before
  <2>3. Cardinality(Before(s, j)) <= Len(s) - 1
    BY <2>1, <2>2, FS_Subset
  <2>. QED  BY <2>3, <1>1, <1>3 DEF Rank
<1>5. ASSUME NEW i \in DOMAIN s, Precedes(s, i, j)
      PROVE  Rank(s, i) < Rank(s, j)
  <2>1. Before(s, i) \in SUBSET Before(s, j)
    BY <1>5, PrecedesIsOrder DEF Before
  <2>2. i \in Before(s, j) /\ i \notin Before(s, i)
    BY <1>5, PrecedesIsOrder DEF Before
  <2>3. /\ Cardinality(Before(s, i)) <= Cardinality(Before(s, j))
        /\ Cardinality(Before(s, j)) = Cardinality(Before(s, i)) => Before(s, j) = Before(s, i)
    BY <1>3, <2>1, FS_Subset
  <2>. QED  BY <2>2, <2>3, <1>3 DEF Rank
<1>. QED  BY <1>1, <1>3, <1>4, <1>5

\* No two indices have the same rank, and every rank is taken.
LEMMA RankIsBijection ==
  ASSUME NEW s \in Seq(Component)
  PROVE  /\ \A i, j \in DOMAIN s : Rank(s, i) = Rank(s, j) => i = j
         /\ \A n \in DOMAIN s : \E i \in DOMAIN s : Rank(s, i) = n - 1
<1>1. DOMAIN s = 1..Len(s) /\ Len(s) \in Nat
  BY LenProperties
<1>2. ASSUME NEW i \in DOMAIN s, NEW j \in DOMAIN s, Rank(s, i) = Rank(s, j)
      PROVE  i = j
  <2>1. Rank(s, i) \in Int /\ Rank(s, j) \in Int
    BY RankIsMonotonic, <1>1
  <2>2. ~Precedes(s, i, j) /\ ~Precedes(s, j, i)
    BY <1>2, <2>1, RankIsMonotonic
  <2>. QED  BY <2>2, PrecedesIsOrder
<1>. DEFINE f == [i \in DOMAIN s |-> Rank(s, i) + 1]
<1>3. f \in [DOMAIN s -> DOMAIN s]
  <2>1. ASSUME NEW i \in DOMAIN s PROVE Rank(s, i) + 1 \in DOMAIN s
    <3>1. Rank(s, i) \in 0..(Len(s) - 1)
      BY RankIsMonotonic
    <3>. QED  BY <3>1, <1>1
  <2>. QED  BY <2>1
<1>4. f \in Injection(DOMAIN s, DOMAIN s)
  <2>1. ASSUME NEW i \in DOMAIN s, NEW j \in DOMAIN s, f[i] = f[j] PROVE i = j
    <3>1. Rank(s, i) \in Int /\ Rank(s, j) \in Int
      BY RankIsMonotonic, <1>1
    <3>2. Rank(s, i) = Rank(s, j)
      BY <2>1, <3>1
    <3>. QED  BY <3>2, <1>2
  <2>. HIDE DEF f
  <2>. QED  BY <2>1, <1>3 DEF Injection, IsInjective
<1>5. IsFiniteSet(DOMAIN s)
  BY <1>1, FS_Interval
<1>6. f \in Surjection(DOMAIN s, DOMAIN s)
  <2>. HIDE DEF f
  <2>. QED  BY <1>4, <1>5, FS_Injection
<1>7. ASSUME NEW n \in DOMAIN s PROVE \E i \in DOMAIN s : Rank(s, i) = n - 1
  <2>1. PICK i \in DOMAIN s : f[i] = n
    <3>. HIDE DEF f
    <3>. QED  BY <1>6 DEF Surjection
  <2>2. Rank(s, i) \in Int /\ n \in Int
    BY RankIsMonotonic, <1>1
  <2>. QED  BY <2>1, <2>2
<1>. QED  BY <1>2, <1>7

\* The sorted list is a permutation of the list, in the order of the priorities.
LEMMA SortIsOrdered ==
  ASSUME NEW s \in Seq(Component)
  PROVE  /\ DOMAIN SortByPriority(s) = DOMAIN s
         /\ \A n \in DOMAIN s : /\ Place(s, n) \in DOMAIN s
                                /\ SortByPriority(s)[n] = s[Place(s, n)]
         /\ \A i \in DOMAIN s : \E n \in DOMAIN s : Place(s, n) = i
         /\ \A m, n \in DOMAIN s :
              /\ Place(s, m) = Place(s, n) => m = n
              /\ m < n => s[Place(s, m)].priority <= s[Place(s, n)].priority
<1>1. DOMAIN s = 1..Len(s) /\ Len(s) \in Nat
  BY LenProperties
<1>2. ASSUME NEW n \in DOMAIN s
      PROVE  Place(s, n) \in DOMAIN s /\ Rank(s, Place(s, n)) = n - 1
  BY RankIsBijection DEF Place
<1>3. \A n \in DOMAIN s : SortByPriority(s)[n] = s[Place(s, n)]
  BY DEF SortByPriority, Place, Rank, Before
<1>4. ASSUME NEW i \in DOMAIN s PROVE \E n \in DOMAIN s : Place(s, n) = i
  <2>1. Rank(s, i) \in 0..(Len(s) - 1)
    BY RankIsMonotonic
  <2>2. Rank(s, i) + 1 \in DOMAIN s /\ (Rank(s, i) + 1) - 1 = Rank(s, i)
    BY <2>1, <1>1
  <2>3. Place(s, Rank(s, i) + 1) = i
    BY <2>2, <1>2, RankIsBijection
  <2>. QED  BY <2>2, <2>3
<1>5. ASSUME NEW m \in DOMAIN s, NEW n \in DOMAIN s
      PROVE  /\ Place(s, m) = Place(s, n) => m = n
             /\ m < n => s[Place(s, m)].priority <= s[Place(s, n)].priority
  <2>1. m \in Int /\ n \in Int
    BY <1>1
  <2>2. Place(s, m) = Place(s, n) => m = n
    BY <1>2, <2>1
  <2>3. ASSUME m < n PROVE s[Place(s, m)].priority <= s[Place(s, n)].priority
    <3>1. ~Precedes(s, Place(s, n), Place(s, m))
      <4>1. ~(Rank(s, Place(s, n)) < Rank(s, Place(s, m)))
        BY <1>2, <2>1, <2>3
      <4>. QED  BY <4>1, <1>2, RankIsMonotonic
    <3>2. s[Place(s, m)].priority \in Int /\ s[Place(s, n)].priority \in Int
      BY <1>2, ComponentOfSeq
    <3>. QED  BY <3>1, <3>2 DEF Precedes
  <2>. QED  BY <2>2, <2>3
<1>6. DOMAIN SortByPriority(s) = DOMAIN s
  BY DEF SortByPriority
<1>. QED  BY <1>2, <1>3, <1>4, <1>5, <1>6

-----------------------------------------------------------------------------
(* The hooks.                                                              *)

Hook == [kind : {"start", "stop", "context", "OnStart", "OnStop", "both"},
         name : STRING \cup {Background}]
IsStart(i) == Hooks[i].kind = "start"
IsRoot(i) == IsRootHook(Hooks[i])

\* The hooks of a list of components are a sequence of the same length.
LEMMA HooksOfType ==
  ASSUME NEW kind \in {"start", "stop"}, NEW s \in Seq(Component)
  PROVE  LET hooks == HooksOf(kind, SortByPriority(s))
         IN  /\ hooks \in Seq(Hook) /\ Len(hooks) = Len(s)
             /\ \A i \in 1..Len(s) : hooks[i].kind = kind /\ hooks[i].name = s[Place(s, i)].name
<1>. DEFINE hooks == HooksOf(kind, SortByPriority(s))
<1>1. DOMAIN s = 1..Len(s) /\ Len(s) \in Nat
  BY LenProperties
<1>2. hooks = [i \in 1..Len(s) |-> [kind |-> kind, name |-> SortByPriority(s)[i].name]]
  BY <1>1, SortIsOrdered DEF HooksOf
<1>3. ASSUME NEW i \in 1..Len(s)
      PROVE  /\ hooks[i] \in Hook
             /\ hooks[i].kind = kind /\ hooks[i].name = s[Place(s, i)].name
  <2>1. SortByPriority(s)[i] = s[Place(s, i)] /\ Place(s, i) \in DOMAIN s
    BY <1>1, SortIsOrdered
  <2>2. s[Place(s, i)].name \in STRING
    BY <2>1, ComponentOfSeq
  <2>3. hooks[i] = [kind |-> kind, name |-> s[Place(s, i)].name]
    BY <1>2, <2>1
  <2>. QED  BY <2>2, <2>3 DEF Hook
<1>4. hooks \in [1..Len(s) -> Hook]
  <2>1. hooks = [i \in 1..Len(s) |-> hooks[i]]
    BY <1>2
  <2>. HIDE DEF hooks
  <2>. QED  BY <1>3, <2>1
<1>5. hooks \in Seq(Hook) /\ Len(hooks) = Len(s)
  <2>. HIDE DEF hooks
  <2>1. hooks \in Seq(Hook)
    BY <1>1, <1>4, IsASeq
  <2>. QED  BY <1>1, <1>4, <2>1, LenProperties
<1>. QED  BY <1>3, <1>5

LEMMA AppendedIsHook ==
  ASSUME NEW s \in Seq(Appended)
  PROVE  /\ s \in Seq(Hook) /\ Len(s) \in Nat
         /\ \A i \in 1..Len(s) : s[i].kind \in {"OnStart", "OnStop", "both"}
<1>1. Len(s) \in Nat /\ \A i \in 1..Len(s) : s[i] \in Appended
  BY LenProperties, ElementOfSeq
<1>2. Appended \subseteq Hook
  BY DEF Appended, Hook
<1>3. s \in [1..Len(s) -> Hook]
  <2>1. s \in [1..Len(s) -> Appended]
    BY LenProperties
  <2>. QED  BY <1>2, <2>1
<1>4. s \in Seq(Hook)
  BY <1>1, <1>3, IsASeq
<1>. QED  BY <1>1, <1>4 DEF Appended

\* A concatenation by its two parts.
LEMMA Parts ==
  ASSUME NEW s \in Seq(Hook), NEW t \in Seq(Hook)
  PROVE  /\ s \o t \in Seq(Hook) /\ Len(s) \in Nat /\ Len(t) \in Nat
         /\ Len(s \o t) = Len(s) + Len(t)
         /\ \A i \in 1..Len(s) : (s \o t)[i] = s[i]
         /\ \A i \in 1..Len(t) : (s \o t)[Len(s) + i] = t[i]
<1>. DEFINE all == s \o t
<1>1. /\ all \in Seq(Hook) /\ Len(all) = Len(s) + Len(t)
      /\ \A i \in 1..(Len(s) + Len(t)) :
           all[i] = IF i <= Len(s) THEN s[i] ELSE t[i - Len(s)]
  BY ConcatProperties, Zenon
<1>2. Len(s) \in Nat /\ Len(t) \in Nat
  BY LenProperties
<1>. HIDE DEF all
<1>3. ASSUME NEW i \in 1..Len(s) PROVE all[i] = s[i]
  BY <1>1, <1>2
<1>4. ASSUME NEW i \in 1..Len(t) PROVE all[Len(s) + i] = t[i]
  <2>1. /\ Len(s) + i \in 1..(Len(s) + Len(t)) /\ ~(Len(s) + i <= Len(s))
        /\ (Len(s) + i) - Len(s) = i
    BY <1>2
  <2>. QED  BY <1>1, <2>1
<1>. QED  BY <1>1, <1>2, <1>3, <1>4 DEF all

\* Behind the hooks that come earlier and that of the context stand the starters, behind
\* these the stoppers, and then the hooks that come later.
Front == Len(Earlier) + 1
Middle == Front + Len(Starters)
Back == Middle + Len(Stoppers)

LEMMA HooksShape ==
  /\ Len(Earlier) \in Nat /\ Len(Starters) \in Nat /\ Len(Stoppers) \in Nat
  /\ Len(Later) \in Nat
  /\ Hooks \in Seq(Hook) /\ Len(Hooks) = Back + Len(Later)
  /\ \A i \in 1..Front : Hooks[i].kind \notin {"start", "stop"}
  /\ \A i \in 1..Len(Starters) :
       IsStart(Front + i) /\ Hooks[Front + i].name = Starters[Place(Starters, i)].name
  /\ \A i \in 1..Len(Stoppers) :
       /\ Hooks[Middle + i].kind = "stop"
       /\ Hooks[Middle + i].name = Stoppers[Place(Stoppers, i)].name
  /\ \A i \in 1..Len(Later) : Hooks[Back + i].kind \notin {"start", "stop"}
<1>. DEFINE context == <<ContextHook>>
            starts == HooksOf("start", SortByPriority(Starters))
            stops == HooksOf("stop", SortByPriority(Stoppers))
            one == Earlier \o context
            two == one \o starts
            three == two \o stops
<1>1. /\ Earlier \in Seq(Hook) /\ Len(Earlier) \in Nat
      /\ \A i \in 1..Len(Earlier) : Earlier[i].kind \notin {"start", "stop"}
  BY AppendedIsHook, ProcessAssumption
<1>2. /\ Later \in Seq(Hook) /\ Len(Later) \in Nat
      /\ \A i \in 1..Len(Later) : Later[i].kind \notin {"start", "stop"}
  BY AppendedIsHook, ProcessAssumption
<1>3. context \in Seq(Hook) /\ Len(context) = 1 /\ context[1].kind = "context"
  <2>1. ContextHook \in Hook
    BY DEF ContextHook, Hook, Background
  <2>. QED  BY <2>1 DEF ContextHook
<1>4. /\ starts \in Seq(Hook) /\ Len(starts) = Len(Starters)
      /\ \A i \in 1..Len(Starters) :
           starts[i].kind = "start" /\ starts[i].name = Starters[Place(Starters, i)].name
  BY HooksOfType, ProcessAssumption
<1>5. /\ stops \in Seq(Hook) /\ Len(stops) = Len(Stoppers)
      /\ \A i \in 1..Len(Stoppers) :
           stops[i].kind = "stop" /\ stops[i].name = Stoppers[Place(Stoppers, i)].name
  BY HooksOfType, ProcessAssumption
<1>6. Len(Starters) \in Nat /\ Len(Stoppers) \in Nat
  BY ProcessAssumption, LenProperties
<1>7. Hooks = three \o Later
  BY DEF Hooks
<1>. HIDE DEF context, starts, stops
<1>8. /\ one \in Seq(Hook) /\ Len(one) = Front
      /\ \A i \in 1..Len(Earlier) : one[i] = Earlier[i]
      /\ one[Front] = context[1]
  <2>1. /\ one \in Seq(Hook) /\ Len(one) = Len(Earlier) + Len(context)
        /\ \A i \in 1..Len(Earlier) : one[i] = Earlier[i]
        /\ \A i \in 1..Len(context) : one[Len(Earlier) + i] = context[i]
    BY <1>1, <1>3, Parts
  <2>. QED  BY <2>1, <1>3 DEF Front
<1>. HIDE DEF one
<1>9. /\ two \in Seq(Hook) /\ Len(two) = Middle
      /\ \A i \in 1..Front : two[i] = one[i]
      /\ \A i \in 1..Len(Starters) : two[Front + i] = starts[i]
  <2>1. /\ two \in Seq(Hook) /\ Len(two) = Len(one) + Len(starts)
        /\ \A i \in 1..Len(one) : two[i] = one[i]
        /\ \A i \in 1..Len(starts) : two[Len(one) + i] = starts[i]
    BY <1>8, <1>4, Parts
  <2>. QED  BY <2>1, <1>4, <1>8 DEF Middle
<1>. HIDE DEF two
<1>10. /\ three \in Seq(Hook) /\ Len(three) = Back
       /\ \A i \in 1..Middle : three[i] = two[i]
       /\ \A i \in 1..Len(Stoppers) : three[Middle + i] = stops[i]
  <2>1. /\ three \in Seq(Hook) /\ Len(three) = Len(two) + Len(stops)
        /\ \A i \in 1..Len(two) : three[i] = two[i]
        /\ \A i \in 1..Len(stops) : three[Len(two) + i] = stops[i]
    BY <1>9, <1>5, Parts
  <2>. QED  BY <2>1, <1>5, <1>9 DEF Back
<1>. HIDE DEF three
<1>11. /\ Hooks \in Seq(Hook) /\ Len(Hooks) = Back + Len(Later)
       /\ \A i \in 1..Back : Hooks[i] = three[i]
       /\ \A i \in 1..Len(Later) : Hooks[Back + i] = Later[i]
  <2>1. /\ three \o Later \in Seq(Hook) /\ Len(three \o Later) = Len(three) + Len(Later)
        /\ \A i \in 1..Len(three) : (three \o Later)[i] = three[i]
        /\ \A i \in 1..Len(Later) : (three \o Later)[Len(three) + i] = Later[i]
    BY <1>10, <1>2, Parts
  <2>. QED  BY <2>1, <1>7, <1>10
<1>12. ASSUME NEW i \in 1..Front PROVE Hooks[i].kind \notin {"start", "stop"}
  <2>1. i \in 1..Middle /\ i \in 1..Back
    BY <1>1, <1>6 DEF Front, Middle, Back
  <2>2. Hooks[i] = one[i]
    BY <2>1, <1>9, <1>10, <1>11
  <2>3. i \in 1..Len(Earlier) \/ i = Front
    BY <1>1 DEF Front
  <2>. QED  BY <2>2, <2>3, <1>1, <1>3, <1>8
<1>13. ASSUME NEW i \in 1..Len(Starters)
       PROVE  IsStart(Front + i) /\ Hooks[Front + i].name = Starters[Place(Starters, i)].name
  <2>1. Front + i \in 1..Middle /\ Front + i \in 1..Back
    BY <1>1, <1>6 DEF Front, Middle, Back
  <2>2. Hooks[Front + i] = starts[i]
    BY <2>1, <1>9, <1>10, <1>11
  <2>. QED  BY <2>2, <1>4 DEF IsStart
<1>14. ASSUME NEW i \in 1..Len(Stoppers)
       PROVE  /\ Hooks[Middle + i].kind = "stop"
              /\ Hooks[Middle + i].name = Stoppers[Place(Stoppers, i)].name
  <2>1. Middle + i \in 1..Back
    BY <1>1, <1>6 DEF Front, Middle, Back
  <2>2. Hooks[Middle + i] = stops[i]
    BY <2>1, <1>10, <1>11
  <2>. QED  BY <2>2, <1>5
<1>. QED  BY <1>1, <1>2, <1>6, <1>11, <1>12, <1>13, <1>14

\* A starter's hook stands in its place.
LEMMA StartIsStarter ==
  ASSUME NEW i \in 1..Len(Hooks), IsStart(i)
  PROVE  /\ i - Front \in 1..Len(Starters)
         /\ Hooks[i].name = Starters[Place(Starters, i - Front)].name
<1>1. /\ Len(Earlier) \in Nat /\ Len(Starters) \in Nat /\ Len(Stoppers) \in Nat
      /\ Len(Later) \in Nat /\ Len(Hooks) = Back + Len(Later)
  BY HooksShape
<1>2. ~(i \in 1..Front)
  BY HooksShape DEF IsStart
<1>3. ASSUME i > Middle PROVE FALSE
  <2>1. CASE i <= Back
    <3>1. i - Middle \in 1..Len(Stoppers) /\ Middle + (i - Middle) = i
      BY <1>1, <1>3, <2>1 DEF Front, Middle, Back
    <3>2. Hooks[Middle + (i - Middle)].kind = "stop"
      BY <3>1, HooksShape
    <3>. QED  BY <3>1, <3>2 DEF IsStart
  <2>2. CASE ~(i <= Back)
    <3>1. i - Back \in 1..Len(Later) /\ Back + (i - Back) = i
      BY <1>1, <2>2 DEF Front, Middle, Back
    <3>2. Hooks[Back + (i - Back)].kind \notin {"start", "stop"}
      BY <3>1, HooksShape
    <3>. QED  BY <3>1, <3>2 DEF IsStart
  <2>. QED  BY <2>1, <2>2
<1>4. i - Front \in 1..Len(Starters) /\ Front + (i - Front) = i
  BY <1>1, <1>2, <1>3 DEF Front, Middle, Back
<1>5. Hooks[Front + (i - Front)].name = Starters[Place(Starters, i - Front)].name
  BY <1>4, HooksShape
<1>. QED  BY <1>4, <1>5

\* Up to the last starter no hook stops a component, and behind the last stopper every
\* starter and every stopper is in front.
LEMMA FrontOrBack ==
  ASSUME NEW n \in 0..Len(Hooks)
  PROVE  /\ n <= Middle => \A h \in 1..n : Hooks[h].kind # "stop"
         /\ n >= Back =>
              /\ \A i \in DOMAIN Starters :
                   \E h \in 1..n : Hooks[h].kind = "start" /\ Hooks[h].name = Starters[i].name
              /\ \A i \in DOMAIN Stoppers :
                   \E h \in 1..n : Hooks[h].kind = "stop" /\ Hooks[h].name = Stoppers[i].name
<1>1. /\ Len(Earlier) \in Nat /\ Len(Starters) \in Nat /\ Len(Stoppers) \in Nat
      /\ DOMAIN Starters = 1..Len(Starters) /\ DOMAIN Stoppers = 1..Len(Stoppers)
      /\ Len(Later) \in Nat /\ Len(Hooks) = Back + Len(Later)
  BY HooksShape, ProcessAssumption, LenProperties
<1>2. ASSUME n <= Middle, NEW h \in 1..n PROVE Hooks[h].kind # "stop"
  <2>1. CASE h <= Front
    <3>1. h \in 1..Front
      BY <1>1, <2>1 DEF Front
    <3>. QED  BY <3>1, HooksShape
  <2>2. CASE ~(h <= Front)
    <3>1. h - Front \in 1..Len(Starters) /\ Front + (h - Front) = h
      BY <1>1, <1>2, <2>2 DEF Front, Middle, Back
    <3>2. IsStart(Front + (h - Front))
      BY <3>1, HooksShape
    <3>. QED  BY <3>1, <3>2 DEF IsStart
  <2>. QED  BY <2>1, <2>2
<1>3. ASSUME n >= Back, NEW i \in DOMAIN Starters
      PROVE  \E h \in 1..n : Hooks[h].kind = "start" /\ Hooks[h].name = Starters[i].name
  <2>1. PICK p \in DOMAIN Starters : Place(Starters, p) = i
    BY SortIsOrdered, ProcessAssumption
  <2>2. Front + p \in 1..n
    BY <1>1, <1>3 DEF Front, Middle, Back
  <2>3. IsStart(Front + p) /\ Hooks[Front + p].name = Starters[i].name
    BY <1>1, <2>1, HooksShape
  <2>. QED  BY <2>2, <2>3 DEF IsStart
<1>4. ASSUME n >= Back, NEW i \in DOMAIN Stoppers
      PROVE  \E h \in 1..n : Hooks[h].kind = "stop" /\ Hooks[h].name = Stoppers[i].name
  <2>1. PICK p \in DOMAIN Stoppers : Place(Stoppers, p) = i
    BY SortIsOrdered, ProcessAssumption
  <2>2. Middle + p \in 1..n
    BY <1>1, <1>4 DEF Front, Middle, Back
  <2>3. Hooks[Middle + p].kind = "stop" /\ Hooks[Middle + p].name = Stoppers[i].name
    BY <1>1, <2>1, HooksShape
  <2>. QED  BY <2>2, <2>3
<1>. QED  BY <1>2, <1>3, <1>4

\* A hook that can fail is not that of a stopper: it stands up to the last starter, or
\* behind the last stopper.
LEMMA FailureIsOutside ==
  ASSUME NEW i \in 1..Len(Hooks), CanFail(Hooks[i])
  PROVE  i <= Middle \/ i > Back
<1>1. /\ Len(Earlier) \in Nat /\ Len(Starters) \in Nat /\ Len(Stoppers) \in Nat
  BY HooksShape
<1>2. ASSUME i > Middle, i <= Back PROVE FALSE
  <2>1. i - Middle \in 1..Len(Stoppers) /\ Middle + (i - Middle) = i
    BY <1>1, <1>2 DEF Front, Middle, Back
  <2>2. Hooks[Middle + (i - Middle)].kind = "stop"
    BY <2>1, HooksShape
  <2>. QED  BY <2>1, <2>2 DEF CanFail
<1>3. Middle \in Int /\ Back \in Int /\ i \in Int
  BY <1>1 DEF Front, Middle, Back
<1>. QED  BY <1>2, <1>3

\* Root has one hook, and in front of it stands every starter of an earlier priority.
LEMMA RootComesLast ==
  ASSUME NEW i \in 1..Len(Hooks), IsRoot(i)
  PROVE  /\ \A j \in 1..Len(Hooks) : IsRoot(j) => i = j
         /\ \A k \in DOMAIN Starters : Starters[k].priority < Latest =>
              \E h \in 1..(i - 1) : IsStart(h) /\ Hooks[h].name = Starters[k].name
<1>. DEFINE at(n) == Place(Starters, n)
<1>1. /\ Starters \in Seq(Component) /\ DOMAIN Starters = 1..Len(Starters)
      /\ Len(Starters) \in Nat /\ Front \in Nat /\ Front >= 1
  BY ProcessAssumption, LenProperties, HooksShape DEF Front
<1>2. ASSUME NEW j \in 1..Len(Hooks), IsRoot(j)
      PROVE  /\ j - Front \in 1..Len(Starters) /\ at(j - Front) \in DOMAIN Starters
             /\ Starters[at(j - Front)].name = Root /\ Starters[at(j - Front)].priority = Latest
  <2>1. j - Front \in 1..Len(Starters) /\ Starters[at(j - Front)].name = Root
    BY <1>2, StartIsStarter DEF IsRoot, IsRootHook, IsStart
  <2>2. at(j - Front) \in DOMAIN Starters
    BY <1>1, <2>1, SortIsOrdered
  <2>. QED  BY <2>1, <2>2, ProcessAssumption
<1>3. ASSUME NEW j \in 1..Len(Hooks), IsRoot(j) PROVE i = j
  <2>1. at(i - Front) = at(j - Front)
    BY <1>2, <1>3, ProcessAssumption
  <2>2. i - Front = j - Front
    BY <1>1, <1>2, <1>3, <2>1, SortIsOrdered
  <2>. QED  BY <1>1, <2>2, HooksShape
<1>4. ASSUME NEW k \in DOMAIN Starters, Starters[k].priority < Latest
      PROVE  \E h \in 1..(i - 1) : IsStart(h) /\ Hooks[h].name = Starters[k].name
  <2>1. PICK n \in DOMAIN Starters : at(n) = k
    BY <1>1, SortIsOrdered
  <2>2. i - Front \in 1..Len(Starters) /\ n \in 1..Len(Starters)
    BY <1>1, <1>2
  <2>3. ~(i - Front <= n)
    <3>1. ASSUME i - Front < n PROVE FALSE
      <4>1. Starters[at(i - Front)].priority <= Starters[at(n)].priority
        BY <1>1, <2>2, <3>1, SortIsOrdered
      <4>2. Starters[k].priority \in Int
        BY <1>1, ComponentOfSeq
      <4>. QED  BY <4>1, <4>2, <2>1, <1>2, <1>4, HooksShape DEF Latest
    <3>2. ASSUME i - Front = n PROVE FALSE
      BY <3>2, <2>1, <1>2, <1>4 DEF Latest
    <3>. QED  BY <3>1, <3>2, <2>2
  <2>4. Front + n \in 1..(i - 1)
    BY <1>1, <2>2, <2>3
  <2>5. IsStart(Front + n) /\ Hooks[Front + n].name = Starters[k].name
    BY <2>1, <2>2, HooksShape
  <2>. QED  BY <2>4, <2>5
<1>. QED  BY <1>3, <1>4

-----------------------------------------------------------------------------
(* The inductive invariant.                                                *)

\* Before the hook of Root there is no command, and its hook runs once.
CommandHasHook ==
  /\ main = "new" => cmd = "none"
  /\ main = "starting" /\ cmd # "none" => \E i \in 1..ran : IsRoot(i)

\* The error of the command and the signal that tells it.
CommandIsTold ==
  /\ cmd \in {"none", "running"} => ~cmdErr /\ signal \in {"none", "term"}
  /\ signal = "zero" => ~cmdErr
  /\ signal = "term" => sigterm

\* Who stops the app, and why.
StopsHaveCauses ==
  /\ stopping = "main" => main = "stopping"
  /\ mode = "service" /\ main = "stopping" => sigterm
  /\ watcher = "stopping" => signal # "none"
  /\ watcher # "none" => main \in {"waiting", "stopping"}

ProcessInv ==
  /\ TypeOK
  /\ CommandHasHook
  /\ CommandIsTold
  /\ StopsHaveCauses
  /\ StopHooksAreRun
  /\ ServiceTellsFailure

LEMMA ProcessInvInit == Init => ProcessInv
<1>1. Len(Hooks) \in Nat
  BY HooksShape, LenProperties
<1>. SUFFICES ASSUME Init PROVE ProcessInv
  OBVIOUS
<1>2. mode \in {"run", "service"}
  BY DEF Init
<1>3. /\ proc = IF mode = "run" THEN "alive" ELSE "off"
      /\ launches = IF mode = "run" THEN 1 ELSE 0
  BY DEF Init
<1>4. MaxLaunches \in Nat \ {0}
  BY ProcessAssumption
<1>5. TypeOK
  <2>1. launches \in 0..MaxLaunches /\ ran \in 0..Len(Hooks)
    BY <1>1, <1>3, <1>4 DEF Init
  <2>2. proc \in {"alive", "off"}
    BY <1>3
  <2>3. command \in Commands
    BY DEF Init
  <2>. QED  BY <1>2, <2>1, <2>2, <2>3, Zenon DEF Init, TypeOK
<1>. QED
  BY <1>3, <1>5 DEF Init, ProcessInv, CommandHasHook, CommandIsTold, StopsHaveCauses,
     StopHooksAreRun, ServiceTellsFailure

LEMMA LaunchStep == ProcessInv /\ Launch => ProcessInv'
<1>1. Len(Hooks) \in Nat
  BY HooksShape, LenProperties
<1>. SUFFICES ASSUME ProcessInv, Launch PROVE ProcessInv'
  OBVIOUS
<1>2. launches + 1 \in 0..MaxLaunches
  BY ProcessAssumption DEF Launch, ProcessInv, TypeOK
<1>3. TypeOK'
  <2>1. (launches \in 0..MaxLaunches)' /\ (ran \in 0..Len(Hooks))'
    BY <1>1, <1>2 DEF Launch
  <2>. QED  BY <2>1, Zenon DEF Launch, ProcessInv, TypeOK
<1>. QED
  BY <1>3 DEF Launch, ProcessInv, CommandHasHook, CommandIsTold, StopsHaveCauses,
     StopHooksAreRun, ServiceTellsFailure

LEMMA TerminateStep == ProcessInv /\ Terminate => ProcessInv'
  BY DEF Terminate, Broadcast, Exit, ProcessInv, TypeOK, CommandHasHook, CommandIsTold,
     StopsHaveCauses, StopHooksAreRun, ServiceTellsFailure, Alive

LEMMA ListenerStep == ProcessInv /\ Listener => ProcessInv'
<1>. SUFFICES ASSUME ProcessInv, Listener PROVE ProcessInv'
  OBVIOUS
<1>1. /\ Goes /\ UNCHANGED notServer
      /\ server' \in {"serving", "failing", "failed"}
      /\ startedCh' = TRUE \/ startedCh' = startedCh
  BY DEF Listener, Listens, RejectsSettings, CannotListen, ListenFails, ListenerGoes
<1>2. TypeOK'
  <2>1. startedCh' \in BOOLEAN
    BY <1>1, Zenon DEF ProcessInv, TypeOK
  <2>. QED  BY <1>1, <2>1 DEF Goes, notServer, ProcessInv, TypeOK
<1>. QED
  BY <1>1, <1>2 DEF Goes, notServer, Alive, ProcessInv, CommandHasHook, CommandIsTold,
     StopsHaveCauses, StopHooksAreRun, ServiceTellsFailure

LEMMA CommandStep == ProcessInv /\ Command => ProcessInv'
<1>. SUFFICES ASSUME ProcessInv, Command PROVE ProcessInv'
  OBVIOUS
<1>. USE DEF Goes, Alive, notCommand, serverVars, Broadcast, ProcessInv, TypeOK,
             CommandHasHook, CommandIsTold, StopsHaveCauses,
             StopHooksAreRun, ServiceTellsFailure
<1>1. CASE ServeReturns
  BY <1>1 DEF ServeReturns
<1>2. ASSUME NEW failed \in BOOLEAN, CommandReturns(failed) PROVE ProcessInv'
  BY <1>2 DEF CommandReturns
<1>3. CASE ShutsDown
  BY <1>3 DEF ShutsDown
<1>4. CASE HelpReturns
  BY <1>4 DEF HelpReturns
<1>. QED  BY <1>1, <1>2, <1>3, <1>4 DEF Command

LEMMA WatcherStep == ProcessInv /\ Watcher => ProcessInv'
<1>. SUFFICES ASSUME ProcessInv, Watcher PROVE ProcessInv'
  OBVIOUS
<1>. USE DEF Goes, Alive, commandVars, serverVars, ProcessInv, TypeOK, CommandHasHook,
             CommandIsTold, StopsHaveCauses, StopHooksAreRun,
             ServiceTellsFailure
<1>1. CASE WatchShutdown
  BY <1>1 DEF WatchShutdown
<1>2. CASE WatcherWakes
  BY <1>2 DEF WatcherWakes
<1>. QED  BY <1>1, <1>2 DEF Watcher

\* The command starts with the hook of Root, which has not run yet.
LEMMA StartHookStep == ProcessInv /\ StartHook => ProcessInv'
<1>. SUFFICES ASSUME ProcessInv, StartHook PROVE ProcessInv'
  OBVIOUS
<1>1. Len(Hooks) \in Nat /\ ran \in 0..Len(Hooks) /\ ran + 1 \in 1..Len(Hooks)
  BY HooksShape, LenProperties DEF StartHook, ProcessInv, TypeOK
<1>2. CASE IsRoot(ran + 1)
  <2>1. cmd = "none"
    <3>1. ASSUME NEW i \in 1..ran, IsRoot(i) PROVE FALSE
      BY <1>1, <1>2, <3>1, RootComesLast
    <3>. QED  BY <3>1 DEF StartHook, ProcessInv, CommandHasHook
  <2>2. PICK accepted \in BOOLEAN :
          cmd' = (IF accepted THEN "running" ELSE "returned") /\ cmdErr' = ~accepted
    BY <1>2 DEF StartHook, IsRoot
  <2>3. (\E i \in 1..ran : IsRoot(i))'
    <3>1. ran' = ran + 1 /\ ran + 1 \in 1..(ran')
      BY <1>1 DEF StartHook
    <3>. QED  BY <1>2, <3>1 DEF IsRoot
  <2>. QED
    BY <1>1, <2>1, <2>2, <2>3 DEF StartHook, Goes, Alive, serverVars, ProcessInv, TypeOK,
       CommandHasHook, CommandIsTold, StopsHaveCauses, StopHooksAreRun,
       ServiceTellsFailure
<1>3. CASE ~IsRoot(ran + 1)
  <2>1. UNCHANGED <<cmd, cmdErr>>
    BY <1>3 DEF StartHook, IsRoot
  <2>2. \A i \in 1..ran : i \in 1..(ran') /\ (IsRoot(i) => IsRoot(i)')
    BY <1>1 DEF StartHook, IsRoot
  <2>. QED
    BY <1>1, <2>1, <2>2 DEF StartHook, Goes, Alive, serverVars, ProcessInv, TypeOK,
       CommandHasHook, CommandIsTold, StopsHaveCauses, StopHooksAreRun,
       ServiceTellsFailure
<1>. QED  BY <1>2, <1>3

\* Stopping a hook leaves a shorter prefix of the hooks.
LEMMA StopHookStep == ProcessInv /\ StopHook => ProcessInv'
<1>. SUFFICES ASSUME ProcessInv, StopHook PROVE ProcessInv'
  OBVIOUS
<1>1. Len(Hooks) \in Nat /\ ran \in 1..Len(Hooks) /\ ran' = ran - 1
  BY HooksShape, LenProperties DEF StopHook, ProcessInv, TypeOK
<1>2. TypeOK'
  BY <1>1 DEF StopHook, Goes, commandVars, ProcessInv, TypeOK
<1>3. StopHooksAreRun' /\ ServiceTellsFailure'
  BY DEF StopHook, Goes, Alive, commandVars, StopHooksAreRun, ServiceTellsFailure
<1>4. CommandHasHook' /\ CommandIsTold' /\ StopsHaveCauses'
  <2>1. main \notin {"new", "starting"}
    BY DEF StopHook, Stops, ProcessInv, StopsHaveCauses
  <2>. QED
    BY <2>1 DEF StopHook, Goes, commandVars, ProcessInv, CommandHasHook, CommandIsTold,
       StopsHaveCauses
<1>. QED  BY <1>2, <1>3, <1>4 DEF ProcessInv

LEMMA MainStep == ProcessInv /\ Main => ProcessInv'
<1>. SUFFICES ASSUME ProcessInv, Main PROVE ProcessInv'
  OBVIOUS
<1>1. CASE StartHook
  BY <1>1, StartHookStep
<1>2. CASE StopHook
  BY <1>2, StopHookStep
<1>. USE DEF Goes, Alive, Exit, threads, commandVars, serverVars, ProcessInv, TypeOK,
             CommandHasHook, CommandIsTold, StopsHaveCauses,
             StopHooksAreRun, ServiceTellsFailure
<1>4. CASE ServerIsUp
  BY <1>4 DEF ServerIsUp
<1>5. CASE ServerIsDown
  BY <1>5 DEF ServerIsDown
<1>3. CASE StartFails
  BY <1>3 DEF StartFails
<1>6. CASE StartExpires
  BY <1>6 DEF StartExpires
<1>7. CASE Started
  BY <1>7 DEF Started
<1>8. CASE RunStops
  BY <1>8 DEF RunStops
<1>9. CASE ServiceStops
  <2>1. CASE stopping = "nobody"
    BY <1>9, <2>1 DEF ServiceStops
  <2>2. CASE stopping # "nobody"
    <3>1. stopping = "watcher"
      BY <1>9, <2>2 DEF ServiceStops
    <3>. QED  BY <1>9, <2>2, <3>1 DEF ServiceStops
  <2>. QED  BY <2>1, <2>2
<1>10. CASE StopExpires
  BY <1>10 DEF StopExpires
<1>11. CASE StopReturns
  <2>1. ran \in Nat
    BY HooksShape, LenProperties
  <2>. QED  BY <1>11, <2>1 DEF StopReturns, Stops
<1>. QED
  BY <1>1, <1>2, <1>3, <1>4, <1>5, <1>6, <1>7, <1>8, <1>9, <1>10, <1>11 DEF Main

LEMMA ProcessInvStep == ProcessInv /\ [Next]_vars => ProcessInv'
<1>. SUFFICES ASSUME ProcessInv, [Next]_vars PROVE ProcessInv'
  OBVIOUS
<1>1. CASE UNCHANGED vars
  BY <1>1 DEF vars, threads, ProcessInv, TypeOK, CommandHasHook, CommandIsTold,
     StopsHaveCauses, StopHooksAreRun, ServiceTellsFailure
<1>. QED
  BY <1>1, LaunchStep, TerminateStep, ListenerStep, CommandStep, WatcherStep, MainStep
     DEF Next, Steps

-----------------------------------------------------------------------------
(* Theorems.  They need Init and the steps only, so that they hold of a    *)
(* process in any surroundings, and of Spec.                               *)

LEMMA ProcessIsSafe == Init /\ [][Next]_vars => []ProcessInv
<1>1. ProcessInv /\ [Next]_vars => ProcessInv'
  BY ProcessInvStep
<1>. QED  BY ProcessInvInit, <1>1, PTL

\* The variables stay in their types; a hook is not stopped that was not started.
THEOREM ProcessTypeCorrect == Spec => []TypeOK
<1>1. ProcessInv => TypeOK
  BY DEF ProcessInv
<1>. QED  BY ProcessIsSafe, <1>1, PTL DEF Spec

\* A process that has been started and ends by itself has run its stop hooks, whatever
\* they are: Run, Stop and watchShutdown race to stop the app.
THEOREM StopHooksRun == Spec => []StopHooksAreRun
<1>1. ProcessInv => StopHooksAreRun
  BY DEF ProcessInv
<1>. QED  BY ProcessIsSafe, <1>1, PTL DEF Spec

\* Whatever the hooks of the app are, the hook that fails stands where fx has run no
\* stopper's hook yet, or all of them and every starter's.
LEMMA FailedStart ==
  ASSUME ProcessInv, [Next]_vars, main = "starting", main' = "rollback", ~expired'
  PROVE  \/ \A h \in 1..ran : Hooks[h].kind # "stop"
         \/ /\ \A i \in DOMAIN Starters : HasRun("start", Starters[i])
            /\ \A i \in DOMAIN Stoppers : HasRun("stop", Stoppers[i])
<1>1. StartFails
  <2>. USE DEF Goes, commandVars, notServer, threads
  <2>1. ~Launch /\ ~Terminate /\ ~Listener /\ ~UNCHANGED vars
    BY DEF Launch, Terminate, Listener, Listens, RejectsSettings, CannotListen, ListenFails,
       ListenerGoes, vars
  <2>2. ~Command /\ ~Watcher
    BY DEF Command, ServeReturns, HelpReturns, CommandReturns, ShutsDown, notCommand, Watcher,
       WatchShutdown, WatcherWakes
  <2>3. Main
    BY <2>1, <2>2 DEF Next, Steps
  <2>. QED
    BY <2>3 DEF Main, ServerIsUp, ServerIsDown, StartHook, StartExpires, Started, RunStops,
       ServiceStops, StopHook, StopExpires, StopReturns
<1>2. /\ Len(Hooks) \in Nat /\ ran \in 0..Len(Hooks) /\ ran + 1 \in 1..Len(Hooks)
      /\ Middle \in Int /\ Back \in Int
  BY <1>1, HooksShape, LenProperties DEF StartFails, ProcessInv, TypeOK, Front, Middle, Back
<1>3. ran + 1 <= Middle \/ ran + 1 > Back
  BY <1>1, <1>2, FailureIsOutside DEF StartFails
<1>4. ran <= Middle \/ ran >= Back
  BY <1>2, <1>3
<1>. QED  BY <1>2, <1>4, FrontOrBack DEF HasRun

LEMMA FailedStartAlways == Init /\ [][Next]_vars => FailedStartStopsAllOrNone
<1>. DEFINE Right ==
       main = "starting" /\ main' = "rollback" /\ ~expired' =>
         \/ \A h \in 1..ran : Hooks[h].kind # "stop"
         \/ /\ \A i \in DOMAIN Starters : HasRun("start", Starters[i])
            /\ \A i \in DOMAIN Stoppers : HasRun("stop", Stoppers[i])
<1>1. ProcessInv /\ [Next]_vars => [Right]_vars
  BY FailedStart
<1>2. Init /\ [][Next]_vars => [][Right]_vars
  BY <1>1, ProcessIsSafe, PTL
<1>. QED  BY <1>2, PTL DEF FailedStartStopsAllOrNone

\* For every list of starters, stoppers and hooks appended around them: a failed start
\* calls Stop of no component, or of all and then every one has started.
THEOREM FailedStartIsEven == Spec => FailedStartStopsAllOrNone
BY FailedStartAlways, PTL DEF Spec

\* A service that nobody stops never reports success for a command that has failed.
THEOREM FailureIsTold == Spec => []ServiceTellsFailure
<1>1. ProcessInv => ServiceTellsFailure
  BY DEF ProcessInv
<1>. QED  BY ProcessIsSafe, <1>1, PTL DEF Spec

\* The command runs behind every starter of an earlier priority: sorting puts Root behind
\* them, and cmd leaves "none" in the hook of Root only.
LEMMA CommandStarts ==
  ASSUME ProcessInv, [Next]_vars, cmd = "none", cmd' # "none"
  PROVE  /\ ~Stops
         /\ \A i \in DOMAIN Starters :
              Starters[i].priority < Latest => HasRun("start", Starters[i])
<1>1. StartHook
  <2>. USE DEF Goes, commandVars, notServer, threads
  <2>1. ~Launch /\ ~Terminate /\ ~Listener
    BY DEF Launch, Terminate, Listener, Listens, RejectsSettings, CannotListen, ListenFails,
       ListenerGoes
  <2>2. ~Command /\ ~Watcher
    BY DEF Command, ServeReturns, HelpReturns, CommandReturns, ShutsDown, Watcher, WatchShutdown,
       WatcherWakes
  <2>3. ~UNCHANGED vars
    BY DEF vars
  <2>4. Main
    BY <2>1, <2>2, <2>3 DEF Next, Steps
  <2>. QED
    BY <2>4 DEF Main, ServerIsUp, ServerIsDown, StartFails, StartExpires, Started, RunStops,
       ServiceStops, StopHook, StopExpires, StopReturns
<1>2. Len(Hooks) \in Nat /\ ran \in 0..Len(Hooks) /\ ran + 1 \in 1..Len(Hooks)
  BY <1>1, HooksShape, LenProperties DEF StartHook, ProcessInv, TypeOK
<1>3. IsRoot(ran + 1)
  BY <1>1 DEF StartHook, IsRoot
<1>4. ~Stops
  BY <1>1 DEF StartHook, Stops, ProcessInv, StopsHaveCauses
<1>5. ASSUME NEW i \in DOMAIN Starters, Starters[i].priority < Latest
      PROVE  HasRun("start", Starters[i])
  <2>1. (ran + 1) - 1 = ran
    BY <1>2
  <2>. QED  BY <1>2, <1>3, <1>5, <2>1, RootComesLast DEF IsStart, HasRun
<1>. QED  BY <1>4, <1>5

LEMMA CommandIsLastAlways == Init /\ [][Next]_vars => CommandRunsLast
<1>. DEFINE Right ==
       cmd = "none" /\ cmd' # "none" =>
         /\ ~Stops
         /\ \A i \in DOMAIN Starters :
              Starters[i].priority < Latest => HasRun("start", Starters[i])
<1>1. ProcessInv /\ [Next]_vars => [Right]_vars
  BY CommandStarts
<1>2. Init /\ [][Next]_vars => [][Right]_vars
  BY <1>1, ProcessIsSafe, PTL
<1>. QED  BY <1>2, PTL DEF CommandRunsLast

\* Whatever order the group delivers the starters in, those of an earlier priority have
\* started when the command of Root.Start begins.
THEOREM CommandIsLast == Spec => CommandRunsLast
BY CommandIsLastAlways, PTL DEF Spec

-----------------------------------------------------------------------------
(* The end of a process: it is not missed, and it comes.  With the         *)
(* fairness of Spec these are what CommandEndsProcess and TermEndsProcess  *)
(* rest on.                                                                *)

\* The signals have arrived where somebody will look, and watchShutdown is there as long
\* as it may be needed.
EndInv ==
  /\ receiving => main \in {"waiting", "stopping"}
  /\ cmd = "done" => signal # "none"
  /\ sigterm /\ Alive =>
       main \in {"waiting", "stopping"} /\ (mode = "run" => signal # "none")
  /\ mode = "run" => watcher = "none" /\ (main \in {"waiting", "stopping"} => receiving)
  /\ mode = "service" /\ main = "waiting" => watcher # "none"
  /\ stopping = "watcher" <=> watcher = "stopping"
  /\ watcher = "done" => stopping = "main"

LEMMA EndInvInit == Init => EndInv
BY DEF Init, EndInv

LEMMA EndInvStep == ProcessInv /\ EndInv /\ [Next]_vars => EndInv'
<1>. SUFFICES ASSUME ProcessInv, EndInv, [Next]_vars PROVE EndInv'
  OBVIOUS
<1>. USE DEF EndInv, Goes, Alive, Exit, Broadcast, threads, commandVars, serverVars,
             notServer, notCommand
<1>1. /\ mode \in {"run", "service"} /\ stopping \in {"nobody", "main", "watcher"}
      /\ CommandHasHook /\ CommandIsTold /\ StopsHaveCauses
  BY DEF ProcessInv, TypeOK
<1>2. CASE Launch
  BY <1>2 DEF Launch
<1>3. CASE Terminate
  BY <1>3, <1>1 DEF Terminate, StopsHaveCauses
<1>4. CASE Listener
  BY <1>4 DEF Listener, ListenerGoes, Listens, RejectsSettings, CannotListen, ListenFails
<1>5. CASE Command
  BY <1>5 DEF Command, ServeReturns, HelpReturns, CommandReturns, ShutsDown
<1>6. CASE Watcher
  BY <1>6, <1>1 DEF Watcher, WatchShutdown, WatcherWakes, StopsHaveCauses
<1>7. CASE ServerIsUp \/ ServerIsDown
  BY <1>7, <1>1 DEF ServerIsUp, ServerIsDown, StopsHaveCauses
<1>8. CASE StartHook
  <2>1. cmd' = cmd \/ cmd' \in {"running", "returned"}
    BY <1>8 DEF StartHook
  <2>. QED  BY <1>8, <2>1 DEF StartHook
<1>9. CASE StartFails \/ StartExpires
  BY <1>9, <1>1 DEF StartFails, StartExpires, StopsHaveCauses
<1>10. CASE Started
  BY <1>10, <1>1 DEF Started, StopsHaveCauses
<1>11. CASE RunStops \/ ServiceStops
  BY <1>11, <1>1 DEF RunStops, ServiceStops, StopsHaveCauses
<1>12. CASE StopHook \/ StopExpires \/ StopReturns
  BY <1>12 DEF StopHook, StopExpires, StopReturns
<1>13. CASE UNCHANGED vars
  BY <1>13 DEF vars
<1>. QED
  BY <1>2, <1>3, <1>4, <1>5, <1>6, <1>7, <1>8, <1>9, <1>10, <1>11, <1>12, <1>13
     DEF Next, Steps, Main

LEMMA EndIsSafe == Init /\ [][Next]_vars => [](ProcessInv /\ EndInv)
<1>1. ProcessInv /\ EndInv /\ [Next]_vars => EndInv'
  BY EndInvStep
<1>. QED  BY <1>1, EndInvInit, ProcessIsSafe, PTL

\* Where nobody can go on, the threads have arrived somewhere in vain: main at Done or
\* Wait without a signal, or watchShutdown after main.  EndInv excludes both.
LEMMA EndInvImplies == ProcessInv /\ EndInv => EndIsNotMissed
<1>. SUFFICES ASSUME ProcessInv, EndInv, Alive, cmd = "done" \/ sigterm,
                     main # "starting", ~Stops
              PROVE  /\ main = "waiting"
                     /\ \/ mode = "run" /\ signal # "none"
                        \/ mode = "service" /\ (sigterm \/ watcher = "spawned")
                        \/ watcher = "waiting" /\ signal # "none"
  BY DEF EndIsNotMissed
<1>1. /\ main \in {"new", "starting", "rollback", "waiting", "stopping"}
      /\ watcher \in {"none", "spawned", "waiting", "stopping", "done"}
      /\ mode \in {"run", "service"}
  BY DEF ProcessInv, TypeOK
<1>2. main = "waiting"
  BY <1>1 DEF ProcessInv, EndInv, CommandHasHook, Stops
<1>3. watcher \notin {"stopping", "done"}
  BY <1>2 DEF ProcessInv, EndInv, StopsHaveCauses, Stops
<1>. QED  BY <1>1, <1>2, <1>3 DEF EndInv

\* In either mode, a process whose command is over or that has got SIGTERM has a thread
\* that will stop it, whichever signal came first and whoever waits for it.
THEOREM EndIsNeverMissed == Spec => []EndIsNotMissed
<1>1. ProcessInv /\ EndInv => EndIsNotMissed
  BY EndInvImplies
<1>. QED  BY EndIsSafe, <1>1, PTL DEF Spec

\* A bound on the steps that a living process has left: the hooks to start and to stop,
\* and what the other threads, a limit of time and SIGTERM can still do.
MainLeft ==
  CASE main = "new" -> 2 * Len(Hooks) + 5
    [] main = "starting" -> 2 * Len(Hooks) + 4 - ran
    [] main = "waiting" -> ran + 3
    [] main = "stopping" -> ran + 2
    [] main = "rollback" -> ran + 1
WatcherLeft ==
  CASE watcher = "none" -> 4 [] watcher = "spawned" -> 3 [] watcher = "waiting" -> 2
    [] watcher = "stopping" -> 1 [] watcher = "done" -> 0
CommandLeft ==
  CASE cmd = "none" -> 3 [] cmd = "running" -> 2 [] cmd = "returned" -> 1 [] cmd = "done" -> 0
ServerLeft ==
  CASE server = "idle" -> 2 [] server \in {"serving", "failing"} -> 1
    [] server \in {"failed", "stopped"} -> 0
EventsLeft == (IF expired THEN 0 ELSE 1) + (IF sigterm THEN 0 ELSE 1)

StepsLeft == MainLeft + WatcherLeft + CommandLeft + ServerLeft + EventsLeft

LEMMA StepsLeftType ==
  ASSUME TypeOK
  PROVE  /\ Len(Hooks) \in Nat /\ ran \in 0..Len(Hooks)
         /\ MainLeft \in Nat /\ WatcherLeft \in Nat /\ CommandLeft \in Nat
         /\ ServerLeft \in Nat /\ EventsLeft \in Nat
<1>1. Len(Hooks) \in Nat /\ ran \in 0..Len(Hooks)
  BY HooksShape, LenProperties DEF TypeOK
<1>2. MainLeft \in Nat
  BY <1>1 DEF TypeOK, MainLeft
<1>3. WatcherLeft \in Nat /\ CommandLeft \in Nat
  BY DEF TypeOK, WatcherLeft, CommandLeft
<1>4. ServerLeft \in Nat /\ EventsLeft \in Nat
  BY DEF TypeOK, ServerLeft, EventsLeft
<1>. QED  BY <1>1, <1>2, <1>3, <1>4

LEMMA StepsLeftTypeNext ==
  ASSUME TypeOK'
  PROVE  /\ Len(Hooks) \in Nat /\ ran' \in 0..Len(Hooks)
         /\ MainLeft' \in Nat /\ WatcherLeft' \in Nat /\ CommandLeft' \in Nat
         /\ ServerLeft' \in Nat /\ EventsLeft' \in Nat
<1>1. Len(Hooks) \in Nat /\ ran' \in 0..Len(Hooks)
  BY HooksShape, LenProperties DEF TypeOK
<1>2. MainLeft' \in Nat
  BY <1>1 DEF TypeOK, MainLeft
<1>3. WatcherLeft' \in Nat /\ CommandLeft' \in Nat
  BY DEF TypeOK, WatcherLeft, CommandLeft
<1>4. ServerLeft' \in Nat /\ EventsLeft' \in Nat
  BY DEF TypeOK, ServerLeft, EventsLeft
<1>. QED  BY <1>1, <1>2, <1>3, <1>4

\* A step changes some of the bounds, and no others grow.
LEMMA FewerStepsLeft ==
  ASSUME TypeOK, TypeOK',
         MainLeft' <= MainLeft, WatcherLeft' <= WatcherLeft, CommandLeft' <= CommandLeft,
         ServerLeft' <= ServerLeft, EventsLeft' <= EventsLeft,
         \/ MainLeft' < MainLeft \/ WatcherLeft' < WatcherLeft \/ CommandLeft' < CommandLeft
         \/ ServerLeft' < ServerLeft \/ EventsLeft' < EventsLeft
  PROVE  StepsLeft' < StepsLeft
<1>1. ASSUME NEW a \in Nat, NEW b \in Nat, NEW c \in Nat, NEW d \in Nat, NEW e \in Nat,
             NEW v \in Nat, NEW w \in Nat, NEW x \in Nat, NEW y \in Nat, NEW z \in Nat,
             v <= a, w <= b, x <= c, y <= d, z <= e,
             v < a \/ w < b \/ x < c \/ y < d \/ z < e
      PROVE  v + w + x + y + z < a + b + c + d + e
  BY <1>1
<1>2. /\ MainLeft \in Nat /\ WatcherLeft \in Nat /\ CommandLeft \in Nat
      /\ ServerLeft \in Nat /\ EventsLeft \in Nat
  BY StepsLeftType
<1>3. /\ MainLeft' \in Nat /\ WatcherLeft' \in Nat /\ CommandLeft' \in Nat
      /\ ServerLeft' \in Nat /\ EventsLeft' \in Nat
  BY StepsLeftTypeNext
<1>4. MainLeft' + WatcherLeft' + CommandLeft' + ServerLeft' + EventsLeft'
        < MainLeft + WatcherLeft + CommandLeft + ServerLeft + EventsLeft
  BY <1>1, <1>2, <1>3
<1>. QED  BY <1>4 DEF StepsLeft

LEMMA StepsRunOut ==
  ASSUME ProcessInv, ProcessInv', Next, Alive, Alive'
  PROVE  StepsLeft' < StepsLeft
<1>0. TypeOK /\ TypeOK' /\ StopsHaveCauses
  BY DEF ProcessInv
<1>1. /\ Len(Hooks) \in Nat /\ ran \in 0..Len(Hooks)
      /\ MainLeft \in Nat /\ WatcherLeft \in Nat /\ CommandLeft \in Nat
      /\ ServerLeft \in Nat /\ EventsLeft \in Nat
      /\ MainLeft' \in Nat /\ WatcherLeft' \in Nat /\ CommandLeft' \in Nat
      /\ ServerLeft' \in Nat /\ EventsLeft' \in Nat
  BY <1>0, StepsLeftType, StepsLeftTypeNext
<1>2. /\ main' = main /\ ran' = ran => MainLeft' = MainLeft
      /\ watcher' = watcher => WatcherLeft' = WatcherLeft
      /\ cmd' = cmd => CommandLeft' = CommandLeft
      /\ server' = server => ServerLeft' = ServerLeft
      /\ expired' = expired /\ sigterm' = sigterm => EventsLeft' = EventsLeft
  BY <1>0 DEF TypeOK, MainLeft, WatcherLeft, CommandLeft, ServerLeft, EventsLeft
<1>3. CASE Terminate
  <2>1. UNCHANGED <<main, watcher, ran, cmd, server>> /\ EventsLeft' < EventsLeft
    BY <1>3 DEF Terminate, EventsLeft
  <2>. QED  BY <2>1, <1>0, <1>1, <1>2, FewerStepsLeft
<1>4. CASE Listener
  <2>1. UNCHANGED <<main, watcher, ran, cmd, expired, sigterm>>
    BY <1>4 DEF Listener, Listens, RejectsSettings, CannotListen, ListenFails, ListenerGoes,
       notServer
  <2>2. ServerLeft' < ServerLeft
    BY <1>4 DEF Listener, Listens, RejectsSettings, CannotListen, ListenFails, ListenerGoes,
       ServerLeft
  <2>. QED  BY <2>1, <2>2, <1>0, <1>1, <1>2, FewerStepsLeft
<1>5. CASE Command
  <2>1. UNCHANGED <<main, watcher, ran, server, expired, sigterm>>
    BY <1>5 DEF Command, ServeReturns, HelpReturns, CommandReturns, ShutsDown, notCommand, serverVars
  <2>2. CommandLeft' < CommandLeft
    BY <1>5 DEF Command, ServeReturns, HelpReturns, CommandReturns, ShutsDown, CommandLeft
  <2>. QED  BY <2>1, <2>2, <1>0, <1>1, <1>2, FewerStepsLeft
<1>6. CASE Watcher
  <2>1. UNCHANGED <<main, ran, cmd, server, expired, sigterm>>
    BY <1>6 DEF Watcher, WatchShutdown, WatcherWakes, commandVars, serverVars
  <2>2. WatcherLeft' < WatcherLeft
    BY <1>6 DEF Watcher, WatchShutdown, WatcherWakes, WatcherLeft
  <2>. QED  BY <2>1, <2>2, <1>0, <1>1, <1>2, FewerStepsLeft
<1>7. CASE ServerIsUp
  <2>1. UNCHANGED <<watcher, ran, cmd, server, expired, sigterm>>
    BY <1>7 DEF ServerIsUp, commandVars, serverVars
  <2>2. MainLeft' < MainLeft
    BY <1>7, <1>1 DEF ServerIsUp, MainLeft
  <2>. QED  BY <2>1, <2>2, <1>0, <1>1, <1>2, FewerStepsLeft
<1>8. CASE StartHook
  <2>1. UNCHANGED <<watcher, server, expired, sigterm>>
    BY <1>8 DEF StartHook, serverVars
  <2>2. MainLeft' < MainLeft
    BY <1>8, <1>1 DEF StartHook, MainLeft
  <2>3. CommandLeft' <= CommandLeft
    <3>1. cmd' = cmd \/ cmd = "none"
      <4>1. CASE IsRoot(ran + 1)
        <5>1. ran + 1 \in 1..Len(Hooks)
          BY <1>8, <1>1 DEF StartHook
        <5>2. ~\E i \in 1..ran : IsRoot(i)
          BY <4>1, <5>1, <1>1, RootComesLast
        <5>. QED  BY <5>2, <1>8 DEF StartHook, ProcessInv, CommandHasHook
      <4>2. CASE ~IsRoot(ran + 1)
        BY <4>2, <1>8 DEF StartHook, IsRoot
      <4>. QED  BY <4>1, <4>2
    <3>2. CommandLeft' \in Nat /\ CommandLeft' <= 3
      BY <1>0 DEF TypeOK, CommandLeft
    <3>3. cmd = "none" => CommandLeft = 3
      BY DEF CommandLeft
    <3>. QED  BY <3>1, <3>2, <3>3, <1>1, <1>2
  <2>. QED  BY <2>1, <2>2, <2>3, <1>0, <1>1, <1>2, FewerStepsLeft
<1>9. CASE StartFails
  <2>1. UNCHANGED <<watcher, ran, cmd, server, expired, sigterm>>
    BY <1>9 DEF StartFails, commandVars, serverVars
  <2>2. MainLeft' < MainLeft
    BY <1>9, <1>1 DEF StartFails, MainLeft
  <2>. QED  BY <2>1, <2>2, <1>0, <1>1, <1>2, FewerStepsLeft
<1>10. CASE StartExpires
  <2>1. UNCHANGED <<watcher, ran, cmd, server, sigterm>>
    BY <1>10 DEF StartExpires, commandVars, serverVars
  <2>2. MainLeft' < MainLeft
    BY <1>10, <1>1 DEF StartExpires, MainLeft
  <2>3. EventsLeft' <= EventsLeft
    BY <1>10, <1>0 DEF StartExpires, EventsLeft, TypeOK
  <2>. QED  BY <2>1, <2>2, <2>3, <1>0, <1>1, <1>2, FewerStepsLeft
<1>11. CASE Started
  <2>1. UNCHANGED <<ran, cmd, server, expired, sigterm>>
    BY <1>11 DEF Started, commandVars, serverVars
  <2>2. MainLeft' < MainLeft
    BY <1>11, <1>1 DEF Started, MainLeft
  <2>3. WatcherLeft' <= WatcherLeft
    <3>1. watcher = "none"
      BY <1>11, <1>0 DEF Started, TypeOK, StopsHaveCauses
    <3>. QED  BY <3>1, <1>0 DEF TypeOK, WatcherLeft
  <2>. QED  BY <2>1, <2>2, <2>3, <1>0, <1>1, <1>2, FewerStepsLeft
<1>12. CASE RunStops \/ ServiceStops
  <2>1. UNCHANGED <<watcher, ran, cmd, server, expired, sigterm>>
    BY <1>12 DEF RunStops, ServiceStops, commandVars, serverVars, threads
  <2>2. main = "waiting" /\ main' = "stopping"
    BY <1>12 DEF RunStops, ServiceStops, Exit, Alive
  <2>3. MainLeft' < MainLeft
    BY <2>1, <2>2, <1>1 DEF MainLeft
  <2>. QED  BY <2>1, <2>3, <1>0, <1>1, <1>2, FewerStepsLeft
<1>13. CASE StopHook
  <2>1. UNCHANGED <<watcher, main, cmd, expired, sigterm>>
    BY <1>13 DEF StopHook, commandVars
  <2>2. main \in {"waiting", "stopping", "rollback"}
    BY <1>13, <1>0 DEF StopHook, Stops, StopsHaveCauses
  <2>3. MainLeft' < MainLeft
    BY <1>13, <2>1, <2>2, <1>1 DEF StopHook, MainLeft
  <2>4. ServerLeft' <= ServerLeft
    BY <1>13, <1>0 DEF StopHook, ServerLeft, TypeOK
  <2>. QED  BY <2>1, <2>3, <2>4, <1>0, <1>1, <1>2, FewerStepsLeft
<1>14. CASE StopExpires
  <2>1. UNCHANGED <<main, watcher, ran, cmd, server, sigterm>>
    BY <1>14 DEF StopExpires, commandVars, serverVars
  <2>2. EventsLeft' < EventsLeft
    BY <1>14, <2>1 DEF StopExpires, EventsLeft
  <2>. QED  BY <2>1, <2>2, <1>0, <1>1, <1>2, FewerStepsLeft
<1>15. CASE Launch \/ ServerIsDown \/ StopReturns
  BY <1>15 DEF Launch, ServerIsDown, StopReturns, Exit, Alive
<1>. QED
  BY <1>3, <1>4, <1>5, <1>6, <1>7, <1>8, <1>9, <1>10, <1>11, <1>12, <1>13, <1>14, <1>15
     DEF Next, Steps, Main

\* A living process runs out of steps, whatever its threads do and in whatever order:
\* no signal, hook or thread comes back.  As long as one that is fair can go on
\* (EndIsNeverMissed), it ends.
THEOREM ProcessIsFinite ==
  Spec => [](StepsLeft \in Nat) /\ [][Alive /\ Alive' => StepsLeft' < StepsLeft]_vars
<1>1. ProcessInv => StepsLeft \in Nat
  BY StepsLeftType DEF ProcessInv, StepsLeft
<1>2. ProcessInv /\ ProcessInv' /\ [Next]_vars => [Alive /\ Alive' => StepsLeft' < StepsLeft]_vars
  BY StepsRunOut
<1>. QED  BY <1>1, <1>2, ProcessIsSafe, PTL DEF Spec
=============================================================================
