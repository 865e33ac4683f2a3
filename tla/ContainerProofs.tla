-------------------------- MODULE ContainerProofs ---------------------------
(***************************************************************************)
(* Theorems about the declarations of an application, for any keys, any    *)
(* number of declarations and any nesting of groups: every consumer asks   *)
(* for the binding that the declarations mean, and finds it; and the       *)
(* values of a group come in their order.                                  *)
(***************************************************************************)
EXTENDS Container, TLAPS, WellFoundedInduction, FiniteSetTheorems, FunctionTheorems

-----------------------------------------------------------------------------
(* Induction and recursion over the natural numbers, with sets and         *)
(* functions in the place of predicates and of operators.                  *)

LEMMA Induction ==
  ASSUME NEW S, 0 \in S, \A n \in Nat : n \in S => n + 1 \in S
  PROVE  Nat \subseteq S
<1>. DEFINE T == Nat \ S
<1>1. SUFFICES ASSUME T # {} PROVE FALSE
  OBVIOUS
<1>2. \E x \in T : \A y \in T : ~(<<y, x>> \in OpToRel(<, Nat))
  BY <1>1, WFMin, NatLessThanWellFounded, Zenon
<1>3. PICK x \in T : \A y \in T : ~(y < x)
  BY <1>2 DEF OpToRel
<1>4. x # 0 /\ x - 1 \in Nat
  OBVIOUS
<1>5. x - 1 \in S
  BY <1>3, <1>4
<1>. QED  BY <1>4, <1>5

\* Every number has a parent, which is a smaller one.
Parents(n, p) == p \in [1..n -> 0..n] /\ \A i \in 1..n : p[i] < i

\* A function computes each value from that of the parent.
Computes(f, n, p, b, T) == f[0] = b /\ \A i \in 1..n : f[i] = T[<<f[p[i]], i>>]

\* A property of the numbers up to n that passes from the parent of a number to it.
LEMMA ParentInduction ==
  ASSUME NEW n \in Nat, NEW p, Parents(n, p),
         NEW S, 0 \in S, \A i \in 1..n : p[i] \in S => i \in S
  PROVE  0..n \subseteq S
<1>. DEFINE U == {m \in Nat : m <= n => 0..m \subseteq S}
<1>1. 0 \in U
  OBVIOUS
<1>2. ASSUME NEW m \in Nat, m \in U PROVE m + 1 \in U
  <2>1. SUFFICES ASSUME m + 1 <= n PROVE 0..(m + 1) \subseteq S
    OBVIOUS
  <2>2. 0..m \subseteq S
    BY <1>2, <2>1
  <2>3. m + 1 \in 1..n /\ p[m + 1] \in 0..m
    BY <2>1 DEF Parents
  <2>4. m + 1 \in S
    BY <2>2, <2>3
  <2>. QED  BY <2>2, <2>4
<1>. HIDE DEF U
<1>3. n \in U
  BY <1>1, <1>2, Induction
<1>. QED  BY <1>3 DEF U

\* There is a function that computes each value from that of the parent.
LEMMA Recursion ==
  ASSUME NEW n \in Nat, NEW p, Parents(n, p),
         NEW V, NEW b \in V, NEW T \in [V \X (1..n) -> V]
  PROVE  \E f \in [0..n -> V] : Computes(f, n, p, b, T)
<1>. DEFINE Upto(f, m) == \A i \in 0..m : f[i] = IF i = 0 THEN b ELSE T[<<f[p[i]], i>>]
            U == {m \in Nat : m <= n => \E f \in [0..m -> V] : Upto(f, m)}
<1>1. 0 \in U
  <2>1. [i \in 0..0 |-> b] \in [0..0 -> V] /\ Upto([i \in 0..0 |-> b], 0)
    OBVIOUS
  <2>. QED  BY <2>1
<1>2. ASSUME NEW m \in Nat, m \in U PROVE m + 1 \in U
  <2>1. SUFFICES ASSUME m + 1 <= n PROVE \E f \in [0..(m + 1) -> V] : Upto(f, m + 1)
    OBVIOUS
  <2>2. PICK f \in [0..m -> V] : Upto(f, m)
    BY <1>2, <2>1
  <2>3. m + 1 \in 1..n /\ p[m + 1] \in 0..m
    BY <2>1 DEF Parents
  <2>. DEFINE e == T[<<f[p[m + 1]], m + 1>>]
              h == [i \in 0..(m + 1) |-> IF i <= m THEN f[i] ELSE e]
  <2>4. e \in V
    BY <2>3
  <2>5. h \in [0..(m + 1) -> V]
    BY <2>4
  <2>6. ASSUME NEW i \in 0..(m + 1)
        PROVE  h[i] = IF i = 0 THEN b ELSE T[<<h[p[i]], i>>]
    <3>1. CASE i <= m
      <4>1. h[i] = f[i] /\ i \in 0..m
        BY <3>1
      <4>2. i # 0 => p[i] \in 0..m
        BY <3>1, <2>1 DEF Parents
      <4>3. i # 0 => h[p[i]] = f[p[i]]
        BY <4>2
      <4>. QED  BY <4>1, <4>3, <2>2
    <3>2. CASE i = m + 1
      <4>1. h[i] = e /\ h[p[i]] = f[p[i]]
        BY <3>2, <2>3
      <4>. QED  BY <4>1, <3>2
    <3>. QED  BY <3>1, <3>2
  <2>. QED  BY <2>5, <2>6
<1>. HIDE DEF U
<1>3. n \in U
  BY <1>1, <1>2, Induction
<1>4. PICK f \in [0..n -> V] : Upto(f, n)
  BY <1>3 DEF U
<1>5. Computes(f, n, p, b, T)
  <2>1. 0 \in 0..n /\ \A i \in 1..n : i \in 0..n /\ i # 0
    OBVIOUS
  <2>2. f[0] = b /\ \A i \in 1..n : f[i] = T[<<f[p[i]], i>>]
    BY <1>4, <2>1, Zenon
  <2>. QED  BY <2>2 DEF Computes
<1>. QED  BY <1>5

-----------------------------------------------------------------------------
(* The lists of an application.                                            *)

NodeType ==
  [kind : {"provide", "replace", "default", "module", "options", "branch"},
   mode : Modes, tags : SUBSET Keys, in : Nat]

\* An application: groups begin before what stands in them.
Tree(nodes) ==
  /\ nodes \in Seq(NodeType)
  /\ \A i \in DOMAIN nodes :
       nodes[i].in # 0 => nodes[i].in < i /\ IsGroup(nodes[nodes[i].in])

LEMMA NodesOfTree ==
  ASSUME NEW nodes, Tree(nodes)
  PROVE  /\ Len(nodes) \in Nat /\ DOMAIN nodes = 1..Len(nodes)
         /\ \A i \in 1..Len(nodes) :
              /\ nodes[i] \in NodeType
              /\ nodes[i].kind \in {"provide", "replace", "default", "module", "options", "branch"}
              /\ nodes[i].in \in 0..Len(nodes) /\ nodes[i].in < i
              /\ nodes[i].in # 0 => nodes[i].in \in 1..Len(nodes)
<1>1. nodes \in Seq(NodeType)
  BY DEF Tree
<1>2. Len(nodes) \in Nat /\ DOMAIN nodes = 1..Len(nodes)
  BY <1>1
<1>3. ASSUME NEW i \in 1..Len(nodes)
      PROVE  /\ nodes[i] \in NodeType
             /\ nodes[i].kind \in {"provide", "replace", "default", "module", "options", "branch"}
             /\ nodes[i].in \in 0..Len(nodes) /\ nodes[i].in < i
             /\ nodes[i].in # 0 => nodes[i].in \in 1..Len(nodes)
  <2>1. nodes[i] \in NodeType
    BY <1>1, <1>2, <1>3
  <2>2. nodes[i].in \in Nat
        /\ nodes[i].kind \in {"provide", "replace", "default", "module", "options", "branch"}
    BY <2>1 DEF NodeType
  <2>3. nodes[i].in # 0 => nodes[i].in < i
    BY <1>2, <1>3 DEF Tree
  <2>. QED  BY <2>1, <2>2, <2>3, <1>2
<1>. QED  BY <1>2, <1>3

\* spliceOptions: every declaration is in a list, which is 0 or a module or a branch that
\* began before it.
LEMMA ListOfNode ==
  ASSUME NEW nodes, Tree(nodes)
  PROVE  /\ Lists(nodes) \in [0..Len(nodes) -> 0..Len(nodes)]
         /\ Lists(nodes)[0] = 0
         /\ \A i \in 1..Len(nodes) :
              /\ Lists(nodes)[i] < i
              /\ Lists(nodes)[i] # 0 => nodes[Lists(nodes)[i]].kind \in {"module", "branch"}
<1>. DEFINE n == Len(nodes)
            p == [i \in 1..n |-> nodes[i].in]
            lifted(i) == nodes[i].in # 0 /\ nodes[nodes[i].in].kind = "options"
            T == [x \in (0..n) \X (1..n) |-> IF lifted(x[2]) THEN x[1] ELSE nodes[x[2]].in]
            Is(f) == f = [i \in 0..n |-> IF i = 0 THEN 0
                                         ELSE IF lifted(i) THEN f[nodes[i].in]
                                         ELSE nodes[i].in]
<1>1. n \in Nat /\ Parents(n, p)
  BY NodesOfTree DEF Parents
<1>2. T \in [(0..n) \X (1..n) -> 0..n]
  BY NodesOfTree
<1>3. 0 \in 0..n
  BY <1>1
<1>4. PICK f \in [0..n -> 0..n] : Computes(f, n, p, 0, T)
  <2>. HIDE DEF n, p, T
  <2>. QED  BY <1>1, <1>2, <1>3, Recursion, Zenon
<1>5. ASSUME NEW i \in 1..n PROVE T[<<f[p[i]], i>>] = IF lifted(i) THEN f[nodes[i].in] ELSE nodes[i].in
  <2>1. f[p[i]] \in 0..n /\ p[i] = nodes[i].in
    BY <1>1 DEF Parents
  <2>. QED  BY <2>1
<1>6. Is(f)
  <2>1. \A i \in 0..n : f[i] = IF i = 0 THEN 0 ELSE IF lifted(i) THEN f[nodes[i].in] ELSE nodes[i].in
    <3>. HIDE DEF p, T, lifted
    <3>. QED  BY <1>4, <1>5 DEF Computes
  <2>. HIDE DEF lifted, T, p
  <2>. QED  BY <2>1
<1>7. Is(Lists(nodes))
  BY <1>6 DEF Lists
<1>. DEFINE list == Lists(nodes)
            Good(i) == /\ list[i] \in 0..n
                       /\ i # 0 => list[i] < i
                       /\ list[i] # 0 => nodes[list[i]].kind \in {"module", "branch"}
            S == {i \in 0..n : Good(i)}
<1>. HIDE DEF list
<1>8. list[0] = 0 /\ \A i \in 1..n : list[i] = IF lifted(i) THEN list[nodes[i].in] ELSE nodes[i].in
  BY <1>7, <1>1 DEF list
<1>9. 0 \in S
  BY <1>8, <1>1
<1>10. ASSUME NEW i \in 1..n, p[i] \in S PROVE i \in S
  <2>1. Good(nodes[i].in) /\ nodes[i].in \in 0..n /\ nodes[i].in < i
    BY <1>10, NodesOfTree
  <2>2. CASE lifted(i)
    BY <1>8, <2>1, <2>2
  <2>3. CASE ~lifted(i)
    <3>1. list[i] = nodes[i].in
      BY <1>8, <2>3
    <3>2. nodes[i].in # 0 => IsGroup(nodes[nodes[i].in])
      BY NodesOfTree DEF Tree
    <3>. QED  BY <3>1, <3>2, <2>1, <2>3 DEF IsGroup
  <2>. QED  BY <2>2, <2>3
<1>11. 0..n \subseteq S
  <2>. HIDE DEF p, S
  <2>. QED  BY <1>1, <1>9, <1>10, ParentInduction
<1>12. \A i \in 0..n : Good(i)
  BY <1>11
<1>13. list \in [0..n -> 0..n]
  BY <1>12, <1>7 DEF list
<1>. QED  BY <1>8, <1>12, <1>13 DEF list

-----------------------------------------------------------------------------
(* The choice among specifications.                                        *)

SpecType ==
  [tags : SUBSET Keys, pos : Int, depth : Nat, id : Nat, mode : Modes,
   inherited : BOOLEAN, isDefault : BOOLEAN]

LEMMA ScoreType ==
  ASSUME NEW ts, NEW tags
  PROVE  /\ Score(ts, tags) \in -1..3
         /\ Score(ts, tags) >= 0 <=> FitsAny(ts, tags)
<1>. DEFINE scores == {-1} \cup {Specificity(rt) : rt \in {rt \in tags : Fits(ts, rt)}}
            greatest(s) == s \in scores /\ \A t \in scores : t <= s
<1>1. \A rt : Specificity(rt) \in 0..3
  <2>1. ASSUME NEW rt PROVE Specificity(rt) \in {0, 1, 2, 3}
    <3>. DEFINE g == IF rt.group # "" THEN 2 ELSE 0
                m == IF rt.name # "" THEN 1 ELSE 0
    <3>1. Specificity(rt) = g + m
      BY DEF Specificity
    <3>2. g \in {0, 2} /\ m \in {0, 1}
      OBVIOUS
    <3>. HIDE DEF g, m
    <3>. QED  BY <3>1, <3>2
  <2>. QED  BY <2>1
<1>2. scores \subseteq -1..3 /\ -1 \in scores
  BY <1>1
<1>3. \E s : greatest(s)
  <2>. HIDE DEF scores
  <2>1. CASE 3 \in scores
    BY <1>2, <2>1
  <2>2. CASE 3 \notin scores /\ 2 \in scores
    BY <1>2, <2>2
  <2>3. CASE 3 \notin scores /\ 2 \notin scores /\ 1 \in scores
    BY <1>2, <2>3
  <2>4. CASE 3 \notin scores /\ 2 \notin scores /\ 1 \notin scores /\ 0 \in scores
    BY <1>2, <2>4
  <2>5. CASE 3 \notin scores /\ 2 \notin scores /\ 1 \notin scores /\ 0 \notin scores
    BY <1>2, <2>5
  <2>. QED  BY <2>1, <2>2, <2>3, <2>4, <2>5
<1>4. Score(ts, tags) = CHOOSE s \in scores : \A t \in scores : t <= s
  BY DEF Score
<1>5. greatest(Score(ts, tags))
  <2>. HIDE DEF scores
  <2>. QED  BY <1>3, <1>4
<1>6. Score(ts, tags) >= 0 <=> \E s \in scores : s >= 0
  <2>. HIDE DEF scores
  <2>1. Score(ts, tags) \in scores /\ Score(ts, tags) \in Int
    <3>1. Score(ts, tags) \in scores
      BY <1>5
    <3>2. \A s \in scores : s \in Int
      BY <1>2
    <3>. QED  BY <3>1, <3>2, Zenon
  <2>2. ASSUME NEW s \in scores, s >= 0 PROVE Score(ts, tags) >= 0
    <3>1. s \in Int /\ s <= Score(ts, tags)
      BY <1>2, <1>5
    <3>. QED  BY <3>1, <2>1, <2>2
  <2>. QED  BY <2>1, <2>2
<1>7. (\E s \in scores : s >= 0) <=> \E rt \in tags : Fits(ts, rt)
  BY <1>1
<1>. QED  BY <1>2, <1>5, <1>6, <1>7 DEF FitsAny

\* `better` is a strict total order of the specifications that fit.
LEMMA BetterIsOrder ==
  ASSUME NEW ts, NEW specs \in Seq(SpecType), NEW i \in DOMAIN specs,
         NEW j \in DOMAIN specs, NEW k \in DOMAIN specs
  PROVE  /\ Better(ts, specs, i, j) /\ Better(ts, specs, j, k) => Better(ts, specs, i, k)
         /\ FitsAny(ts, specs[i].tags) /\ i # j => Better(ts, specs, i, j) \/ Better(ts, specs, j, i)
                                                   \/ ~FitsAny(ts, specs[j].tags)
         /\ Better(ts, specs, i, j) => FitsAny(ts, specs[i].tags)
<1>. DEFINE s(x) == Score(ts, specs[x].tags)
            d(x) == specs[x].depth
            e(x) == specs[x].isDefault
<1>1. ASSUME NEW x \in DOMAIN specs
      PROVE  x \in Nat \ {0} /\ s(x) \in Int /\ d(x) \in Int /\ e(x) \in BOOLEAN
             /\ (s(x) >= 0 <=> FitsAny(ts, specs[x].tags))
  <2>1. specs[x] \in SpecType /\ x \in Nat \ {0}
    BY <1>1
  <2>2. d(x) \in Int /\ e(x) \in BOOLEAN
    BY <2>1 DEF SpecType
  <2>3. s(x) \in -1..3 /\ (s(x) >= 0 <=> FitsAny(ts, specs[x].tags))
    BY ScoreType
  <2>. HIDE DEF s, d, e
  <2>. QED  BY <2>1, <2>2, <2>3
<1>2. ASSUME NEW x \in DOMAIN specs, NEW y \in DOMAIN specs
      PROVE  Better(ts, specs, x, y) <=>
               /\ s(x) >= 0
               /\ \/ e(x) # e(y) /\ ~e(x)
                  \/ /\ e(x) = e(y)
                     /\ \/ s(x) > s(y)
                        \/ s(x) = s(y) /\ d(x) > d(y)
                        \/ s(x) = s(y) /\ d(x) = d(y) /\ x > y
  BY <1>1 DEF Better
<1>. HIDE DEF s, d, e
<1>. QED  BY <1>1, <1>2

\* selectReplacement chooses the best of all that fit.
LEMMA SelectIsBest ==
  ASSUME NEW ts, NEW specs \in Seq(SpecType)
  PROVE  LET b == Select(ts, specs) IN
         /\ b \in 0..Len(specs)
         /\ b = 0 => \A k \in DOMAIN specs : ~FitsAny(ts, specs[k].tags)
         /\ b # 0 => /\ FitsAny(ts, specs[b].tags)
                     /\ \A k \in DOMAIN specs : k # b /\ FitsAny(ts, specs[k].tags) =>
                          Better(ts, specs, b, k)
<1>. DEFINE n == Len(specs)
            p == [i \in 1..n |-> i - 1]
            T == [x \in (0..n) \X (1..n) |-> IF Better(ts, specs, x[2], x[1]) THEN x[2] ELSE x[1]]
            Is(f) == f = [i \in 0..n |-> IF i = 0 THEN 0
                                         ELSE IF Better(ts, specs, i, f[i - 1]) THEN i ELSE f[i - 1]]
<1>1. n \in Nat /\ DOMAIN specs = 1..n /\ 0 \in 0..n
  OBVIOUS
<1>2. Parents(n, p)
  BY <1>1 DEF Parents
<1>3. T \in [(0..n) \X (1..n) -> 0..n]
  OBVIOUS
<1>4. PICK f \in [0..n -> 0..n] : Computes(f, n, p, 0, T)
  <2>. HIDE DEF n, p, T
  <2>. QED  BY <1>1, <1>2, <1>3, Recursion, Zenon
<1>5. ASSUME NEW i \in 1..n
      PROVE  T[<<f[p[i]], i>>] = IF Better(ts, specs, i, f[i - 1]) THEN i ELSE f[i - 1]
  <2>1. f[p[i]] \in 0..n /\ p[i] = i - 1
    BY <1>1
  <2>. QED  BY <2>1
<1>6. Is(f)
  <2>1. \A i \in 0..n : f[i] = IF i = 0 THEN 0
                               ELSE IF Better(ts, specs, i, f[i - 1]) THEN i ELSE f[i - 1]
    <3>. HIDE DEF p, T
    <3>. QED  BY <1>1, <1>4, <1>5 DEF Computes
  <2>. HIDE DEF p, T
  <2>. QED  BY <2>1
<1>. DEFINE g == CHOOSE h : Is(h)
<1>7. Is(g)
  BY <1>6
<1>8. Select(ts, specs) = g[n]
  BY DEF Select
<1>. HIDE DEF g
<1>9. g[0] = 0 /\ \A i \in 1..n : g[i] = IF Better(ts, specs, i, g[i - 1]) THEN i ELSE g[i - 1]
  BY <1>7, <1>1
<1>. DEFINE fit(k) == FitsAny(ts, specs[k].tags)
            Best(i, b) == /\ b \in 0..i
                          /\ b = 0 => \A k \in 1..i : ~fit(k)
                          /\ b # 0 => fit(b) /\ \A k \in 1..i : k # b /\ fit(k) =>
                                                 Better(ts, specs, b, k)
            S == {i \in Nat : i <= n => Best(i, g[i])}
<1>10. 0 \in S
  BY <1>9
<1>11. ASSUME NEW i \in Nat, i \in S PROVE i + 1 \in S
  <2>1. SUFFICES ASSUME i + 1 <= n PROVE Best(i + 1, g[i + 1])
    OBVIOUS
  <2>2. Best(i, g[i])
    BY <1>11, <2>1
  <2>3. i + 1 \in 1..n /\ 1..i \subseteq 1..n /\ (i + 1) - 1 = i /\ g[i] \in Nat
    BY <2>1, <2>2
  <2>4. g[i + 1] = IF Better(ts, specs, i + 1, g[i]) THEN i + 1 ELSE g[i]
    BY <1>9, <2>3
  <2>5. Better(ts, specs, i + 1, 0) <=> fit(i + 1)
    BY ScoreType DEF Better
  <2>6. CASE Better(ts, specs, i + 1, g[i]) /\ g[i] = 0
    <3>1. g[i + 1] = i + 1 /\ fit(i + 1)
      BY <2>4, <2>5, <2>6
    <3>. HIDE DEF fit
    <3>. QED  BY <3>1, <2>2, <2>6
  <2>7. CASE Better(ts, specs, i + 1, g[i]) /\ g[i] # 0
    <3>1. g[i + 1] = i + 1
      BY <2>4, <2>7
    <3>2. g[i] \in 1..n /\ g[i] # i + 1 /\ fit(i + 1)
      BY <2>2, <2>3, <2>7, <1>1, BetterIsOrder
    <3>3. ASSUME NEW k \in 1..(i + 1), k # i + 1, fit(k) PROVE Better(ts, specs, i + 1, k)
      <4>1. k \in 1..i /\ k \in DOMAIN specs /\ i + 1 \in DOMAIN specs /\ g[i] \in DOMAIN specs
        BY <3>2, <3>3, <2>3, <1>1
      <4>2. CASE k = g[i]
        BY <4>2, <2>7
      <4>3. CASE k # g[i]
        <5>1. Better(ts, specs, g[i], k)
          BY <4>1, <4>3, <3>3, <2>2, <2>7
        <5>. QED  BY <5>1, <2>7, <4>1, BetterIsOrder
      <4>. QED  BY <4>2, <4>3
    <3>. HIDE DEF fit
    <3>. QED  BY <3>1, <3>2, <3>3
  <2>8. CASE ~Better(ts, specs, i + 1, g[i])
    <3>1. g[i + 1] = g[i]
      BY <2>4, <2>8
    <3>2. CASE g[i] = 0
      <4>1. ~fit(i + 1)
        BY <2>5, <2>8, <3>2
      <4>. HIDE DEF fit
      <4>. QED  BY <4>1, <3>1, <3>2, <2>2
    <3>3. CASE g[i] # 0
      <4>1. g[i] \in DOMAIN specs /\ i + 1 \in DOMAIN specs /\ g[i] # i + 1 /\ fit(g[i])
        BY <2>2, <2>3, <3>3, <1>1
      <4>2. fit(i + 1) => Better(ts, specs, g[i], i + 1)
        BY <4>1, <2>8, BetterIsOrder
      <4>. HIDE DEF fit
      <4>. QED  BY <4>1, <4>2, <3>1, <3>3, <2>2
    <3>. QED  BY <3>2, <3>3
  <2>. QED  BY <2>6, <2>7, <2>8
<1>. HIDE DEF S
<1>12. n \in S
  BY <1>1, <1>10, <1>11, Induction
<1>13. Best(n, g[n])
  BY <1>12, <1>1 DEF S
<1>. QED  BY <1>13, <1>8, <1>1

-----------------------------------------------------------------------------
(* What is computed list by list, each from the list around it.            *)

Outer(nodes) == [l \in 1..Len(nodes) |-> Lists(nodes)[l]]

LEMMA OuterIsParent ==
  ASSUME NEW nodes, Tree(nodes)
  PROVE  /\ Len(nodes) \in Nat /\ Parents(Len(nodes), Outer(nodes))
         /\ \A l \in 1..Len(nodes) :
              Outer(nodes)[l] = Lists(nodes)[l] /\ Lists(nodes)[l] \in 0..Len(nodes)
BY ListOfNode, NodesOfTree DEF Outer, Parents

\* A function computes each list from the list around it.
ComputesLists(f, nodes, V, b, T) ==
  /\ f[0] = b
  /\ \A l \in 1..Len(nodes) : f[Lists(nodes)[l]] \in V /\ f[l] = T[<<f[Lists(nodes)[l]], l>>]

LEMMA ListRecursion ==
  ASSUME NEW nodes, Tree(nodes), NEW V, NEW b \in V, NEW T \in [V \X (1..Len(nodes)) -> V]
  PROVE  \E f \in [0..Len(nodes) -> V] : ComputesLists(f, nodes, V, b, T)
<1>1. PICK f \in [0..Len(nodes) -> V] : Computes(f, Len(nodes), Outer(nodes), b, T)
  BY OuterIsParent, Recursion, Zenon
<1>2. f[0] = b
  BY <1>1 DEF Computes
<1>3. ASSUME NEW l \in 1..Len(nodes)
      PROVE  f[Lists(nodes)[l]] \in V /\ f[l] = T[<<f[Lists(nodes)[l]], l>>]
  BY <1>1, OuterIsParent DEF Computes
<1>. QED  BY <1>2, <1>3 DEF ComputesLists

LEMMA ListInduction ==
  ASSUME NEW nodes, Tree(nodes), NEW S, 0 \in S,
         \A l \in 1..Len(nodes) : Lists(nodes)[l] \in S => l \in S
  PROVE  0..Len(nodes) \subseteq S
<1>1. \A l \in 1..Len(nodes) : Outer(nodes)[l] \in S => l \in S
  BY OuterIsParent
<1>. QED  BY <1>1, OuterIsParent, ParentInduction, Zenon

LEMMA DepthOfList ==
  ASSUME NEW nodes, Tree(nodes)
  PROVE  /\ Depths(nodes) \in [0..Len(nodes) -> Nat]
         /\ \A l \in 1..Len(nodes) : Depths(nodes)[Lists(nodes)[l]] <= Depths(nodes)[l]
<1>. DEFINE n == Len(nodes)
            list == Lists(nodes)
            more(l) == IF nodes[l].kind = "module" THEN 1 ELSE 0
            T == [x \in Nat \X (1..n) |-> x[1] + more(x[2])]
            Is(f) == f = [l \in 0..n |-> IF l = 0 THEN 0 ELSE f[list[l]] + more(l)]
<1>0. n \in Nat
  BY NodesOfTree
<1>1. T \in [Nat \X (1..n) -> Nat]
  OBVIOUS
<1>2. PICK f \in [0..n -> Nat] : ComputesLists(f, nodes, Nat, 0, T)
  <2>1. 0 \in Nat
    OBVIOUS
  <2>. HIDE DEF T
  <2>. QED  BY <1>1, <2>1, ListRecursion, Zenon
<1>3. ASSUME NEW l \in 0..n PROVE f[l] = IF l = 0 THEN 0 ELSE f[list[l]] + more(l)
  <2>1. CASE l = 0
    BY <1>2, <2>1 DEF ComputesLists
  <2>2. CASE l \in 1..n
    <3>1. f[list[l]] \in Nat /\ f[l] = T[<<f[list[l]], l>>]
      BY <1>2, <2>2 DEF ComputesLists
    <3>. HIDE DEF list
    <3>. QED  BY <3>1, <2>2
  <2>. QED  BY <2>1, <2>2, <1>0
<1>4. Is(f)
  <2>. HIDE DEF more, list
  <2>. QED  BY <1>3
<1>5. Is(Depths(nodes))
  BY <1>4 DEF Depths
<1>. DEFINE g == Depths(nodes)
<1>. HIDE DEF g
<1>6. g[0] = 0 /\ DOMAIN g = 0..n /\ \A l \in 1..n : g[l] = g[list[l]] + more(l)
  <2>1. g = [l \in 0..n |-> IF l = 0 THEN 0 ELSE g[list[l]] + more(l)]
    BY <1>5 DEF g
  <2>. HIDE DEF more, list
  <2>. QED  BY <1>0, <2>1
<1>. DEFINE S == {l \in 0..n : g[l] \in Nat}
<1>7. 0..n \subseteq S
  <2>1. 0 \in S
    BY <1>6, NodesOfTree
  <2>2. ASSUME NEW l \in 1..n, list[l] \in S PROVE l \in S
    BY <1>6, <2>2
  <2>. HIDE DEF S
  <2>. QED  BY <2>1, <2>2, ListInduction
<1>8. g \in [0..n -> Nat]
  BY <1>6, <1>7, <1>5 DEF g
<1>9. \A l \in 1..n : g[list[l]] <= g[l]
  BY <1>6, <1>8, OuterIsParent
<1>. QED  BY <1>8, <1>9 DEF g

LEMMA AroundList ==
  ASSUME NEW nodes, Tree(nodes)
  PROVE  /\ Around(nodes) \in [0..Len(nodes) -> SUBSET (0..Len(nodes))]
         /\ Around(nodes)[0] = {0}
         /\ \A l \in 1..Len(nodes) : Around(nodes)[l] = {l} \cup Around(nodes)[Lists(nodes)[l]]
<1>. DEFINE n == Len(nodes)
            list == Lists(nodes)
            V == SUBSET (0..n)
            T == [x \in V \X (1..n) |-> {x[2]} \cup x[1]]
            Is(f) == f = [l \in 0..n |-> IF l = 0 THEN {0} ELSE {l} \cup f[list[l]]]
<1>0. n \in Nat
  BY NodesOfTree
<1>1. T \in [V \X (1..n) -> V]
  OBVIOUS
<1>2. PICK f \in [0..n -> V] : ComputesLists(f, nodes, V, {0}, T)
  <2>1. {0} \in V
    BY NodesOfTree
  <2>. HIDE DEF T, V
  <2>. QED  BY <1>1, <2>1, ListRecursion, Zenon
<1>3. ASSUME NEW l \in 0..n PROVE f[l] = IF l = 0 THEN {0} ELSE {l} \cup f[list[l]]
  <2>1. CASE l = 0
    BY <1>2, <2>1 DEF ComputesLists
  <2>2. CASE l \in 1..n
    <3>1. f[list[l]] \in V /\ f[l] = T[<<f[list[l]], l>>]
      BY <1>2, <2>2 DEF ComputesLists
    <3>2. ASSUME NEW v \in V PROVE T[<<v, l>>] = {l} \cup v
      BY <2>2
    <3>3. l # 0
      BY <2>2
    <3>. HIDE DEF list, T, V
    <3>. QED  BY <3>1, <3>2, <3>3
  <2>. QED  BY <2>1, <2>2, <1>0
<1>4. Is(f)
  <2>. HIDE DEF list
  <2>. QED  BY <1>3
<1>5. Is(Around(nodes))
  BY <1>4 DEF Around
<1>. DEFINE g == Around(nodes)
<1>. HIDE DEF g
<1>6. g[0] = {0} /\ \A l \in 1..n : g[l] = {l} \cup g[list[l]]
  <2>1. g = [l \in 0..n |-> IF l = 0 THEN {0} ELSE {l} \cup g[list[l]]]
    BY <1>5 DEF g
  <2>. HIDE DEF list
  <2>2. g[0] = {0}
    BY <1>0, <2>1
  <2>3. ASSUME NEW l \in 1..n PROVE g[l] = {l} \cup g[list[l]]
    <3>1. l \in 0..n /\ l # 0
      BY <1>0
    <3>. QED  BY <3>1, <2>1
  <2>. QED  BY <2>2, <2>3
<1>. DEFINE S == {l \in 0..n : g[l] \in V}
<1>7. 0..n \subseteq S
  <2>1. 0 \in S
    BY <1>6, NodesOfTree
  <2>2. ASSUME NEW l \in 1..n, list[l] \in S PROVE l \in S
    BY <1>6, <2>2
  <2>. HIDE DEF S
  <2>. QED  BY <2>1, <2>2, ListInduction
<1>8. g \in [0..n -> V]
  BY <1>7, <1>5 DEF g
<1>. QED  BY <1>6, <1>8 DEF g

\* collectScopeProvides
LEMMA CollectorsOfList ==
  ASSUME NEW nodes, Tree(nodes)
  PROVE  /\ Collectors(nodes) \in [0..Len(nodes) -> SUBSET (0..Len(nodes))]
         /\ Collectors(nodes)[0] = {0}
         /\ \A l \in 1..Len(nodes) :
              Collectors(nodes)[l] = {l} \cup (IF nodes[l].kind = "module" THEN Collectors(nodes)[Lists(nodes)[l]] ELSE {})
<1>. DEFINE n == Len(nodes)
            list == Lists(nodes)
            V == SUBSET (0..n)
            T == [x \in V \X (1..n) |-> {x[2]} \cup (IF nodes[x[2]].kind = "module" THEN x[1] ELSE {})]
            Is(f) == f = [l \in 0..n |-> IF l = 0 THEN {0} ELSE {l} \cup (IF nodes[l].kind = "module" THEN f[list[l]] ELSE {})]
<1>0. n \in Nat
  BY NodesOfTree
<1>1. T \in [V \X (1..n) -> V] /\ {0} \in V
  BY <1>0
<1>2. PICK f \in [0..n -> V] : ComputesLists(f, nodes, V, {0}, T)
  <2>. HIDE DEF T, V
  <2>. QED  BY <1>1, ListRecursion, Zenon
<1>3. ASSUME NEW l \in 0..n PROVE f[l] = IF l = 0 THEN {0} ELSE {l} \cup (IF nodes[l].kind = "module" THEN f[list[l]] ELSE {})
  <2>1. CASE l = 0
    BY <1>2, <2>1 DEF ComputesLists
  <2>2. CASE l \in 1..n
    <3>1. f[list[l]] \in V /\ f[l] = T[<<f[list[l]], l>>]
      BY <1>2, <2>2 DEF ComputesLists
    <3>2. ASSUME NEW v \in V PROVE T[<<v, l>>] = {l} \cup (IF nodes[l].kind = "module" THEN v ELSE {})
      BY <2>2
    <3>3. l # 0
      BY <2>2
    <3>. HIDE DEF list, T, V
    <3>. QED  BY <3>1, <3>2, <3>3
  <2>. QED  BY <2>1, <2>2, <1>0
<1>4. Is(f)
  <2>. HIDE DEF list
  <2>. QED  BY <1>3
<1>5. Is(Collectors(nodes))
  BY <1>4 DEF Collectors
<1>. DEFINE g == Collectors(nodes)
<1>. HIDE DEF g
<1>6. g[0] = {0} /\ \A l \in 1..n : g[l] = {l} \cup (IF nodes[l].kind = "module" THEN g[list[l]] ELSE {})
  <2>1. g = [l \in 0..n |-> IF l = 0 THEN {0} ELSE {l} \cup (IF nodes[l].kind = "module" THEN g[list[l]] ELSE {})]
    BY <1>5 DEF g
  <2>. HIDE DEF list
  <2>2. g[0] = {0}
    BY <1>0, <2>1
  <2>3. ASSUME NEW l \in 1..n PROVE g[l] = {l} \cup (IF nodes[l].kind = "module" THEN g[list[l]] ELSE {})
    <3>1. l \in 0..n /\ l # 0
      BY <1>0
    <3>. QED  BY <3>1, <2>1
  <2>. QED  BY <2>2, <2>3
<1>. DEFINE S == {l \in 0..n : g[l] \in V}
<1>7. 0..n \subseteq S
  <2>1. 0 \in S
    BY <1>0, <1>1, <1>6
  <2>2. ASSUME NEW l \in 1..n, list[l] \in S PROVE l \in S
    <3>1. T[<<g[list[l]], l>>] \in V /\ T[<<g[list[l]], l>>] = {l} \cup (IF nodes[l].kind = "module" THEN g[list[l]] ELSE {})
      BY <1>1, <2>2
    <3>. HIDE DEF T
    <3>. QED  BY <3>1, <1>6, <2>2, <1>0
  <2>. HIDE DEF S
  <2>. QED  BY <2>1, <2>2, ListInduction
<1>8. g \in [0..n -> V]
  BY <1>7, <1>5 DEF g
<1>. QED  BY <1>6, <1>8 DEF g

LEMMA ScopeProvidesType ==
  ASSUME NEW nodes, Tree(nodes), NEW list
  PROVE  ScopeProvides(nodes, list) \in SUBSET Keys
<1>1. \A i \in DOMAIN nodes : nodes[i].tags \in SUBSET Keys
  BY NodesOfTree DEF NodeType
<1>. QED  BY <1>1 DEF ScopeProvides

\* What is provided to the replacements of a list.
LEMMA ProvidesOfList ==
  ASSUME NEW nodes, Tree(nodes)
  PROVE  /\ Provides(nodes) \in [0..Len(nodes) -> SUBSET Keys]
         /\ Provides(nodes)[0] = ScopeProvides(nodes, 0)
         /\ \A l \in 1..Len(nodes) :
              Provides(nodes)[l] = (IF Provides(nodes)[Lists(nodes)[l]] = {} THEN ScopeProvides(nodes, l) ELSE Provides(nodes)[Lists(nodes)[l]])
<1>. DEFINE n == Len(nodes)
            list == Lists(nodes)
            V == SUBSET Keys
            T == [x \in V \X (1..n) |-> IF x[1] = {} THEN ScopeProvides(nodes, x[2]) ELSE x[1]]
            Is(f) == f = [l \in 0..n |-> IF l = 0 THEN ScopeProvides(nodes, 0) ELSE (IF f[list[l]] = {} THEN ScopeProvides(nodes, l) ELSE f[list[l]])]
<1>0. n \in Nat
  BY NodesOfTree
<1>1. T \in [V \X (1..n) -> V] /\ ScopeProvides(nodes, 0) \in V
  BY ScopeProvidesType
<1>2. PICK f \in [0..n -> V] : ComputesLists(f, nodes, V, ScopeProvides(nodes, 0), T)
  <2>. HIDE DEF T, V
  <2>. QED  BY <1>1, ListRecursion, Zenon
<1>3. ASSUME NEW l \in 0..n PROVE f[l] = IF l = 0 THEN ScopeProvides(nodes, 0) ELSE (IF f[list[l]] = {} THEN ScopeProvides(nodes, l) ELSE f[list[l]])
  <2>1. CASE l = 0
    BY <1>2, <2>1 DEF ComputesLists
  <2>2. CASE l \in 1..n
    <3>1. f[list[l]] \in V /\ f[l] = T[<<f[list[l]], l>>]
      BY <1>2, <2>2 DEF ComputesLists
    <3>2. ASSUME NEW v \in V PROVE T[<<v, l>>] = (IF v = {} THEN ScopeProvides(nodes, l) ELSE v)
      BY <2>2
    <3>3. l # 0
      BY <2>2
    <3>. HIDE DEF list, T, V
    <3>. QED  BY <3>1, <3>2, <3>3
  <2>. QED  BY <2>1, <2>2, <1>0
<1>4. Is(f)
  <2>. HIDE DEF list
  <2>. QED  BY <1>3
<1>5. Is(Provides(nodes))
  BY <1>4 DEF Provides
<1>. DEFINE g == Provides(nodes)
<1>. HIDE DEF g
<1>6. g[0] = ScopeProvides(nodes, 0) /\ \A l \in 1..n : g[l] = (IF g[list[l]] = {} THEN ScopeProvides(nodes, l) ELSE g[list[l]])
  <2>1. g = [l \in 0..n |-> IF l = 0 THEN ScopeProvides(nodes, 0) ELSE (IF g[list[l]] = {} THEN ScopeProvides(nodes, l) ELSE g[list[l]])]
    BY <1>5 DEF g
  <2>. HIDE DEF list
  <2>2. g[0] = ScopeProvides(nodes, 0)
    BY <1>0, <2>1
  <2>3. ASSUME NEW l \in 1..n PROVE g[l] = (IF g[list[l]] = {} THEN ScopeProvides(nodes, l) ELSE g[list[l]])
    <3>1. l \in 0..n /\ l # 0
      BY <1>0
    <3>. QED  BY <3>1, <2>1
  <2>. QED  BY <2>2, <2>3
<1>. DEFINE S == {l \in 0..n : g[l] \in V}
<1>7. 0..n \subseteq S
  <2>1. 0 \in S
    BY <1>0, <1>1, <1>6
  <2>2. ASSUME NEW l \in 1..n, list[l] \in S PROVE l \in S
    <3>1. T[<<g[list[l]], l>>] \in V /\ T[<<g[list[l]], l>>] = (IF g[list[l]] = {} THEN ScopeProvides(nodes, l) ELSE g[list[l]])
      BY <1>1, <2>2
    <3>. HIDE DEF T
    <3>. QED  BY <3>1, <1>6, <2>2, <1>0
  <2>. HIDE DEF S
  <2>. QED  BY <2>1, <2>2, ListInduction
<1>8. g \in [0..n -> V]
  BY <1>7, <1>5 DEF g
<1>. QED  BY <1>6, <1>8 DEF g

\* What is declared in a list, as specifications.
LEMMA LocalSpecsType ==
  ASSUME NEW nodes, Tree(nodes), NEW l \in 0..Len(nodes)
  PROVE  /\ LocalSpecs(nodes, l) \in Seq(SpecType)
         /\ DOMAIN LocalSpecs(nodes, l) = 1..Len(nodes) /\ Len(LocalSpecs(nodes, l)) = Len(nodes)
<1>1. Len(nodes) \in Nat /\ DOMAIN nodes = 1..Len(nodes)
  BY NodesOfTree
<1>2. ASSUME NEW i \in 1..Len(nodes)
      PROVE  Spec(nodes, i) \in SpecType /\ Cleared(Spec(nodes, i)) \in SpecType
  <2>1. nodes[i].tags \in SUBSET Keys /\ nodes[i].mode \in Modes /\ At(i) \in Int
    BY NodesOfTree DEF NodeType, At
  <2>2. Depths(nodes)[Lists(nodes)[i]] \in Nat
    BY DepthOfList, OuterIsParent
  <2>3. Spec(nodes, i) \in SpecType
    BY <2>1, <2>2 DEF Spec, SpecType
  <2>. QED  BY <2>3 DEF Cleared, SpecType
<1>3. LocalSpecs(nodes, l) \in [1..Len(nodes) -> SpecType]
  BY <1>1, <1>2 DEF LocalSpecs
<1>. QED  BY <1>1, <1>3

\* What is handed down.
LEMMA InheritType ==
  ASSUME NEW specs \in Seq(SpecType), NEW index
  PROVE  /\ Inherit(Applicable(specs, index)) \in Seq(SpecType)
         /\ DOMAIN Inherit(Applicable(specs, index)) = DOMAIN specs
         /\ Len(Inherit(Applicable(specs, index))) = Len(specs)
         /\ Applicable(specs, index) \in Seq(SpecType)
         /\ DOMAIN Applicable(specs, index) = DOMAIN specs
<1>1. ASSUME NEW k \in DOMAIN specs
      PROVE  specs[k] \in SpecType /\ Cleared(specs[k]) \in SpecType
  <2>1. specs[k] \in SpecType
    BY <1>1
  <2>. QED  BY <2>1 DEF Cleared, SpecType
<1>2. Applicable(specs, index) \in [1..Len(specs) -> SpecType]
  BY <1>1 DEF Applicable
<1>3. ASSUME NEW s \in SpecType
      PROVE  Inherited(s) \in SpecType
  BY DEF SpecType, Modes, Inherited
<1>4. Inherit(Applicable(specs, index)) \in [1..Len(specs) -> SpecType]
  BY <1>2, <1>3 DEF Inherit
<1>. QED  BY <1>2, <1>4

\* The specifications of a list.
LEMMA SpecsOfList ==
  ASSUME NEW nodes, Tree(nodes)
  PROVE  /\ Specs(nodes) \in [0..Len(nodes) -> Seq(SpecType)]
         /\ Specs(nodes)[0] = LocalSpecs(nodes, 0)
         /\ \A l \in 1..Len(nodes) :
              Specs(nodes)[l] = Inherit(Applicable(Specs(nodes)[Lists(nodes)[l]], At(l))) \o LocalSpecs(nodes, l)
<1>. DEFINE n == Len(nodes)
            list == Lists(nodes)
            V == Seq(SpecType)
            T == [x \in V \X (1..n) |-> Inherit(Applicable(x[1], At(x[2]))) \o LocalSpecs(nodes, x[2])]
            Is(f) == f = [l \in 0..n |-> IF l = 0 THEN LocalSpecs(nodes, 0) ELSE Inherit(Applicable(f[list[l]], At(l))) \o LocalSpecs(nodes, l)]
<1>0. n \in Nat
  BY NodesOfTree
<1>1. T \in [V \X (1..n) -> V] /\ LocalSpecs(nodes, 0) \in V
  <2>1. ASSUME NEW v \in V, NEW l \in 1..n
        PROVE  Inherit(Applicable(v, At(l))) \o LocalSpecs(nodes, l) \in V
    <3>1. Inherit(Applicable(v, At(l))) \in Seq(SpecType)
      BY InheritType
    <3>2. LocalSpecs(nodes, l) \in Seq(SpecType)
      BY LocalSpecsType
    <3>. QED  BY <3>1, <3>2
  <2>2. LocalSpecs(nodes, 0) \in V
    BY <1>0, LocalSpecsType
  <2>. HIDE DEF V
  <2>. QED  BY <2>1, <2>2
<1>2. PICK f \in [0..n -> V] : ComputesLists(f, nodes, V, LocalSpecs(nodes, 0), T)
  <2>. HIDE DEF T, V
  <2>. QED  BY <1>1, ListRecursion, Zenon
<1>3. ASSUME NEW l \in 0..n PROVE f[l] = IF l = 0 THEN LocalSpecs(nodes, 0) ELSE Inherit(Applicable(f[list[l]], At(l))) \o LocalSpecs(nodes, l)
  <2>1. CASE l = 0
    BY <1>2, <2>1 DEF ComputesLists
  <2>2. CASE l \in 1..n
    <3>1. f[list[l]] \in V /\ f[l] = T[<<f[list[l]], l>>]
      BY <1>2, <2>2 DEF ComputesLists
    <3>2. ASSUME NEW v \in V PROVE T[<<v, l>>] = Inherit(Applicable(v, At(l))) \o LocalSpecs(nodes, l)
      BY <2>2
    <3>3. l # 0
      BY <2>2
    <3>. HIDE DEF list, T, V
    <3>. QED  BY <3>1, <3>2, <3>3
  <2>. QED  BY <2>1, <2>2, <1>0
<1>4. Is(f)
  <2>. HIDE DEF list
  <2>. QED  BY <1>3
<1>5. Is(Specs(nodes))
  BY <1>4 DEF Specs
<1>. DEFINE g == Specs(nodes)
<1>. HIDE DEF g
<1>6. g[0] = LocalSpecs(nodes, 0) /\ \A l \in 1..n : g[l] = Inherit(Applicable(g[list[l]], At(l))) \o LocalSpecs(nodes, l)
  <2>1. g = [l \in 0..n |-> IF l = 0 THEN LocalSpecs(nodes, 0) ELSE Inherit(Applicable(g[list[l]], At(l))) \o LocalSpecs(nodes, l)]
    BY <1>5 DEF g
  <2>. HIDE DEF list
  <2>2. g[0] = LocalSpecs(nodes, 0)
    BY <1>0, <2>1
  <2>3. ASSUME NEW l \in 1..n PROVE g[l] = Inherit(Applicable(g[list[l]], At(l))) \o LocalSpecs(nodes, l)
    <3>1. l \in 0..n /\ l # 0
      BY <1>0
    <3>. QED  BY <3>1, <2>1
  <2>. QED  BY <2>2, <2>3
<1>. DEFINE S == {l \in 0..n : g[l] \in V}
<1>7. 0..n \subseteq S
  <2>1. 0 \in S
    BY <1>0, <1>1, <1>6
  <2>2. ASSUME NEW l \in 1..n, list[l] \in S PROVE l \in S
    <3>1. T[<<g[list[l]], l>>] \in V /\ T[<<g[list[l]], l>>] = Inherit(Applicable(g[list[l]], At(l))) \o LocalSpecs(nodes, l)
      BY <1>1, <2>2
    <3>. HIDE DEF T, V
    <3>2. g[l] \in V
      BY <3>1, <1>6
    <3>. QED  BY <3>2, <1>0
  <2>. HIDE DEF S
  <2>. QED  BY <2>1, <2>2, ListInduction
<1>8. g \in [0..n -> V]
  BY <1>7, <1>5 DEF g
<1>. QED  BY <1>6, <1>8 DEF g

-----------------------------------------------------------------------------
(* What is in effect in a list.                                            *)

\* The lists around a list lie in one another, the outer one first.
LEMMA ListsAreNested ==
  ASSUME NEW nodes, Tree(nodes), NEW l \in 0..Len(nodes)
  PROVE  /\ l \in Around(nodes)[l] /\ 0 \in Around(nodes)[l]
         /\ Around(nodes)[l] \subseteq 0..l
         /\ \A x \in Around(nodes)[l] : Around(nodes)[x] \subseteq Around(nodes)[l]
         /\ \A x \in Around(nodes)[l] : Depths(nodes)[x] <= Depths(nodes)[l]
         /\ \A x \in Around(nodes)[l] \ {0} : Lists(nodes)[x] \in Around(nodes)[l]
         /\ \A x, y \in Around(nodes)[l] : x <= y => x \in Around(nodes)[y]
<1>. DEFINE n == Len(nodes)
            list == Lists(nodes)
            g == Around(nodes)
            d == Depths(nodes)
            Good(k) == /\ k \in g[k] /\ 0 \in g[k] /\ g[k] \subseteq 0..k
                       /\ \A x \in g[k] : g[x] \subseteq g[k]
                       /\ \A x \in g[k] : d[x] <= d[k]
                       /\ \A x \in g[k] \ {0} : list[x] \in g[k]
                       /\ \A x, y \in g[k] : x <= y => x \in g[y]
            S == {k \in 0..n : Good(k)}
<1>1. n \in Nat /\ \A k \in 1..n : list[k] \in 0..n /\ list[k] < k
  BY ListOfNode, OuterIsParent
<1>2. g[0] = {0} /\ \A k \in 1..n : g[k] = {k} \cup g[list[k]]
  BY AroundList
<1>3. (\A k \in 0..n : d[k] \in Nat) /\ \A k \in 1..n : d[list[k]] <= d[k]
  BY DepthOfList
<1>. HIDE DEF g, d, list
<1>4. 0 \in S
  BY <1>1, <1>2, <1>3
<1>5. ASSUME NEW k \in 1..n, list[k] \in S PROVE k \in S
  <2>. DEFINE m == list[k]
  <2>. HIDE DEF m
  <2>1. m \in 0..n /\ m < k /\ Good(m) /\ g[k] = {k} \cup g[m]
    BY <1>1, <1>2, <1>5 DEF m
  <2>2. g[k] \subseteq 0..k /\ k \in g[k] /\ 0 \in g[k]
    BY <2>1
  <2>3. \A x \in g[k] : g[x] \subseteq g[k]
    BY <2>1
  <2>4. ASSUME NEW x \in g[k] PROVE d[x] <= d[k]
    <3>1. d[m] <= d[k] /\ d[m] \in Nat /\ d[k] \in Nat
      BY <1>3, <2>1 DEF m
    <3>2. CASE x = k
      BY <3>1, <3>2
    <3>3. CASE x \in g[m]
      <4>1. x \in 0..n /\ d[x] <= d[m]
        BY <2>1, <3>3, <1>1
      <4>. QED  BY <4>1, <3>1, <1>3
    <3>. QED  BY <3>2, <3>3, <2>1
  <2>5. \A x \in g[k] \ {0} : list[x] \in g[k]
    BY <2>1 DEF m
  <2>6. ASSUME NEW x \in g[k], NEW y \in g[k], x <= y PROVE x \in g[y]
    <3>1. CASE y = k
      BY <3>1
    <3>2. CASE y # k
      <4>1. y \in g[m] /\ y \in 0..m
        BY <3>2, <2>1
      <4>2. x # k
        BY <4>1, <2>1, <2>6
      <4>. QED  BY <4>1, <4>2, <2>1, <2>6
    <3>. QED  BY <3>1, <3>2
  <2>7. Good(k)
    BY <2>2, <2>3, <2>4, <2>5, <2>6
  <2>. QED  BY <2>7, <1>1
<1>6. 0..n \subseteq S
  <2>. HIDE DEF S
  <2>. QED  BY <1>4, <1>5, ListInduction DEF list
<1>7. Good(l)
  BY <1>6
<1>. QED  BY <1>7 DEF g, d, list

\* A replacement applies at an index of its list.
Window(nodes, r, index) ==
  \/ nodes[r].mode = "all"
  \/ nodes[r].mode = "before" /\ index < At(r)
  \/ nodes[r].mode = "after" /\ index > At(r)

IsSpec(nodes, r) == nodes[r].kind \in {"replace", "default"} /\ nodes[r].tags # {}

\* A replacement of an outer list applies where that list leads to the list l.
FromOutside(nodes, l, r) ==
  /\ nodes[r].kind = "replace"
  /\ \E a \in Around(nodes)[l] \ {0} : Lists(nodes)[a] = Lists(nodes)[r] /\ Window(nodes, r, At(a))

\* A specification of the list l and the declaration that it stands for.
Entry(nodes, l, s) ==
  /\ s.id \in 1..Len(nodes) /\ IsSpec(nodes, s.id)
  /\ s.tags = nodes[s.id].tags /\ s.pos = At(s.id)
  /\ s.depth = Depths(nodes)[Lists(nodes)[s.id]]
  /\ s.isDefault = (nodes[s.id].kind = "default")
  /\ \/ Lists(nodes)[s.id] = l /\ ~s.inherited /\ s.mode = nodes[s.id].mode
     \/ FromOutside(nodes, l, s.id) /\ s.inherited /\ s.mode = "all"

\* The specifications of a list stand for what applies there, the outer lists first.
Faithful(nodes, l, specs) ==
  /\ \A k \in DOMAIN specs : specs[k].tags # {} => Entry(nodes, l, specs[k])
  /\ \A r \in 1..Len(nodes) :
       IsSpec(nodes, r) /\ (Lists(nodes)[r] = l \/ FromOutside(nodes, l, r)) =>
         \E k \in DOMAIN specs : specs[k].tags # {} /\ specs[k].id = r
  /\ \A j, k \in DOMAIN specs : specs[j].tags # {} /\ specs[k].tags # {} /\ j < k =>
       \/ Lists(nodes)[specs[j].id] < Lists(nodes)[specs[k].id]
       \/ Lists(nodes)[specs[j].id] = Lists(nodes)[specs[k].id] /\ specs[j].id < specs[k].id

LEMMA LocalEntries ==
  ASSUME NEW nodes, Tree(nodes), NEW l \in 0..Len(nodes), NEW i \in 1..Len(nodes)
  PROVE  /\ LocalSpecs(nodes, l)[i].tags # {} <=> IsSpec(nodes, i) /\ Lists(nodes)[i] = l
         /\ LocalSpecs(nodes, l)[i].id = i
         /\ IsSpec(nodes, i) /\ Lists(nodes)[i] = l => Entry(nodes, l, LocalSpecs(nodes, l)[i])
<1>. DEFINE local == nodes[i].kind \in {"replace", "default"} /\ Lists(nodes)[i] = l
<1>1. LocalSpecs(nodes, l)[i] = IF local THEN Spec(nodes, i) ELSE Cleared(Spec(nodes, i))
  BY NodesOfTree DEF LocalSpecs
<1>2. Spec(nodes, i).id = i /\ Cleared(Spec(nodes, i)).id = i
  BY DEF Spec, Cleared
<1>3. Cleared(Spec(nodes, i)).tags = {} /\ Spec(nodes, i).tags = nodes[i].tags
  BY DEF Spec, Cleared
<1>4. local /\ IsSpec(nodes, i) => Entry(nodes, l, Spec(nodes, i))
  BY DEF Entry, Spec
<1>. QED  BY <1>1, <1>2, <1>3, <1>4 DEF IsSpec

LEMMA HandedDownEntries ==
  ASSUME NEW specs \in Seq(SpecType), NEW index, NEW k \in DOMAIN specs,
         NEW s, s = Inherit(Applicable(specs, index))[k]
  PROVE  /\ s.id = specs[k].id
         /\ s.tags # {} <=> specs[k].tags # {} /\ Applies(specs[k], index)
         /\ s.tags # {} => s = Inherited(specs[k])
<1>1. specs[k] \in SpecType
  OBVIOUS
<1>. DEFINE a == IF Applies(specs[k], index) THEN specs[k] ELSE Cleared(specs[k])
<1>2. Applicable(specs, index)[k] = a /\ k \in DOMAIN Applicable(specs, index)
  BY DEF Applicable
<1>3. Inherit(Applicable(specs, index))[k] = Inherited(a)
  <2>. HIDE DEF a
  <2>. QED  BY <1>2 DEF Inherit
<1>4. CASE Applies(specs[k], index)
  <2>1. a = specs[k]
    BY <1>4
  <2>. QED  BY <1>1, <1>3, <1>4, <2>1 DEF SpecType, Inherited
<1>5. CASE ~Applies(specs[k], index)
  <2>1. a = [specs[k] EXCEPT !.tags = {}]
    BY <1>5 DEF Cleared
  <2>. QED  BY <1>1, <1>3, <1>5, <2>1 DEF SpecType, Inherited
<1>. QED  BY <1>4, <1>5

\* A replacement that applies in a list at the group l is in effect in the group.
LEMMA EntryIsHandedDown ==
  ASSUME NEW nodes, Tree(nodes), NEW l \in 1..Len(nodes), NEW s \in SpecType,
         Entry(nodes, Lists(nodes)[l], s), Applies(s, At(l))
  PROVE  /\ Entry(nodes, l, Inherited(s))
         /\ Lists(nodes)[s.id] < l
<1>. DEFINE r == s.id
            list == Lists(nodes)
            m == list[l]
<1>1. m \in 0..Len(nodes) /\ m < l /\ r \in 1..Len(nodes) /\ IsSpec(nodes, r)
  BY ListOfNode, OuterIsParent DEF Entry
<1>2. Around(nodes)[l] = {l} \cup Around(nodes)[m] /\ Around(nodes)[l] \subseteq 0..l
  BY AroundList, ListsAreNested, OuterIsParent
<1>3. nodes[r].kind = "replace"
  BY <1>1 DEF Applies, Entry, IsSpec
<1>4. FromOutside(nodes, l, r)
  <2>1. CASE list[r] = m /\ ~s.inherited /\ s.mode = nodes[r].mode
    <3>1. Window(nodes, r, At(l))
      BY <2>1 DEF Applies, Window, Entry
    <3>2. l \in Around(nodes)[l] \ {0}
      BY <1>2
    <3>. QED  BY <2>1, <3>1, <3>2, <1>3 DEF FromOutside
  <2>2. CASE FromOutside(nodes, m, r)
    BY <2>2, <1>2 DEF FromOutside
  <2>. QED  BY <2>1, <2>2 DEF Entry
<1>5. list[r] < l
  <2>1. PICK a \in Around(nodes)[l] \ {0} : list[a] = list[r]
    BY <1>4 DEF FromOutside
  <2>2. a \in 1..Len(nodes) /\ a <= l
    BY <2>1, <1>2, NodesOfTree
  <2>3. list[a] < a /\ list[a] \in 0..Len(nodes)
    BY <2>2, ListOfNode, OuterIsParent
  <2>. QED  BY <2>1, <2>2, <2>3
<1>. DEFINE t == Inherited(s)
<1>6. /\ t.id = r /\ t.tags = s.tags /\ t.pos = s.pos /\ t.depth = s.depth
      /\ t.isDefault = s.isDefault /\ t.inherited /\ t.mode = "all"
  BY DEF SpecType, Inherited
<1>7. Entry(nodes, l, t)
  <2>. HIDE DEF t
  <2>. QED  BY <1>4, <1>6 DEF Entry
<1>. QED  BY <1>5, <1>7

\* What a group gets from the list around it, followed by what is declared in it.
LEMMA GroupIsFaithful ==
  ASSUME NEW nodes, Tree(nodes), NEW l \in 1..Len(nodes), NEW specs \in Seq(SpecType),
         Faithful(nodes, Lists(nodes)[l], specs)
  PROVE  Faithful(nodes, l, Inherit(Applicable(specs, At(l))) \o LocalSpecs(nodes, l))
<1>. DEFINE n == Len(nodes)
            list == Lists(nodes)
            m == list[l]
            H == Inherit(Applicable(specs, At(l)))
            L == LocalSpecs(nodes, l)
            h == Len(specs)
            all == H \o L
<1>1. n \in Nat /\ h \in Nat /\ DOMAIN specs = 1..h /\ m \in 0..n /\ m < l
  BY OuterIsParent, ListOfNode
<1>2. /\ H \in Seq(SpecType) /\ L \in Seq(SpecType) /\ Len(H) = h /\ Len(L) = n
      /\ DOMAIN H = 1..h /\ DOMAIN L = 1..n
  BY <1>1, InheritType, LocalSpecsType
<1>3. /\ DOMAIN all = 1..(h + n)
      /\ \A k \in 1..h : all[k] = H[k]
      /\ \A i \in 1..n : all[h + i] = L[i]
  <2>. HIDE DEF H, L
  <2>. QED  BY <1>1, <1>2
<1>4. ASSUME NEW k \in 1..(h + n) PROVE k \in 1..h \/ \E i \in 1..n : k = h + i
  <2>1. CASE k > h
    <3>1. k - h \in 1..n /\ k = h + (k - h)
      BY <2>1, <1>1
    <3>. QED  BY <3>1
  <2>. QED  BY <2>1, <1>1
<1>. DEFINE live(s) == s.tags # {}
<1>5. ASSUME NEW k \in 1..h
      PROVE  /\ all[k].id = specs[k].id
             /\ live(all[k]) <=> live(specs[k]) /\ Applies(specs[k], At(l))
             /\ live(all[k]) => Entry(nodes, l, all[k]) /\ list[all[k].id] < l
  <2>1. specs[k] \in SpecType /\ all[k] = H[k]
    BY <1>1, <1>3
  <2>2. /\ H[k].id = specs[k].id
        /\ live(H[k]) <=> live(specs[k]) /\ Applies(specs[k], At(l))
        /\ live(H[k]) => H[k] = Inherited(specs[k])
    <3>1. k \in DOMAIN specs
      BY <1>1
    <3>. QED  BY <3>1, HandedDownEntries
  <2>3. ASSUME live(H[k]) PROVE Entry(nodes, l, H[k]) /\ list[H[k].id] < l
    <3>1. Entry(nodes, m, specs[k]) /\ Applies(specs[k], At(l))
      BY <2>2, <2>3, <1>1 DEF Faithful
    <3>2. /\ Entry(nodes, l, Inherited(specs[k]))
          /\ list[specs[k].id] < l
      BY <2>1, <3>1, EntryIsHandedDown
    <3>. HIDE DEF H
    <3>. QED  BY <2>2, <2>3, <3>2
  <2>. HIDE DEF H, all
  <2>. QED  BY <2>1, <2>2, <2>3
<1>6. ASSUME NEW i \in 1..n
      PROVE  /\ all[h + i].id = i
             /\ live(all[h + i]) <=> IsSpec(nodes, i) /\ list[i] = l
             /\ live(all[h + i]) => Entry(nodes, l, all[h + i]) /\ list[i] = l
  <2>1. all[h + i] = L[i]
    BY <1>3
  <2>2. /\ L[i].tags # {} <=> IsSpec(nodes, i) /\ list[i] = l
        /\ L[i].id = i
        /\ IsSpec(nodes, i) /\ list[i] = l => Entry(nodes, l, L[i])
    BY LocalEntries, <1>1
  <2>. HIDE DEF L, all, list
  <2>. QED  BY <2>1, <2>2
<1>. HIDE DEF all, H, L
<1>7. ASSUME NEW k \in DOMAIN all, live(all[k]) PROVE Entry(nodes, l, all[k])
  <2>1. k \in 1..(h + n)
    BY <1>3
  <2>. QED  BY <2>1, <1>4, <1>5, <1>6, <1>7
<1>8. ASSUME NEW r \in 1..n, IsSpec(nodes, r), list[r] = l \/ FromOutside(nodes, l, r)
      PROVE  \E k \in DOMAIN all : live(all[k]) /\ all[k].id = r
  <2>1. CASE list[r] = l
    <3>1. h + r \in DOMAIN all /\ live(all[h + r]) /\ all[h + r].id = r
      BY <1>1, <1>3, <1>6, <1>8, <2>1
    <3>. QED  BY <3>1
  <2>2. CASE FromOutside(nodes, l, r)
    <3>1. PICK a \in Around(nodes)[l] \ {0} : list[a] = list[r] /\ Window(nodes, r, At(a))
      BY <2>2 DEF FromOutside
    <3>2. Around(nodes)[l] = {l} \cup Around(nodes)[m] /\ Around(nodes)[m] \subseteq 0..m
      BY AroundList, ListsAreNested, <1>1
    <3>3. nodes[r].kind = "replace"
      BY <2>2 DEF FromOutside
    <3>4. list[r] = m \/ FromOutside(nodes, m, r)
      BY <3>1, <3>2, <3>3 DEF FromOutside
    <3>5. PICK k \in 1..h : live(specs[k]) /\ specs[k].id = r
      BY <3>4, <1>1, <1>8 DEF Faithful
    <3>6. Entry(nodes, m, specs[k])
      BY <3>5, <1>1 DEF Faithful
    <3>7. Applies(specs[k], At(l))
      <4>1. ~specs[k].isDefault
        BY <3>3, <3>5, <3>6 DEF Entry
      <4>2. CASE specs[k].inherited
        BY <4>1, <4>2 DEF Applies
      <4>3. CASE ~specs[k].inherited
        <5>1. list[r] = m /\ specs[k].mode = nodes[r].mode /\ specs[k].pos = At(r)
          BY <4>3, <3>5, <3>6 DEF Entry
        <5>2. a = l
          <6>1. CASE a \in Around(nodes)[m]
            <7>1. a \in 1..n /\ a <= m /\ list[a] = m
              BY <6>1, <3>1, <3>2, <1>1, <5>1
            <7>. QED  BY <7>1, <1>1, ListOfNode
          <6>. QED  BY <6>1, <3>1, <3>2
        <5>. QED  BY <4>1, <5>1, <5>2, <3>1 DEF Applies, Window
      <4>. QED  BY <4>2, <4>3
    <3>8. k \in DOMAIN all /\ live(all[k]) /\ all[k].id = r
      BY <1>1, <1>3, <1>5, <3>5, <3>7
    <3>. QED  BY <3>8
  <2>. QED  BY <1>8, <2>1, <2>2
<1>9. ASSUME NEW j \in DOMAIN all, NEW k \in DOMAIN all, live(all[j]), live(all[k]), j < k
      PROVE  \/ list[all[j].id] < list[all[k].id]
             \/ list[all[j].id] = list[all[k].id] /\ all[j].id < all[k].id
  <2>1. j \in 1..(h + n) /\ k \in 1..(h + n)
    BY <1>3
  <2>2. CASE j \in 1..h /\ k \in 1..h
    <3>1. live(specs[j]) /\ live(specs[k]) /\ all[j].id = specs[j].id /\ all[k].id = specs[k].id
      BY <1>5, <1>9, <2>2
    <3>. QED  BY <3>1, <2>2, <1>1, <1>9 DEF Faithful
  <2>3. ASSUME j \in 1..h, NEW i \in 1..n, k = h + i
        PROVE  list[all[j].id] < list[all[k].id]
    BY <2>3, <1>5, <1>6, <1>9
  <2>4. ASSUME NEW i \in 1..n, j = h + i, NEW x \in 1..n, k = h + x
        PROVE  list[all[j].id] = list[all[k].id] /\ all[j].id < all[k].id
    <3>1. all[j].id = i /\ all[k].id = x /\ list[i] = l /\ list[x] = l
      BY <2>4, <1>6, <1>9
    <3>2. i < x
      BY <2>4, <1>9, <1>1
    <3>. QED  BY <3>1, <3>2
  <2>5. ASSUME NEW i \in 1..n, j = h + i, k \in 1..h PROVE FALSE
    BY <2>5, <1>1, <1>9
  <2>. QED  BY <2>1, <2>2, <2>3, <2>4, <2>5, <1>4
<1>. QED  BY <1>7, <1>8, <1>9 DEF Faithful, all, H, L

\* In every list the specifications are those that apply there.
LEMMA SpecsAreFaithful ==
  ASSUME NEW nodes, Tree(nodes), NEW l \in 0..Len(nodes)
  PROVE  Specs(nodes)[l] \in Seq(SpecType) /\ Faithful(nodes, l, Specs(nodes)[l])
<1>. DEFINE n == Len(nodes)
            list == Lists(nodes)
            S == {k \in 0..n : Faithful(nodes, k, Specs(nodes)[k])}
<1>1. n \in Nat /\ 0 \in 0..n
  BY NodesOfTree
<1>2. /\ \A k \in 0..n : Specs(nodes)[k] \in Seq(SpecType)
      /\ Specs(nodes)[0] = LocalSpecs(nodes, 0)
      /\ \A k \in 1..n : Specs(nodes)[k] =
           Inherit(Applicable(Specs(nodes)[list[k]], At(k))) \o LocalSpecs(nodes, k)
  BY SpecsOfList
<1>3. 0 \in S
  <2>. DEFINE L == LocalSpecs(nodes, 0)
  <2>1. DOMAIN L = 1..n
    BY <1>1, LocalSpecsType
  <2>2. ASSUME NEW i \in 1..n
        PROVE  /\ L[i].tags # {} <=> IsSpec(nodes, i) /\ list[i] = 0
               /\ L[i].id = i
               /\ IsSpec(nodes, i) /\ list[i] = 0 => Entry(nodes, 0, L[i])
    BY <1>1, LocalEntries
  <2>3. \A r : ~FromOutside(nodes, 0, r)
    BY AroundList DEF FromOutside
  <2>. HIDE DEF L, list
  <2>4. Faithful(nodes, 0, L)
    BY <1>1, <2>1, <2>2, <2>3 DEF Faithful, list
  <2>. QED  BY <1>1, <1>2, <2>4 DEF L
<1>4. ASSUME NEW k \in 1..n, list[k] \in S PROVE k \in S
  <2>1. list[k] \in 0..n /\ Faithful(nodes, list[k], Specs(nodes)[list[k]])
    BY <1>4
  <2>2. Faithful(nodes, k, Specs(nodes)[k])
    BY <1>2, <2>1, GroupIsFaithful
  <2>. QED  BY <2>2, <1>1
<1>5. 0..n \subseteq S
  <2>. HIDE DEF S
  <2>. QED  BY <1>3, <1>4, ListInduction
<1>. QED  BY <1>2, <1>5

-----------------------------------------------------------------------------
(* What is provided.                                                       *)

\* collectScopeProvides of the outermost list finds all that no branch provides.
LEMMA OutermostCollects ==
  ASSUME NEW nodes, Tree(nodes), NEW l \in 0..Len(nodes),
         l # 0 => nodes[l].kind \in {"module", "branch"},
         \A a \in Around(nodes)[l] \ {0} : nodes[a].kind # "branch"
  PROVE  0 \in Collectors(nodes)[l]
<1>. DEFINE n == Len(nodes)
            list == Lists(nodes)
            inScope(k) == /\ k # 0 => nodes[k].kind \in {"module", "branch"}
                          /\ \A a \in Around(nodes)[k] \ {0} : nodes[a].kind # "branch"
            S == {k \in 0..n : inScope(k) => 0 \in Collectors(nodes)[k]}
<1>1. 0 \in S
  BY CollectorsOfList, NodesOfTree
<1>2. ASSUME NEW k \in 1..n, list[k] \in S PROVE k \in S
  <2>1. SUFFICES ASSUME inScope(k) PROVE 0 \in Collectors(nodes)[k]
    BY NodesOfTree
  <2>2. Around(nodes)[k] = {k} \cup Around(nodes)[list[k]]
    BY AroundList
  <2>3. nodes[k].kind = "module"
    BY <2>1, <2>2
  <2>4. inScope(list[k])
    BY <2>1, <2>2, ListOfNode
  <2>5. 0 \in Collectors(nodes)[list[k]]
    BY <2>4, <1>2
  <2>. QED  BY <2>3, <2>5, CollectorsOfList
<1>3. 0..n \subseteq S
  <2>. HIDE DEF S
  <2>. QED  BY <1>1, <1>2, ListInduction
<1>. QED  BY <1>3

\* Without a branch that provides, every list is told all that is provided.
LEMMA ProvidesAll ==
  ASSUME NEW nodes, Tree(nodes), ~BranchProvides(nodes), NEW l \in 0..Len(nodes)
  PROVE  \A key : key \in Provides(nodes)[l] <=> Provided(nodes, key)
<1>. DEFINE n == Len(nodes)
            list == Lists(nodes)
            All == UNION {nodes[i].tags : i \in {i \in DOMAIN nodes : nodes[i].kind = "provide"}}
            S == {k \in 0..n : Provides(nodes)[k] = All}
<1>1. \A k : ScopeProvides(nodes, k) \subseteq All
  BY DEF ScopeProvides
<1>2. ScopeProvides(nodes, 0) = All
  <2>1. ASSUME NEW i \in DOMAIN nodes, nodes[i].kind = "provide"
        PROVE  0 \in Collectors(nodes)[list[i]]
    <3>1. i \in 1..n /\ list[i] \in 0..n
      BY NodesOfTree, OuterIsParent
    <3>2. list[i] # 0 => nodes[list[i]].kind \in {"module", "branch"}
      BY <3>1, ListOfNode
    <3>3. \A a \in Around(nodes)[list[i]] \ {0} : nodes[a].kind # "branch"
      BY <2>1 DEF BranchProvides
    <3>. QED  BY <3>1, <3>2, <3>3, OutermostCollects
  <2>. QED  BY <2>1 DEF ScopeProvides
<1>3. /\ Provides(nodes)[0] = ScopeProvides(nodes, 0)
      /\ \A k \in 1..n : Provides(nodes)[k] =
           IF Provides(nodes)[list[k]] = {} THEN ScopeProvides(nodes, k)
           ELSE Provides(nodes)[list[k]]
  BY ProvidesOfList
<1>4. 0 \in S
  BY <1>2, <1>3, NodesOfTree
<1>5. ASSUME NEW k \in 1..n, list[k] \in S PROVE k \in S
  <2>1. Provides(nodes)[list[k]] = All /\ k \in 0..n
    BY <1>5, NodesOfTree
  <2>2. Provides(nodes)[k] = All
    <3>. HIDE DEF All
    <3>1. CASE All = {}
      <4>1. ScopeProvides(nodes, k) = {}
        BY <1>1, <3>1
      <4>. QED  BY <1>3, <2>1, <3>1, <4>1
    <3>2. CASE All # {}
      BY <1>3, <2>1, <3>2
    <3>. QED  BY <3>1, <3>2
  <2>. QED  BY <2>1, <2>2
<1>6. 0..n \subseteq S
  <2>. HIDE DEF S
  <2>. QED  BY <1>4, <1>5, ListInduction
<1>7. Provides(nodes)[l] = All
  BY <1>6
<1>. QED  BY <1>7 DEF Provided

-----------------------------------------------------------------------------
(* The binding of a consumer.                                              *)

IsPlace(nodes, place) == place.list \in 0..Len(nodes)

\* What applies at a place of its list is a replacement in effect there.
LEMMA ActiveIsInEffect ==
  ASSUME NEW nodes, Tree(nodes), NEW place, IsPlace(nodes, place), NEW key,
         NEW specs, specs = Specs(nodes)[place.list],
         NEW k \in DOMAIN specs, FitsAny(key, specs[k].tags), ~specs[k].isDefault,
         Applies(specs[k], place.index) \/ nodes[specs[k].id].mode = "all"
  PROVE  specs[k].id \in InEffect(nodes, place, key)
<1>. DEFINE l == place.list
            r == specs[k].id
<1>1. Entry(nodes, l, specs[k])
  <2>1. specs[k].tags # {}
    BY DEF FitsAny
  <2>. QED  BY <2>1, SpecsAreFaithful DEF Faithful, IsPlace
<1>2. r \in DOMAIN nodes /\ nodes[r].kind = "replace" /\ FitsAny(key, nodes[r].tags)
  BY <1>1, NodesOfTree DEF Entry, IsSpec
<1>3. CASE Lists(nodes)[r] = l /\ ~specs[k].inherited /\ specs[k].mode = nodes[r].mode
  <2>1. \/ nodes[r].mode = "all"
        \/ nodes[r].mode = "before" /\ place.index < At(r)
        \/ nodes[r].mode = "after" /\ place.index > At(r)
    BY <1>1, <1>3 DEF Applies, Entry
  <2>2. place \in Stands(nodes, place)
    BY DEF Stands
  <2>. QED  BY <1>2, <1>3, <2>1, <2>2 DEF InEffect
<1>4. CASE FromOutside(nodes, l, r)
  <2>1. PICK a \in Around(nodes)[l] \ {0} :
          Lists(nodes)[a] = Lists(nodes)[r] /\ Window(nodes, r, At(a))
    BY <1>4 DEF FromOutside
  <2>. DEFINE p == [list |-> Lists(nodes)[a], index |-> At(a)]
  <2>2. p \in Stands(nodes, place) /\ p.list = Lists(nodes)[r] /\ p.index = At(a)
    BY <2>1 DEF Stands
  <2>. HIDE DEF p
  <2>. QED  BY <1>2, <2>1, <2>2 DEF InEffect, Window
<1>. QED  BY <1>1, <1>3, <1>4 DEF Entry

\* A replacement in effect at a place applies there.
LEMMA InEffectIsActive ==
  ASSUME NEW nodes, Tree(nodes), NEW place, IsPlace(nodes, place), NEW key,
         NEW specs, specs = Specs(nodes)[place.list],
         NEW r \in InEffect(nodes, place, key)
  PROVE  \E k \in DOMAIN specs : /\ specs[k].id = r /\ FitsAny(key, specs[k].tags)
                                 /\ Applies(specs[k], place.index)
<1>. DEFINE l == place.list
<1>1. Faithful(nodes, l, specs)
  BY SpecsAreFaithful DEF IsPlace
<1>2. /\ r \in 1..Len(nodes) /\ nodes[r].kind = "replace" /\ FitsAny(key, nodes[r].tags)
      /\ IsSpec(nodes, r)
  BY NodesOfTree DEF InEffect, IsSpec, FitsAny
<1>3. PICK p \in Stands(nodes, place) : /\ p.list = Lists(nodes)[r]
                                        /\ Window(nodes, r, p.index)
  BY DEF InEffect, Window
<1>4. (Lists(nodes)[r] = l /\ Window(nodes, r, place.index)) \/ FromOutside(nodes, l, r)
  <2>1. CASE p = place
    BY <1>3, <2>1
  <2>2. ASSUME NEW a \in Around(nodes)[l] \ {0}, p = [list |-> Lists(nodes)[a], index |-> At(a)]
        PROVE  FromOutside(nodes, l, r)
    <3>1. p.list = Lists(nodes)[a] /\ p.index = At(a)
      BY <2>2
    <3>. QED  BY <1>2, <1>3, <3>1 DEF FromOutside
  <2>. QED  BY <2>1, <2>2 DEF Stands
<1>5. PICK k \in DOMAIN specs : specs[k].tags # {} /\ specs[k].id = r
  BY <1>1, <1>2, <1>4 DEF Faithful
<1>6. Entry(nodes, l, specs[k])
  BY <1>1, <1>5 DEF Faithful
<1>7. FitsAny(key, specs[k].tags) /\ ~specs[k].isDefault
  BY <1>2, <1>5, <1>6 DEF Entry
<1>8. CASE specs[k].inherited
  BY <1>5, <1>7, <1>8 DEF Applies
<1>9. CASE ~specs[k].inherited
  <2>1. Lists(nodes)[r] = l /\ specs[k].mode = nodes[r].mode /\ specs[k].pos = At(r)
    BY <1>5, <1>6, <1>9 DEF Entry
  <2>2. Window(nodes, r, place.index)
    <3>1. ~FromOutside(nodes, l, r)
      <4>1. SUFFICES ASSUME NEW a \in Around(nodes)[l] \ {0}, Lists(nodes)[a] = Lists(nodes)[r]
                     PROVE  FALSE
        BY DEF FromOutside
      <4>2. a \in 1..Len(nodes) /\ a <= l
        BY <4>1, ListsAreNested, NodesOfTree DEF IsPlace
      <4>3. Lists(nodes)[a] < a /\ Lists(nodes)[a] \in 0..Len(nodes)
        BY <4>2, ListOfNode, OuterIsParent
      <4>. QED  BY <4>1, <4>2, <4>3, <2>1 DEF IsPlace
    <3>. QED  BY <1>4, <3>1
  <2>. QED  BY <1>5, <1>7, <2>1, <2>2 DEF Applies, Window
<1>. QED  BY <1>8, <1>9

\* Specifications in which the replacements R of a key, and perhaps some defaults, fit it.
Serves(nodes, l, key, specs, R) ==
  /\ specs \in Seq(SpecType)
  /\ \A k \in DOMAIN specs : FitsAny(key, specs[k].tags) =>
       Entry(nodes, l, specs[k]) /\ (~specs[k].isDefault => specs[k].id \in R)
  /\ \A r \in R : \E k \in DOMAIN specs :
       specs[k].id = r /\ FitsAny(key, specs[k].tags) /\ ~specs[k].isDefault
  /\ \A j, k \in DOMAIN specs :
       FitsAny(key, specs[j].tags) /\ FitsAny(key, specs[k].tags) /\ j < k =>
         \/ Lists(nodes)[specs[j].id] < Lists(nodes)[specs[k].id]
         \/ Lists(nodes)[specs[j].id] = Lists(nodes)[specs[k].id] /\ specs[j].id < specs[k].id

\* The `better` of selectReplacement, by depth and position, is the order of the meaning,
\* by the lists around.
LEMMA BetterOutranks ==
  ASSUME NEW nodes, Tree(nodes), NEW l \in 0..Len(nodes), NEW key, NEW specs, NEW R,
         Serves(nodes, l, key, specs, R), NEW j \in DOMAIN specs, NEW k \in DOMAIN specs,
         FitsAny(key, specs[j].tags), FitsAny(key, specs[k].tags),
         specs[j].isDefault = specs[k].isDefault, Better(key, specs, j, k)
  PROVE  Outranks(nodes, key, specs[j].id, specs[k].id)
<1>. DEFINE list == Lists(nodes)
            d == Depths(nodes)
            r == specs[j].id
            q == specs[k].id
            score(x) == Score(key, nodes[x].tags)
<1>1. j \in Nat \ {0} /\ k \in Nat \ {0}
  BY DEF Serves
<1>2. Entry(nodes, l, specs[j]) /\ Entry(nodes, l, specs[k])
  BY DEF Serves
<1>3. /\ r \in 1..Len(nodes) /\ specs[j].tags = nodes[r].tags /\ specs[j].depth = d[list[r]]
      /\ q \in 1..Len(nodes) /\ specs[k].tags = nodes[q].tags /\ specs[k].depth = d[list[q]]
  BY <1>2 DEF Entry
<1>4. \A x : score(x) \in Int
  BY ScoreType
<1>5. ASSUME NEW s, Entry(nodes, l, s) PROVE list[s.id] \in Around(nodes)[l]
  BY <1>5, ListsAreNested DEF Entry, FromOutside
<1>6. list[r] \in Around(nodes)[l] /\ list[q] \in Around(nodes)[l]
  BY <1>2, <1>5
<1>7. list[r] \in 0..Len(nodes) /\ list[q] \in 0..Len(nodes)
  BY <1>3, OuterIsParent
<1>8. d[list[r]] > d[list[q]] => list[r] > list[q]
  <2>1. SUFFICES ASSUME list[r] <= list[q] PROVE d[list[r]] <= d[list[q]]
    BY <1>7, DepthOfList
  <2>2. list[r] \in Around(nodes)[list[q]]
    BY <1>6, <2>1, ListsAreNested
  <2>. QED  BY <2>2, <1>7, ListsAreNested
<1>9. \/ score(r) > score(q)
      \/ score(r) = score(q) /\ d[list[r]] > d[list[q]]
      \/ score(r) = score(q) /\ j > k
  <2>. HIDE DEF r, q, list, d
  <2>. QED  BY <1>1, <1>3 DEF Better
<1>10. j > k => \/ list[q] < list[r]
                \/ list[q] = list[r] /\ q < r
  BY DEF Serves
<1>. QED  BY <1>3, <1>4, <1>7, <1>8, <1>9, <1>10 DEF Outranks

\* selectReplacement chooses the replacement that is meant.
LEMMA BestIsMeant ==
  ASSUME NEW nodes, Tree(nodes), NEW l \in 0..Len(nodes), NEW key, NEW specs, NEW R,
         Serves(nodes, l, key, specs, R), NEW b, b = Select(key, specs)
  PROVE  /\ R = {} => b = 0 \/ specs[b].isDefault
         /\ R # {} => /\ b # 0 /\ ~specs[b].isDefault
                      /\ specs[b].id = CHOOSE r \in R : \A q \in R \ {r} : Outranks(nodes, key, r, q)
         /\ b # 0 => b \in DOMAIN specs /\ FitsAny(key, specs[b].tags)
<1>. DEFINE fit(k) == FitsAny(key, specs[k].tags)
            first(r) == \A q \in R \ {r} : Outranks(nodes, key, r, q)
<1>1. specs \in Seq(SpecType)
  BY DEF Serves
<1>2. /\ b \in 0..Len(specs)
      /\ b = 0 => \A k \in DOMAIN specs : ~fit(k)
      /\ b # 0 => fit(b) /\ \A k \in DOMAIN specs : k # b /\ fit(k) => Better(key, specs, b, k)
  BY <1>1, SelectIsBest
<1>3. b # 0 => b \in DOMAIN specs /\ fit(b)
  BY <1>1, <1>2
<1>4. R = {} => b = 0 \/ specs[b].isDefault
  BY <1>3 DEF Serves
<1>5. ASSUME R # {}
      PROVE  b # 0 /\ ~specs[b].isDefault /\ specs[b].id = CHOOSE r \in R : first(r)
  <2>1. PICK k \in DOMAIN specs : fit(k) /\ ~specs[k].isDefault
    BY <1>5 DEF Serves
  <2>2. b # 0
    BY <1>2, <2>1
  <2>3. ~specs[b].isDefault
    <3>1. CASE k = b
      BY <2>1, <3>1
    <3>2. CASE k # b
      <4>1. Better(key, specs, b, k) /\ k # 0
        BY <1>1, <1>2, <2>1, <2>2, <3>2
      <4>. QED  BY <4>1, <2>1 DEF Better
    <3>. QED  BY <3>1, <3>2
  <2>. DEFINE r == specs[b].id
  <2>4. r \in R
    BY <1>3, <2>2, <2>3 DEF Serves
  <2>5. ASSUME NEW q \in R, q # r PROVE Outranks(nodes, key, r, q)
    <3>1. PICK m \in DOMAIN specs : specs[m].id = q /\ fit(m) /\ ~specs[m].isDefault
      BY DEF Serves
    <3>2. m # b /\ Better(key, specs, b, m)
      BY <1>2, <2>2, <2>5, <3>1
    <3>3. specs[b].isDefault = specs[m].isDefault
      <4>1. specs[b] \in SpecType /\ specs[m] \in SpecType
        BY <1>1, <1>3, <2>2
      <4>2. specs[b].isDefault \in BOOLEAN /\ specs[m].isDefault \in BOOLEAN
        BY <4>1 DEF SpecType
      <4>. QED  BY <2>3, <3>1, <4>2
    <3>4. Outranks(nodes, key, specs[b].id, specs[m].id)
      BY <1>3, <2>2, <3>1, <3>2, <3>3, BetterOutranks
    <3>. QED  BY <3>1, <3>4
  <2>6. ASSUME NEW q \in R, first(q) PROVE q = r
    <3>1. SUFFICES ASSUME q # r PROVE FALSE
      OBVIOUS
    <3>2. Outranks(nodes, key, r, q) /\ Outranks(nodes, key, q, r)
      BY <2>4, <2>5, <2>6, <3>1
    <3>3. r \in 1..Len(nodes) /\ q \in 1..Len(nodes)
      BY <1>3, <2>2, <2>4 DEF Serves, Entry
    <3>4. Lists(nodes)[r] \in Int /\ Lists(nodes)[q] \in Int
      BY <3>3, OuterIsParent
    <3>5. Score(key, nodes[r].tags) \in Int /\ Score(key, nodes[q].tags) \in Int
      BY ScoreType
    <3>. HIDE DEF r
    <3>. QED  BY <3>2, <3>3, <3>4, <3>5 DEF Outranks
  <2>7. r = CHOOSE x \in R : first(x)
    <3>. HIDE DEF r
    <3>1. first(r)
      BY <2>5
    <3>2. \A x \in R : first(x) => x = r
      BY <2>6
    <3>. HIDE DEF first
    <3>. QED  BY <2>4, <3>1, <3>2
  <2>. QED  BY <2>2, <2>3, <2>7
<1>. QED  BY <1>3, <1>4, <1>5

\* What a consumer of something provided chooses from.
LEMMA ApplicableServes ==
  ASSUME NEW nodes, Tree(nodes), NEW place, IsPlace(nodes, place), NEW key, NEW specs,
         specs = Applicable(Specs(nodes)[place.list], place.index)
  PROVE  /\ Serves(nodes, place.list, key, specs, InEffect(nodes, place, key))
         /\ \A k \in DOMAIN specs : FitsAny(key, specs[k].tags) => ~specs[k].isDefault
<1>. DEFINE l == place.list
            all == Specs(nodes)[l]
            R == InEffect(nodes, place, key)
            fit(k) == FitsAny(key, specs[k].tags)
<1>1. all \in Seq(SpecType) /\ Faithful(nodes, l, all)
  BY SpecsAreFaithful DEF IsPlace
<1>2. specs \in Seq(SpecType) /\ DOMAIN specs = DOMAIN all
  BY <1>1, InheritType
<1>3. ASSUME NEW k \in DOMAIN specs
      PROVE  specs[k] = IF Applies(all[k], place.index) THEN all[k] ELSE Cleared(all[k])
  BY <1>2 DEF Applicable
<1>4. ASSUME NEW k \in DOMAIN specs, fit(k)
      PROVE  specs[k] = all[k] /\ Applies(all[k], place.index) /\ specs[k].tags # {}
  <2>1. specs[k].tags # {}
    BY <1>4 DEF FitsAny
  <2>2. all[k] \in SpecType
    BY <1>1, <1>2
  <2>3. Cleared(all[k]).tags = {}
    BY <2>2 DEF Cleared, SpecType
  <2>. QED  BY <1>3, <2>1, <2>3
<1>5. ASSUME NEW k \in DOMAIN specs, fit(k)
      PROVE  Entry(nodes, l, specs[k]) /\ ~specs[k].isDefault /\ specs[k].id \in R
  <2>1. specs[k] = all[k] /\ Applies(all[k], place.index) /\ specs[k].tags # {}
    BY <1>4, <1>5
  <2>2. Entry(nodes, l, specs[k])
    BY <1>1, <1>2, <2>1 DEF Faithful
  <2>3. ~all[k].isDefault
    BY <2>1 DEF Applies
  <2>4. all[k].id \in R
    BY <1>2, <1>5, <2>1, <2>3, ActiveIsInEffect
  <2>. QED  BY <2>1, <2>2, <2>3, <2>4
<1>6. ASSUME NEW r \in R
      PROVE  \E k \in DOMAIN specs : specs[k].id = r /\ fit(k) /\ ~specs[k].isDefault
  <2>1. PICK k \in DOMAIN all : /\ all[k].id = r /\ FitsAny(key, all[k].tags)
                                /\ Applies(all[k], place.index)
    BY InEffectIsActive
  <2>2. k \in DOMAIN specs /\ specs[k] = all[k]
    BY <1>2, <1>3, <2>1
  <2>3. ~all[k].isDefault
    BY <2>1 DEF Applies
  <2>. QED  BY <2>1, <2>2, <2>3
<1>7. ASSUME NEW j \in DOMAIN specs, NEW k \in DOMAIN specs, fit(j), fit(k), j < k
      PROVE  \/ Lists(nodes)[specs[j].id] < Lists(nodes)[specs[k].id]
             \/ Lists(nodes)[specs[j].id] = Lists(nodes)[specs[k].id] /\ specs[j].id < specs[k].id
  <2>1. /\ specs[j] = all[j] /\ specs[j].tags # {}
        /\ specs[k] = all[k] /\ specs[k].tags # {}
    BY <1>4, <1>7
  <2>. QED  BY <1>1, <1>2, <1>7, <2>1 DEF Faithful
<1>8. Serves(nodes, l, key, specs, R)
  <2>. HIDE DEF R, l
  <2>. QED  BY <1>2, <1>5, <1>6, <1>7 DEF Serves
<1>. QED  BY <1>5, <1>8

\* What a consumer of something that only a default has chooses from.
LEMMA SpecsServe ==
  ASSUME NEW nodes, Tree(nodes), NEW place, IsPlace(nodes, place), NEW key,
         NEW specs, specs = Specs(nodes)[place.list],
         \A r \in DOMAIN nodes :
           nodes[r].kind = "replace" /\ nodes[r].mode # "all" /\ Lists(nodes)[r] = place.list =>
             ~FitsAny(key, nodes[r].tags)
  PROVE  Serves(nodes, place.list, key, specs, InEffect(nodes, place, key))
<1>. DEFINE l == place.list
            R == InEffect(nodes, place, key)
            fit(k) == FitsAny(key, specs[k].tags)
<1>1. specs \in Seq(SpecType) /\ Faithful(nodes, l, specs)
  BY SpecsAreFaithful DEF IsPlace
<1>2. ASSUME NEW k \in DOMAIN specs, fit(k) PROVE specs[k].tags # {} /\ Entry(nodes, l, specs[k])
  <2>1. specs[k].tags # {}
    BY <1>2 DEF FitsAny
  <2>. QED  BY <1>1, <2>1 DEF Faithful
<1>3. ASSUME NEW k \in DOMAIN specs, fit(k), ~specs[k].isDefault PROVE specs[k].id \in R
  <2>1. Entry(nodes, l, specs[k])
    BY <1>2, <1>3
  <2>2. CASE specs[k].inherited
    <3>1. Applies(specs[k], place.index)
      BY <1>3, <2>2 DEF Applies
    <3>. QED  BY <1>3, <3>1, ActiveIsInEffect
  <2>3. CASE ~specs[k].inherited
    <3>1. /\ specs[k].id \in DOMAIN nodes /\ nodes[specs[k].id].kind = "replace"
          /\ Lists(nodes)[specs[k].id] = l /\ FitsAny(key, nodes[specs[k].id].tags)
      BY <1>3, <2>1, <2>3, NodesOfTree DEF Entry, IsSpec
    <3>2. nodes[specs[k].id].mode = "all"
      BY <3>1
    <3>. QED  BY <1>3, <3>2, ActiveIsInEffect
  <2>. QED  BY <2>2, <2>3
<1>4. ASSUME NEW r \in R
      PROVE  \E k \in DOMAIN specs : specs[k].id = r /\ fit(k) /\ ~specs[k].isDefault
  <2>1. PICK k \in DOMAIN specs : /\ specs[k].id = r /\ FitsAny(key, specs[k].tags)
                                  /\ Applies(specs[k], place.index)
    BY InEffectIsActive
  <2>. QED  BY <2>1 DEF Applies
<1>5. \A j, k \in DOMAIN specs : fit(j) /\ fit(k) /\ j < k =>
        \/ Lists(nodes)[specs[j].id] < Lists(nodes)[specs[k].id]
        \/ Lists(nodes)[specs[j].id] = Lists(nodes)[specs[k].id] /\ specs[j].id < specs[k].id
  BY <1>1, <1>2 DEF Faithful
<1>. HIDE DEF R, l
<1>6. Serves(nodes, l, key, specs, R)
  BY <1>1, <1>2, <1>3, <1>4, <1>5 DEF Serves
<1>. QED  BY <1>6 DEF R, l

\* A set of numbers has a least one.
LEMMA LeastNumber ==
  ASSUME NEW S, S \in SUBSET Nat, S # {}
  PROVE  \E m \in S : \A k \in S : m <= k
<1>1. PICK m \in S : \A k \in S : ~(<<k, m>> \in OpToRel(<, Nat))
  BY WFMin, NatLessThanWellFounded, Zenon
<1>2. ASSUME NEW k \in S PROVE m <= k
  <2>1. ~(k < m)
    BY <1>1 DEF OpToRel
  <2>. QED  BY <2>1
<1>. QED  BY <1>2

\* appendDefaultTags looks at the defaults of the list.
DefaultSpecs(specs, key) == {k \in DOMAIN specs : specs[k].isDefault /\ key \in specs[k].tags}

FirstDefault(specs, key) ==
  specs[CHOOSE k \in DefaultSpecs(specs, key) : \A m \in DefaultSpecs(specs, key) : k <= m].id

LEMMA DefaultsOfPlace ==
  ASSUME NEW nodes, Tree(nodes), NEW place, IsPlace(nodes, place), NEW key,
         NEW specs, specs = Specs(nodes)[place.list],
         NEW D, D = Defaults(nodes, place, key)
  PROVE  /\ DefaultSpecs(specs, key) # {} <=> D # {}
         /\ D # {} => FirstDefault(specs, key) = CHOOSE d \in D : \A e \in D : d <= e
<1>. DEFINE l == place.list
            list == Lists(nodes)
            S == DefaultSpecs(specs, key)
<1>1. specs \in Seq(SpecType) /\ Faithful(nodes, l, specs)
  BY SpecsAreFaithful DEF IsPlace
<1>2. ASSUME NEW k \in S
      PROVE  /\ k \in DOMAIN specs /\ k \in Nat /\ specs[k].tags # {} /\ specs[k].id \in D
             /\ list[specs[k].id] = l
  <2>1. k \in DOMAIN specs /\ specs[k].isDefault /\ key \in specs[k].tags
    BY DEF DefaultSpecs
  <2>2. Entry(nodes, l, specs[k])
    BY <1>1, <2>1 DEF Faithful
  <2>3. nodes[specs[k].id].kind = "default" /\ specs[k].id \in DOMAIN nodes
    BY <2>1, <2>2, NodesOfTree DEF Entry
  <2>4. list[specs[k].id] = l
    BY <2>2, <2>3 DEF Entry, FromOutside
  <2>5. specs[k].id \in D
    BY <2>1, <2>2, <2>3, <2>4 DEF Entry, Defaults
  <2>. QED  BY <1>1, <2>1, <2>4, <2>5
<1>3. ASSUME NEW d \in D PROVE \E k \in S : specs[k].id = d
  <2>1. d \in 1..Len(nodes) /\ IsSpec(nodes, d) /\ list[d] = l /\ key \in nodes[d].tags
        /\ nodes[d].kind = "default"
    BY NodesOfTree DEF Defaults, IsSpec
  <2>2. PICK k \in DOMAIN specs : specs[k].tags # {} /\ specs[k].id = d
    BY <1>1, <2>1 DEF Faithful
  <2>3. Entry(nodes, l, specs[k])
    BY <1>1, <2>2 DEF Faithful
  <2>4. k \in S
    BY <2>1, <2>2, <2>3 DEF Entry, DefaultSpecs
  <2>. QED  BY <2>2, <2>4
<1>4. D \in SUBSET Nat
  BY NodesOfTree DEF Defaults
<1>. DEFINE least(k) == \A m \in S : k <= m
            first(d) == \A e \in D : d <= e
            f == CHOOSE k \in S : least(k)
<1>5. ASSUME D # {} PROVE specs[f].id = CHOOSE d \in D : first(d)
  <2>1. S # {} /\ S \in SUBSET Nat
    BY <1>2, <1>3, <1>5
  <2>2. \E k \in S : least(k)
    <3>. HIDE DEF S
    <3>. QED  BY <2>1, LeastNumber
  <2>3. f \in S /\ least(f)
    <3>. HIDE DEF S, least
    <3>. QED  BY <2>2
  <2>. HIDE DEF f
  <2>4. ASSUME NEW e \in D PROVE specs[f].id <= e
    <3>1. PICK k \in S : specs[k].id = e
      BY <1>3
    <3>2. f \in DOMAIN specs /\ k \in DOMAIN specs /\ f \in Nat /\ k \in Nat /\ f <= k
      BY <1>2, <2>3
    <3>3. CASE f = k
      BY <3>1, <3>3, <1>4
    <3>4. CASE f < k
      <4>1. specs[f].tags # {} /\ specs[k].tags # {} /\ list[specs[f].id] = list[specs[k].id]
            /\ list[specs[f].id] = l
        BY <1>2, <2>3
      <4>2. list[specs[f].id] < list[specs[k].id] \/ specs[f].id < specs[k].id
        BY <1>1, <3>2, <3>4, <4>1 DEF Faithful
      <4>3. l \in Nat /\ specs[f].id \in Nat /\ e \in Nat
        BY <1>2, <1>4, <2>3, NodesOfTree DEF IsPlace
      <4>. QED  BY <3>1, <4>1, <4>2, <4>3
    <3>. QED  BY <3>2, <3>3, <3>4
  <2>5. specs[f].id \in D
    BY <1>2, <2>3
  <2>6. ASSUME NEW d \in D, first(d) PROVE d = specs[f].id
    BY <1>4, <2>4, <2>5, <2>6
  <2>7. \A d \in D : first(d) => d = specs[f].id
    BY <2>6
  <2>8. first(specs[f].id)
    BY <2>4
  <2>. HIDE DEF first
  <2>. QED  BY <2>5, <2>7, <2>8
<1>6. S # {} <=> D # {}
  BY <1>2, <1>3
<1>. QED  BY <1>5, <1>6 DEF FirstDefault

\* The tag of a key: the choice for what is provided, and for what only a default has.
LEMMA TagOfKey ==
  ASSUME NEW provides, NEW specs, NEW active, NEW key, NEW tags,
         tags = DefaultTags(provides, specs, ActiveTags(provides, active))
  PROVE  /\ key \in provides =>
              /\ key \in DOMAIN tags <=> Select(key, active) # 0
              /\ key \in DOMAIN tags => tags[key] = active[Select(key, active)].id
         /\ key \notin provides =>
              /\ key \in DOMAIN tags <=> DefaultSpecs(specs, key) # {}
              /\ key \in DOMAIN tags =>
                   tags[key] = IF specs[Select(key, specs)].isDefault
                               THEN FirstDefault(specs, key) ELSE specs[Select(key, specs)].id
<1>. DEFINE map == ActiveTags(provides, active)
            chosen == {ts \in provides : Select(ts, active) # 0}
            defaults(ts) == {k \in DOMAIN specs : specs[k].isDefault /\ ts \in specs[k].tags}
            keys == UNION {specs[k].tags : k \in {k \in DOMAIN specs : specs[k].isDefault}}
            first(ts) == CHOOSE k \in defaults(ts) : \A m \in defaults(ts) : k <= m
            id(ts) == IF specs[Select(ts, specs)].isDefault THEN specs[first(ts)].id
                      ELSE specs[Select(ts, specs)].id
<1>1. map = [ts \in chosen |-> active[Select(ts, active)].id]
  BY DEF ActiveTags
<1>2. tags = [ts \in DOMAIN map \cup (keys \ provides) |->
                IF ts \in DOMAIN map THEN map[ts] ELSE id(ts)]
  BY DEF DefaultTags
<1>3. first(key) = CHOOSE k \in DefaultSpecs(specs, key) :
                     \A m \in DefaultSpecs(specs, key) : k <= m
  BY DEF DefaultSpecs
<1>4. id(key) = IF specs[Select(key, specs)].isDefault
                THEN FirstDefault(specs, key) ELSE specs[Select(key, specs)].id
  <2>. HIDE DEF first
  <2>. QED  BY <1>3 DEF FirstDefault
<1>5. key \in keys <=> DefaultSpecs(specs, key) # {}
  BY DEF DefaultSpecs
<1>6. DOMAIN map = chosen /\ (key \in chosen => map[key] = active[Select(key, active)].id)
  <2>. HIDE DEF map
  <2>. QED  BY <1>1
<1>7. /\ key \in DOMAIN tags <=> key \in DOMAIN map \cup (keys \ provides)
      /\ key \in DOMAIN tags => tags[key] = IF key \in DOMAIN map THEN map[key] ELSE id(key)
  <2>. HIDE DEF map, keys, id
  <2>. QED  BY <1>2
<1>8. key \in chosen <=> key \in provides /\ Select(key, active) # 0
  OBVIOUS
<1>. HIDE DEF map, keys, id, chosen
<1>. QED  BY <1>4, <1>5, <1>6, <1>7, <1>8

\* A consumer of a key asks for the binding that the declarations mean.
LEMMA AsksWhatIsMeant ==
  ASSUME NEW nodes, Tree(nodes), ~BranchProvides(nodes), NEW place, IsPlace(nodes, place),
         NEW key, ~OnlyDefaultReplaced(nodes, place, key)
  PROVE  Asks(Tags(nodes, place.list, place.index), key) = Meaning(nodes, place, key)
<1>. DEFINE l == place.list
            provides == Provides(nodes)[l]
            specs == Specs(nodes)[l]
            active == Applicable(specs, place.index)
            tags == Tags(nodes, place.list, place.index)
            R == InEffect(nodes, place, key)
            D == Defaults(nodes, place, key)
            best == CHOOSE r \in R : \A q \in R \ {r} : Outranks(nodes, key, r, q)
            first == CHOOSE d \in D : \A e \in D : d <= e
<1>1. l \in 0..Len(nodes)
  BY DEF IsPlace
<1>2. key \in provides <=> Provided(nodes, key)
  BY <1>1, ProvidesAll
<1>3. tags = DefaultTags(provides, specs, ActiveTags(provides, active))
  BY DEF Tags
<1>4. /\ Provided(nodes, key) =>
           /\ key \in DOMAIN tags <=> Select(key, active) # 0
           /\ key \in DOMAIN tags => tags[key] = active[Select(key, active)].id
      /\ ~Provided(nodes, key) =>
           /\ key \in DOMAIN tags <=> DefaultSpecs(specs, key) # {}
           /\ key \in DOMAIN tags =>
                tags[key] = IF specs[Select(key, specs)].isDefault
                            THEN FirstDefault(specs, key) ELSE specs[Select(key, specs)].id
  <2>. HIDE DEF provides, specs, active, tags
  <2>. QED  BY <1>2, <1>3, TagOfKey
<1>5. Asks(tags, key) = IF key \in DOMAIN tags THEN Scoped(key, tags[key]) ELSE Plain(key)
  BY DEF Asks
<1>6. Meaning(nodes, place, key) =
        IF R # {} /\ (Provided(nodes, key) \/ D # {}) THEN Scoped(key, best)
        ELSE IF Provided(nodes, key) \/ D = {} THEN Plain(key) ELSE Scoped(key, first)
  BY DEF Meaning
<1>7. CASE Provided(nodes, key)
  <2>. DEFINE b == Select(key, active)
  <2>1. /\ Serves(nodes, l, key, active, R)
        /\ \A k \in DOMAIN active : FitsAny(key, active[k].tags) => ~active[k].isDefault
    BY ApplicableServes
  <2>2. /\ R = {} => b = 0 \/ active[b].isDefault
        /\ R # {} => b # 0 /\ ~active[b].isDefault /\ active[b].id = best
        /\ b # 0 => b \in DOMAIN active /\ FitsAny(key, active[b].tags)
    <3>. HIDE DEF active, R, l
    <3>. QED  BY <1>1, <2>1, BestIsMeant
  <2>3. R = {} <=> b = 0
    <3>. HIDE DEF active, R, l, b, best
    <3>. QED  BY <2>1, <2>2
  <2>. HIDE DEF active, R, l, b, best, tags, specs, first
  <2>4. IF R = {} THEN key \notin DOMAIN tags ELSE key \in DOMAIN tags /\ tags[key] = best
    BY <1>4, <1>7, <2>2, <2>3 DEF b
  <2>. QED  BY <1>5, <1>6, <1>7, <2>4 DEF tags
<1>8. CASE ~Provided(nodes, key)
  <2>. DEFINE b == Select(key, specs)
  <2>1. /\ DefaultSpecs(specs, key) # {} <=> D # {}
        /\ D # {} => FirstDefault(specs, key) = first
    <3>. HIDE DEF D
    <3>1. D = Defaults(nodes, place, key)
      BY DEF D
    <3>. QED  BY <3>1, DefaultsOfPlace
  <2>2. CASE D = {}
    <3>. HIDE DEF D, tags, specs, R, best, first
    <3>1. key \notin DOMAIN tags
      BY <1>4, <1>8, <2>1, <2>2
    <3>. QED  BY <1>5, <1>6, <1>8, <2>2, <3>1 DEF tags
  <2>3. CASE D # {}
    <3>1. Serves(nodes, l, key, specs, R)
      <4>1. \A r \in DOMAIN nodes :
              nodes[r].kind = "replace" /\ nodes[r].mode # "all" /\ Lists(nodes)[r] = place.list =>
                ~FitsAny(key, nodes[r].tags)
        BY <1>8, <2>3 DEF OnlyDefaultReplaced
      <4>. QED  BY <4>1, SpecsServe
    <3>2. /\ R = {} => b = 0 \/ specs[b].isDefault
          /\ R # {} => b # 0 /\ ~specs[b].isDefault /\ specs[b].id = best
      <4>. HIDE DEF specs, R, l
      <4>. QED  BY <1>1, <3>1, BestIsMeant
    <3>3. b # 0
      <4>1. PICK k : k \in DOMAIN specs /\ key \in specs[k].tags
        BY <2>1, <2>3 DEF DefaultSpecs
      <4>2. FitsAny(key, specs[k].tags)
        BY <4>1 DEF FitsAny, Fits
      <4>3. specs \in Seq(SpecType)
        BY <1>1, SpecsAreFaithful
      <4>. HIDE DEF specs
      <4>. QED  BY <4>1, <4>2, <4>3, SelectIsBest
    <3>. HIDE DEF D, tags, specs, R, best, first
    <3>4. key \in DOMAIN tags
      BY <1>4, <1>8, <2>1, <2>3
    <3>5. tags[key] = IF R = {} THEN first ELSE best
      BY <1>4, <1>8, <2>1, <2>3, <3>2, <3>3, <3>4
    <3>. QED  BY <1>5, <1>6, <1>8, <2>3, <3>4, <3>5 DEF tags
  <2>. QED  BY <2>2, <2>3
<1>. QED  BY <1>7, <1>8

-----------------------------------------------------------------------------
(* The binding that is asked for is there.                                 *)

LEMMA ExportOfNode ==
  ASSUME NEW nodes, NEW i \in DOMAIN nodes, NEW ts
  PROVE  /\ nodes[i].kind = "replace"
              /\ ts \in ReplacementTargets(nodes[i].tags, Provides(nodes)[Lists(nodes)[i]])
            => Scoped(ts, i) \in Exports(nodes)
         /\ nodes[i].kind = "default" /\ ts \in nodes[i].tags => Scoped(ts, i) \in Exports(nodes)
<1>. DEFINE list == Lists(nodes)
            replaced(x) == ReplacementTargets(nodes[x].tags, Provides(nodes)[list[x]])
            served(x) == DefaultTargets(nodes[x].tags, Provides(nodes)[list[x]], Specs(nodes)[list[x]])
            exports(x) ==
              CASE nodes[x].kind = "provide" -> {Plain(k) : k \in nodes[x].tags}
                [] nodes[x].kind = "replace" -> {Scoped(k, x) : k \in replaced(x)}
                [] nodes[x].kind = "default" -> {Scoped(k, x) : k \in served(x)}
                [] OTHER -> {}
<1>1. Exports(nodes) = UNION {exports(x) : x \in DOMAIN nodes}
  BY DEF Exports
<1>2. exports(i) \subseteq Exports(nodes)
  <2>. HIDE DEF exports
  <2>. QED  BY <1>1
<1>3. ASSUME nodes[i].kind = "replace", ts \in replaced(i) PROVE Scoped(ts, i) \in exports(i)
  <2>1. exports(i) = {Scoped(k, i) : k \in replaced(i)}
    BY <1>3
  <2>. HIDE DEF replaced, exports
  <2>. QED  BY <1>3, <2>1
<1>4. ASSUME nodes[i].kind = "default", ts \in nodes[i].tags PROVE Scoped(ts, i) \in exports(i)
  <2>1. exports(i) = {Scoped(k, i) : k \in served(i)}
    BY <1>4
  <2>2. ts \in served(i)
    BY <1>4 DEF DefaultTargets
  <2>. HIDE DEF served, exports
  <2>. QED  BY <2>1, <2>2
<1>. QED  BY <1>2, <1>3, <1>4

\* Defaults have plain keys.
PlainDefaults(nodes) ==
  \A i \in DOMAIN nodes : nodes[i].kind = "default" => nodes[i].tags \subseteq PlainKeys

\* A replacement of a default is one of its very key.
LEMMA FitsDefault ==
  ASSUME NEW tags, tags \in SUBSET Keys, NEW key \in Keys, key.name = "", key.group = "",
         FitsAny(key, tags)
  PROVE  key \in tags
<1>1. PICK rt \in tags : Fits(key, rt)
  BY DEF FitsAny
<1>2. rt.typ = key.typ /\ rt.name = key.name /\ rt.group = key.group
  BY <1>1 DEF Fits
<1>3. rt = Key(rt.typ, rt.name, rt.group) /\ key = Key(key.typ, key.name, key.group)
  BY <1>1, KeysAssumption
<1>4. rt = key
  BY <1>2, <1>3
<1>. QED  BY <1>1, <1>4

\* A specification of a list that fits a key and what its declaration exports.
LEMMA EntryIsExported ==
  ASSUME NEW nodes, Tree(nodes), ~BranchProvides(nodes), NEW l, NEW s, Entry(nodes, l, s),
         NEW key, FitsAny(key, s.tags), ~s.isDefault, key \in s.tags \/ Provided(nodes, key)
  PROVE  Scoped(key, s.id) \in Exports(nodes)
<1>1. s.id \in DOMAIN nodes /\ s.id \in 1..Len(nodes) /\ s.tags = nodes[s.id].tags
      /\ nodes[s.id].kind = "replace"
  BY NodesOfTree DEF Entry, IsSpec
<1>2. Lists(nodes)[s.id] \in 0..Len(nodes)
  BY <1>1, OuterIsParent
<1>3. key \in s.tags \/ key \in Provides(nodes)[Lists(nodes)[s.id]]
  BY <1>2, ProvidesAll
<1>4. key \in ReplacementTargets(nodes[s.id].tags, Provides(nodes)[Lists(nodes)[s.id]])
  BY <1>1, <1>3 DEF ReplacementTargets
<1>. QED  BY <1>1, <1>4, ExportOfNode

\* A consumer that is sent to a replacement or default finds it.
LEMMA AskedIsExported ==
  ASSUME NEW nodes, Tree(nodes), PlainDefaults(nodes), ~BranchProvides(nodes),
         NEW place, IsPlace(nodes, place),
         NEW tags, tags = Tags(nodes, place.list, place.index), NEW key \in DOMAIN tags
  PROVE  Scoped(key, tags[key]) \in Exports(nodes)
<1>. DEFINE l == place.list
            provides == Provides(nodes)[l]
            specs == Specs(nodes)[l]
            active == Applicable(specs, place.index)
<1>1. l \in 0..Len(nodes)
  BY DEF IsPlace
<1>2. key \in provides <=> Provided(nodes, key)
  BY <1>1, ProvidesAll
<1>3. specs \in Seq(SpecType) /\ Faithful(nodes, l, specs)
  BY <1>1, SpecsAreFaithful
<1>4. tags = DefaultTags(provides, specs, ActiveTags(provides, active))
  BY DEF Tags
<1>5. /\ key \in provides =>
           Select(key, active) # 0 /\ tags[key] = active[Select(key, active)].id
      /\ key \notin provides =>
           /\ DefaultSpecs(specs, key) # {}
           /\ tags[key] = IF specs[Select(key, specs)].isDefault
                          THEN FirstDefault(specs, key) ELSE specs[Select(key, specs)].id
  <2>. HIDE DEF provides, specs, active
  <2>. QED  BY <1>4, TagOfKey
<1>6. CASE key \in provides
  <2>. DEFINE b == Select(key, active)
              R == InEffect(nodes, place, key)
  <2>1. /\ Serves(nodes, l, key, active, R)
        /\ \A k \in DOMAIN active : FitsAny(key, active[k].tags) => ~active[k].isDefault
    BY ApplicableServes
  <2>2. b # 0 => b \in DOMAIN active /\ FitsAny(key, active[b].tags)
    <3>. HIDE DEF active, R, l
    <3>. QED  BY <1>1, <2>1, BestIsMeant
  <2>. HIDE DEF active, R, l, provides
  <2>3. Entry(nodes, l, active[b]) /\ ~active[b].isDefault /\ FitsAny(key, active[b].tags)
    BY <1>5, <1>6, <2>1, <2>2 DEF Serves
  <2>4. Scoped(key, active[b].id) \in Exports(nodes)
    BY <1>2, <1>6, <2>3, EntryIsExported
  <2>. QED  BY <1>5, <1>6, <2>4
<1>7. CASE key \notin provides
  <2>. DEFINE b == Select(key, specs)
              D == Defaults(nodes, place, key)
  <2>1. PICK k \in DOMAIN specs : specs[k].isDefault /\ key \in specs[k].tags
    BY <1>5, <1>7 DEF DefaultSpecs
  <2>2. Entry(nodes, l, specs[k]) /\ specs[k] \in SpecType
    BY <1>3, <2>1 DEF Faithful
  <2>3. key \in Keys /\ key.name = "" /\ key.group = ""
    <3>1. key \in Keys
      BY <2>1, <2>2 DEF SpecType
    <3>2. specs[k].id \in DOMAIN nodes /\ nodes[specs[k].id].kind = "default"
          /\ key \in nodes[specs[k].id].tags
      BY <2>1, <2>2, NodesOfTree DEF Entry
    <3>. QED  BY <3>1, <3>2 DEF PlainDefaults, PlainKeys
  <2>4. CASE specs[b].isDefault
    <3>1. /\ DefaultSpecs(specs, key) # {} <=> D # {}
          /\ D # {} => FirstDefault(specs, key) = CHOOSE d \in D : \A e \in D : d <= e
      <4>. HIDE DEF D
      <4>1. D = Defaults(nodes, place, key)
        BY DEF D
      <4>. QED  BY <4>1, DefaultsOfPlace
    <3>2. D # {} /\ D \in SUBSET Nat
      <4>1. D \in SUBSET Nat
        BY NodesOfTree DEF Defaults
      <4>. QED  BY <3>1, <1>5, <1>7, <4>1
    <3>3. FirstDefault(specs, key) \in D
      <4>. HIDE DEF D
      <4>. QED  BY <3>1, <3>2, LeastNumber
    <3>. DEFINE d == FirstDefault(specs, key)
    <3>4. d \in DOMAIN nodes /\ nodes[d].kind = "default" /\ key \in nodes[d].tags
      BY <3>3 DEF Defaults
    <3>. HIDE DEF d, specs, D, provides
    <3>5. Scoped(key, d) \in Exports(nodes)
      BY <3>4, ExportOfNode
    <3>. QED  BY <1>5, <1>7, <2>4, <3>5 DEF d
  <2>5. CASE ~specs[b].isDefault
    <3>1. /\ b \in 0..Len(specs) /\ b # 0
          /\ FitsAny(key, specs[b].tags)
      <4>1. FitsAny(key, specs[k].tags)
        BY <2>1 DEF FitsAny, Fits
      <4>. HIDE DEF specs
      <4>. QED  BY <1>3, <2>1, <4>1, SelectIsBest
    <3>2. b \in DOMAIN specs /\ specs[b] \in SpecType
      BY <3>1, <1>3
    <3>3. Entry(nodes, l, specs[b])
      <4>1. specs[b].tags # {}
        BY <3>1 DEF FitsAny
      <4>. QED  BY <1>3, <3>2, <4>1 DEF Faithful
    <3>4. key \in specs[b].tags
      <4>1. specs[b].tags \in SUBSET Keys
        BY <3>2 DEF SpecType
      <4>. QED  BY <2>3, <3>1, <4>1, FitsDefault
    <3>. HIDE DEF b, specs, l, provides
    <3>5. Scoped(key, specs[b].id) \in Exports(nodes)
      BY <2>5, <3>1, <3>3, <3>4, EntryIsExported
    <3>. QED  BY <1>5, <1>7, <2>5, <3>5 DEF b
  <2>. QED  BY <2>4, <2>5
<1>. QED  BY <1>6, <1>7

-----------------------------------------------------------------------------
(* What is declared is an application: an inductive invariant.             *)

\* What is being written stands in groups, and defaults are plain.
Written ==
  /\ TypeOK
  /\ \A k \in DOMAIN open : IsGroup(declared[open[k]])
  /\ PlainDefaults(declared)

LEMMA WrittenIsTree == ASSUME TypeOK PROVE Tree(declared)
BY DEF TypeOK, Tree, NodeType

LEMMA PlacesAreInLists ==
  ASSUME NEW nodes, Tree(nodes), NEW place \in Places(nodes)
  PROVE  IsPlace(nodes, place)
<1>1. Len(nodes) \in Nat /\ DOMAIN nodes = 1..Len(nodes)
  BY NodesOfTree
<1>2. CASE \E l \in {0} \cup {l \in DOMAIN nodes : nodes[l].kind \in {"module", "branch"}} :
             place = [list |-> l, index |-> 1]
  BY <1>1, <1>2 DEF IsPlace
<1>3. CASE \E i \in DOMAIN nodes : place = [list |-> Lists(nodes)[i], index |-> At(i) + 1]
  BY <1>1, <1>3, OuterIsParent DEF IsPlace
<1>. QED  BY <1>2, <1>3 DEF Places

\* The type of a declaration is that of what it declares.
LEMMA DeclaredType ==
  ASSUME NEW node \in Leaves \cup Groups, NEW in \in Nat, NEW x, x = [node EXCEPT !.in = in]
  PROVE  /\ x \in NodeType /\ x.in = in /\ x.kind = node.kind
         /\ x.kind = "default" => x.tags \subseteq PlainKeys
<1>. DEFINE plain(tags) == tags \subseteq PlainKeys
<1>1. ASSUME NEW kind \in {"provide", "replace", "default", "module", "options", "branch"},
             NEW mode \in Modes, NEW tags \in SUBSET Keys, kind = "default" => plain(tags)
      PROVE  /\ Node(kind, mode, tags) \in NodeType /\ Node(kind, mode, tags).kind = kind
             /\ Node(kind, mode, tags).tags = tags
  BY DEF Node, NodeType
<1>2. node \in NodeType /\ (node.kind = "default" => plain(node.tags))
  <2>. HIDE DEF plain
  <2>. DEFINE Goal == node \in NodeType /\ (node.kind = "default" => plain(node.tags))
  <2>1. ASSUME NEW k \in Keys, node = Provide({k}) PROVE Goal
    <3>1. node = Node("provide", "all", {k}) /\ {k} \in SUBSET Keys
      BY <2>1 DEF Provide
    <3>. QED  BY <1>1, <3>1 DEF Modes
  <2>2. ASSUME NEW m \in Modes, NEW k \in Keys, node = Replace(m, {k}) PROVE Goal
    <3>1. node = Node("replace", m, {k}) /\ {k} \in SUBSET Keys
      BY <2>2 DEF Replace
    <3>. QED  BY <1>1, <3>1
  <2>3. ASSUME NEW k \in PlainKeys, node = Default({k}) PROVE Goal
    <3>1. node = Node("default", "all", {k}) /\ {k} \in SUBSET Keys
      BY <2>3 DEF Default, PlainKeys
    <3>2. plain({k})
      BY <2>3 DEF plain
    <3>. QED  BY <1>1, <3>1, <3>2 DEF Modes
  <2>4. ASSUME NEW kind \in {"module", "options", "branch"}, node = Group(kind) PROVE Goal
    <3>1. node = Node(kind, "all", {}) /\ {} \in SUBSET Keys
      BY <2>4 DEF Group
    <3>. QED  BY <1>1, <3>1 DEF Modes
  <2>. HIDE DEF Goal
  <2>5. node \in {Provide({k}) : k \in Keys} => Goal
    BY <2>1
  <2>6. ASSUME node \in UNION {{Replace(m, {k}) : m \in Modes} : k \in Keys} PROVE Goal
    <3>1. PICK m \in Modes, k \in Keys : node = Replace(m, {k})
      BY <2>6
    <3>. QED  BY <2>2, <3>1, Zenon
  <2>7. node \in {Default({k}) : k \in PlainKeys} => Goal
    BY <2>3
  <2>8. node \in Groups => Goal
    BY <2>4 DEF Groups
  <2>9. Goal
    <3>1. \/ node \in {Provide({k}) : k \in Keys}
          \/ node \in UNION {{Replace(m, {k}) : m \in Modes} : k \in Keys}
          \/ node \in {Default({k}) : k \in PlainKeys}
          \/ node \in Groups
      BY DEF Leaves
    <3>. QED  BY <2>5, <2>6, <2>7, <2>8, <3>1, Zenon
  <2>. QED  BY <2>9 DEF Goal
<1>3. x \in NodeType /\ x.in = in /\ x.kind = node.kind /\ x.tags = node.tags
  BY <1>2 DEF NodeType
<1>. QED  BY <1>2, <1>3

\* A declaration is written in a group that is still open.
LEMMA DeclareKeepsWritten ==
  ASSUME Written, NEW node \in Leaves \cup Groups, NEW n \in 0..MaxDeclarations, Declare(node, n)
  PROVE  Written'
<1>. DEFINE len == Len(declared)
            in == IF n = 0 THEN 0 ELSE open[n]
            x == [node EXCEPT !.in = in]
            top == IF IsGroup(node) THEN <<len + 1>> ELSE <<>>
<1>1. /\ declared \in Seq(NodeType) /\ open \in Seq(DOMAIN declared)
      /\ rule \in PlacesOfRules \cup {"none"} /\ providers \in Seq(Providers)
      /\ len \in Nat /\ DOMAIN declared = 1..len
  BY DEF Written, TypeOK, NodeType
<1>2. /\ n <= Len(open) /\ n \in Nat
      /\ declared' = Append(declared, x) /\ open' = SubSeq(open, 1, n) \o top
      /\ rule' = rule /\ providers' = providers
  BY DEF Declare, ofGroup
<1>3. n # 0 => n \in DOMAIN open /\ open[n] \in 1..len
  BY <1>1, <1>2
<1>4. in \in Nat /\ in <= len /\ (in # 0 => in \in 1..len /\ IsGroup(declared[in]))
  BY <1>1, <1>3 DEF Written
<1>5. /\ x \in NodeType /\ x.in = in /\ x.kind = node.kind
      /\ x.kind = "default" => x.tags \subseteq PlainKeys
  <2>1. in \in Nat /\ x = [node EXCEPT !.in = in]
    BY <1>4
  <2>. HIDE DEF in, x
  <2>2. x \in NodeType /\ x.in = in
    BY <2>1, DeclaredType
  <2>3. x.kind = node.kind /\ (x.kind = "default" => x.tags \subseteq PlainKeys)
    BY <2>1, DeclaredType
  <2>. QED  BY <2>2, <2>3
<1>6. /\ declared' \in Seq(NodeType) /\ DOMAIN declared' = 1..(len + 1)
      /\ declared'[len + 1] = x /\ \A i \in 1..len : declared'[i] = declared[i]
  <2>1. declared' = Append(declared, x) /\ x \in NodeType
    BY <1>2, <1>5 DEF x, in
  <2>. HIDE DEF x
  <2>. QED  BY <1>1, <2>1
<1>. HIDE DEF len, x, in
<1>7. ASSUME NEW i \in DOMAIN declared', declared'[i].in # 0
      PROVE  declared'[i].in < i /\ IsGroup(declared'[declared'[i].in])
  <2>1. CASE i = len + 1
    <3>1. in \in 1..len /\ IsGroup(declared[in]) /\ declared'[i].in = in
      BY <1>4, <1>5, <1>6, <1>7, <2>1
    <3>2. declared'[in] = declared[in]
      BY <1>6, <3>1
    <3>. QED  BY <1>1, <2>1, <3>1, <3>2
  <2>2. CASE i \in 1..len
    <3>1. declared'[i] = declared[i] /\ declared[i] \in NodeType
      BY <1>1, <1>6, <2>2
    <3>2. declared[i].in \in Nat
      BY <3>1 DEF NodeType
    <3>3. declared[i].in < i /\ IsGroup(declared[declared[i].in])
      BY <1>1, <1>7, <2>2, <3>1 DEF Written, TypeOK
    <3>4. declared'[declared[i].in] = declared[declared[i].in]
      BY <1>1, <1>6, <1>7, <2>2, <3>1, <3>2, <3>3
    <3>. QED  BY <3>1, <3>3, <3>4
  <2>. QED  BY <1>1, <1>6, <2>1, <2>2
<1>8. /\ open' \in Seq(1..(len + 1))
      /\ \A k \in DOMAIN open' : \/ open'[k] = len + 1 /\ IsGroup(node)
                                 \/ k \in DOMAIN open /\ open'[k] = open[k]
  <2>. DEFINE sub == SubSeq(open, 1, n)
  <2>1. sub \in Seq(1..len) /\ Len(sub) = n /\ \A k \in 1..n : k \in DOMAIN open /\ sub[k] = open[k]
    BY <1>1, <1>2
  <2>. HIDE DEF sub
  <2>2. sub \in Seq(1..(len + 1))
    BY <1>1, <2>1
  <2>3. CASE IsGroup(node)
    <3>1. open' = Append(sub, len + 1)
      BY <1>2, <2>2, <2>3 DEF sub, top
    <3>2. len + 1 \in 1..(len + 1)
      BY <1>1
    <3>3. open' \in Seq(1..(len + 1))
      BY <2>2, <3>1, <3>2
    <3>4. DOMAIN open' = 1..(n + 1) /\ open'[n + 1] = len + 1 /\ \A k \in 1..n : open'[k] = sub[k]
      BY <1>2, <2>1, <2>2, <3>1, <3>2
    <3>. QED  BY <1>2, <2>1, <2>3, <3>3, <3>4
  <2>4. CASE ~IsGroup(node)
    <3>1. open' = sub
      BY <1>2, <2>2, <2>4 DEF sub, top
    <3>2. DOMAIN open' = 1..n
      BY <2>1, <2>2, <3>1
    <3>. QED  BY <2>1, <2>2, <3>1, <3>2
  <2>. QED  BY <2>3, <2>4
<1>9. ASSUME NEW k \in DOMAIN open' PROVE IsGroup(declared'[open'[k]])
  <2>1. CASE open'[k] = len + 1 /\ IsGroup(node)
    <3>1. declared'[open'[k]].kind = node.kind
      BY <1>5, <1>6, <2>1
    <3>. QED  BY <2>1, <3>1 DEF IsGroup
  <2>2. CASE k \in DOMAIN open /\ open'[k] = open[k]
    <3>1. open[k] \in 1..len /\ IsGroup(declared[open[k]])
      BY <1>1, <2>2 DEF Written
    <3>. QED  BY <1>6, <2>2, <3>1
  <2>. QED  BY <1>8, <2>1, <2>2
<1>10. PlainDefaults(declared)'
  <2>1. ASSUME NEW i \in DOMAIN declared', declared'[i].kind = "default"
        PROVE  declared'[i].tags \subseteq PlainKeys
    <3>1. CASE i = len + 1
      <4>1. declared'[i] = x
        BY <1>6, <3>1
      <4>. QED  BY <1>5, <2>1, <4>1, Zenon
    <3>2. CASE i \in 1..len
      BY <1>1, <1>6, <2>1, <3>2 DEF Written, PlainDefaults
    <3>. QED  BY <1>1, <1>6, <3>1, <3>2
  <2>. QED  BY <2>1 DEF PlainDefaults
<1>. QED  BY <1>1, <1>2, <1>6, <1>7, <1>8, <1>9, <1>10 DEF Written, TypeOK, NodeType

\* Declarations only ever make an application (options of di are built into nodes).
THEOREM WrittenIsInvariant == Declarations => []Written
<1>1. Init => Written
  BY OrderAssumption DEF Init, Written, TypeOK, PlainDefaults
<1>2. Written /\ [Next]_vars => Written'
  <2>1. SUFFICES ASSUME Written, [Next]_vars PROVE Written'
    OBVIOUS
  <2>2. ASSUME NEW node \in Leaves \cup Groups, NEW n \in 0..MaxDeclarations, Declare(node, n)
        PROVE  Written'
    BY <2>1, <2>2, DeclareKeepsWritten
  <2>3. ASSUME NEW place \in PlacesOfRules, DeclareRule(place) PROVE Written'
    BY <2>1, <2>3 DEF DeclareRule, written, Written, TypeOK, PlainDefaults
  <2>4. ASSUME NEW p \in Priorities \cup {None}, NEW member \in BOOLEAN,
               NEW pointer \in BOOLEAN, NEW place \in PlacesOfProviders,
               AddProvider(Provider(p, member, place, pointer))
        PROVE  Written'
    <3>1. /\ declared' = declared /\ open' = open /\ rule' = rule
          /\ providers' = Append(providers, Provider(p, member, place, pointer))
      BY <2>4 DEF AddProvider, written
    <3>2. Provider(p, member, place, pointer) \in Providers
      BY DEF Provider, Providers
    <3>3. providers' \in Seq(Providers)
      BY <2>1, <3>1, <3>2 DEF Written, TypeOK
    <3>. QED  BY <2>1, <3>1, <3>3 DEF Written, TypeOK, PlainDefaults
  <2>5. CASE UNCHANGED vars
    BY <2>1, <2>5 DEF vars, written, ofGroup, Written, TypeOK, PlainDefaults
  <2>. QED  BY <2>1, <2>2, <2>3, <2>4, <2>5 DEF Next
<1>. QED  BY <1>1, <1>2, PTL DEF Declarations

\* Declarations, what is open and the providers have their types.
THEOREM TypeIsCorrect == Declarations => []TypeOK
<1>1. Written => TypeOK
  BY DEF Written
<1>. QED  BY <1>1, WrittenIsInvariant, PTL

\* Every consumer asks for the binding that the declarations mean, however deep groups are
\* nested (applyReplacements, selectReplacement).
THEOREM MeaningIsAlwaysKept == Declarations => []MeaningIsKept
<1>1. Written => MeaningIsKept
  <2>1. SUFFICES ASSUME Written, ~BranchProvides(declared), NEW place \in Places(declared),
                        NEW key \in Keys, ~OnlyDefaultReplaced(declared, place, key)
                 PROVE  Asks(Tags(declared, place.list, place.index), key)
                          = Meaning(declared, place, key)
    BY DEF MeaningIsKept
  <2>2. Tree(declared)
    BY <2>1, WrittenIsTree DEF Written
  <2>3. IsPlace(declared, place)
    BY <2>2, PlacesAreInLists
  <2>. QED  BY <2>1, <2>2, <2>3, AsksWhatIsMeant
<1>. QED  BY <1>1, WrittenIsInvariant, PTL

\* A consumer that is sent to a replacement or default finds it (rewriteParamTags against
\* replacementTargets and defaultTargets).
THEOREM BindingsAlwaysExist == Declarations => []BindingsExist
<1>1. Written => BindingsExist
  <2>1. SUFFICES ASSUME Written, ~BranchProvides(declared), NEW place \in Places(declared),
                        NEW key \in DOMAIN Tags(declared, place.list, place.index)
                 PROVE  Scoped(key, Tags(declared, place.list, place.index)[key])
                          \in Exports(declared)
    BY DEF BindingsExist
  <2>2. Tree(declared) /\ PlainDefaults(declared)
    BY <2>1, WrittenIsTree DEF Written
  <2>3. IsPlace(declared, place)
    BY <2>2, PlacesAreInLists
  <2>. QED  BY <2>1, <2>2, <2>3, AskedIsExported
<1>. QED  BY <1>1, WrittenIsInvariant, PTL

-----------------------------------------------------------------------------
(* The order of the values of a group.                                     *)

\* The numbers up to n in an order, which is a set of pairs.
Below(n, order, i) == {j \in 1..n : <<j, i>> \in order}
Rank(n, order, i) == Cardinality(Below(n, order, i))
Nth(n, order, m) == CHOOSE i \in 1..n : Rank(n, order, i) = m - 1

TotalOrder(n, order) ==
  \A i, j, k \in 1..n :
    /\ <<i, i>> \notin order
    /\ i # j => <<i, j>> \in order \/ <<j, i>> \in order
    /\ <<i, j>> \in order /\ <<j, k>> \in order => <<i, k>> \in order

LEMMA RankGrows ==
  ASSUME NEW n \in Nat, NEW order, TotalOrder(n, order), NEW j \in 1..n
  PROVE  /\ Rank(n, order, j) \in 0..(n - 1)
         /\ \A i \in 1..n : <<i, j>> \in order => Rank(n, order, i) < Rank(n, order, j)
<1>1. IsFiniteSet(1..n) /\ Cardinality(1..n) = n
  <2>1. IsFiniteSet(1..n) /\ Cardinality(1..n) = IF 1 > n THEN 0 ELSE n - 1 + 1
    BY FS_Interval
  <2>. QED  BY <2>1
<1>2. ASSUME NEW i \in 1..n
      PROVE  /\ Below(n, order, i) \in SUBSET (1..n \ {i}) /\ IsFiniteSet(Below(n, order, i))
             /\ Rank(n, order, i) \in Nat
  <2>1. Below(n, order, i) \in SUBSET (1..n \ {i})
    BY DEF Below, TotalOrder
  <2>2. IsFiniteSet(Below(n, order, i))
    BY <1>1, <2>1, FS_Subset
  <2>3. Rank(n, order, i) \in Nat
    BY <2>2, FS_CardinalityType DEF Rank
  <2>. QED  BY <2>1, <2>2, <2>3
<1>3. Rank(n, order, j) <= n - 1
  <2>1. IsFiniteSet(1..n \ {j}) /\ Cardinality(1..n \ {j}) = n - 1
    BY <1>1, FS_RemoveElement
  <2>. QED  BY <1>2, <2>1, FS_Subset DEF Rank
<1>4. ASSUME NEW i \in 1..n, <<i, j>> \in order PROVE Rank(n, order, i) < Rank(n, order, j)
  <2>1. Below(n, order, i) \in SUBSET Below(n, order, j)
    BY <1>4 DEF Below, TotalOrder
  <2>2. i \in Below(n, order, j) /\ i \notin Below(n, order, i)
    BY <1>2, <1>4 DEF Below
  <2>3. /\ Cardinality(Below(n, order, i)) <= Cardinality(Below(n, order, j))
        /\ Cardinality(Below(n, order, j)) = Cardinality(Below(n, order, i)) =>
             Below(n, order, j) = Below(n, order, i)
    BY <1>2, <2>1, FS_Subset
  <2>. QED  BY <1>2, <2>2, <2>3 DEF Rank
<1>. QED  BY <1>2, <1>3, <1>4

\* Every number is at one rank, and a smaller one comes before it.
LEMMA NthIsOrdered ==
  ASSUME NEW n \in Nat, NEW order, TotalOrder(n, order)
  PROVE  /\ \A m \in 1..n : Nth(n, order, m) \in 1..n
         /\ \A i \in 1..n : \E m \in 1..n : Nth(n, order, m) = i
         /\ \A k, m \in 1..n : k < m => <<Nth(n, order, k), Nth(n, order, m)>> \in order
<1>. DEFINE f == [i \in 1..n |-> Rank(n, order, i) + 1]
<1>1. \A i \in 1..n : Rank(n, order, i) \in 0..(n - 1)
  BY RankGrows
<1>2. ASSUME NEW i \in 1..n, NEW j \in 1..n, Rank(n, order, i) = Rank(n, order, j) PROVE i = j
  <2>1. <<i, j>> \notin order /\ <<j, i>> \notin order
    <3>1. Rank(n, order, i) \in Int /\ Rank(n, order, j) \in Int
      BY <1>1
    <3>2. <<i, j>> \in order => Rank(n, order, i) < Rank(n, order, j)
      BY RankGrows
    <3>3. <<j, i>> \in order => Rank(n, order, j) < Rank(n, order, i)
      BY RankGrows
    <3>. QED  BY <1>2, <3>1, <3>2, <3>3
  <2>. QED  BY <2>1 DEF TotalOrder
<1>3. f \in [1..n -> 1..n] /\ \A i \in 1..n : f[i] = Rank(n, order, i) + 1
  BY <1>1
<1>4. f \in Injection(1..n, 1..n)
  <2>1. ASSUME NEW i \in 1..n, NEW j \in 1..n, f[i] = f[j] PROVE i = j
    BY <1>1, <1>2, <1>3, <2>1
  <2>. HIDE DEF f
  <2>. QED  BY <1>3, <2>1 DEF Injection, IsInjective
<1>5. f \in Surjection(1..n, 1..n)
  <2>. HIDE DEF f
  <2>. QED  BY <1>4, FS_Interval, FS_Injection
<1>6. ASSUME NEW m \in 1..n
      PROVE  Nth(n, order, m) \in 1..n /\ Rank(n, order, Nth(n, order, m)) = m - 1
  <2>1. PICK i \in 1..n : f[i] = m
    <3>. HIDE DEF f
    <3>. QED  BY <1>5 DEF Surjection
  <2>2. Rank(n, order, i) = m - 1
    <3>1. f[i] = Rank(n, order, i) + 1 /\ Rank(n, order, i) \in Int
      BY <1>1, <1>3
    <3>. HIDE DEF f
    <3>. QED  BY <2>1, <3>1
  <2>. QED  BY <2>2 DEF Nth
<1>7. ASSUME NEW i \in 1..n PROVE \E m \in 1..n : Nth(n, order, m) = i
  <2>1. Rank(n, order, i) + 1 \in 1..n /\ (Rank(n, order, i) + 1) - 1 = Rank(n, order, i)
    BY <1>1
  <2>2. Nth(n, order, Rank(n, order, i) + 1) = i
    BY <1>2, <1>6, <2>1
  <2>. QED  BY <2>1, <2>2
<1>8. ASSUME NEW k \in 1..n, NEW m \in 1..n, k < m
      PROVE  <<Nth(n, order, k), Nth(n, order, m)>> \in order
  <2>. DEFINE x == Nth(n, order, k)
              y == Nth(n, order, m)
  <2>1. x \in 1..n /\ y \in 1..n /\ Rank(n, order, x) = k - 1 /\ Rank(n, order, y) = m - 1
    BY <1>6
  <2>. HIDE DEF x, y
  <2>2. x # y /\ <<y, x>> \notin order
    <3>1. <<y, x>> \in order => Rank(n, order, y) < Rank(n, order, x)
      BY <2>1, RankGrows
    <3>. QED  BY <1>8, <2>1, <3>1
  <2>3. <<x, y>> \in order
    BY <2>1, <2>2 DEF TotalOrder
  <2>. QED  BY <2>3 DEF x, y
<1>. QED  BY <1>6, <1>7, <1>8

LEMMA WrapIsExact ==
  ASSUME NEW n \in Int, -(MaxInt + 1) <= n, n <= MaxInt
  PROVE  Wrap(n) = n
<1>. DEFINE size == 2 * (MaxInt + 1)
            a == n + MaxInt + 1
<1>1. MaxInt \in Nat
  BY OrderAssumption
<1>2. size \in Nat /\ size > 0 /\ a \in Nat /\ a < size
  BY <1>1
<1>3. a % size = a
  <2>. HIDE DEF a, size
  <2>. QED  BY <1>2
<1>4. Wrap(n) = (a % size) - (MaxInt + 1)
  BY DEF Wrap
<1>5. a - (MaxInt + 1) = n
  BY <1>1
<1>. HIDE DEF a, size
<1>. QED  BY <1>3, <1>4, <1>5

LEMMA WrapIsInt ==
  ASSUME NEW n \in Int
  PROVE  Wrap(n) \in Int
<1>. DEFINE size == 2 * (MaxInt + 1)
            a == n + MaxInt + 1
<1>1. MaxInt \in Nat
  BY OrderAssumption
<1>2. size \in Nat /\ size > 0 /\ a \in Int
  BY <1>1
<1>3. a % size \in Int
  <2>. HIDE DEF a, size
  <2>. QED  BY <1>2
<1>4. Wrap(n) = (a % size) - (MaxInt + 1)
  BY DEF Wrap
<1>. HIDE DEF a, size
<1>. QED  BY <1>1, <1>3, <1>4

\* A value of a group, with its metadata.
Value == [declared : Nat, priority : Priorities \cup {None}, order : Nat]

\* The sort key is a number, and what is meant when it is exact.
LEMMA KeyOfValue ==
  ASSUME NEW v \in Value
  PROVE  /\ OrderIndex(v) \in Int /\ Urgency(v) \in Int /\ Offset(v) \in Nat
         /\ ~Marked(v) => OrderIndex(v) = MaxInt
         /\ Marked(v) /\ Exact(v) =>
              /\ Offset(v) < Scale /\ OrderIndex(v) < MaxInt
              /\ OrderIndex(v) = Urgency(v) * Scale + Offset(v)
<1>. DEFINE key == Urgency(v) * Scale + Offset(v)
<1>1. /\ Scale \in Nat /\ MaxInt \in Nat /\ v.order \in Nat
      /\ v.priority \in Int \cup {None} /\ (v.priority # None => v.priority \in Int)
  BY OrderAssumption DEF Value
<1>2. Urgency(v) \in Int /\ Offset(v) \in Nat /\ (v.order # MaxInt => Offset(v) = v.order)
  BY <1>1 DEF Urgency, Offset
<1>3. key \in Int
  BY <1>1, <1>2
<1>4. Unprioritized(v) => OrderIndex(v) = v.order
  BY DEF OrderIndex
<1>5. ~Unprioritized(v) => v.priority # None /\ OrderIndex(v) = Wrap(key)
  BY DEF OrderIndex, Unprioritized, Urgency
<1>6. OrderIndex(v) \in Int
  <2>. HIDE DEF key
  <2>. QED  BY <1>1, <1>3, <1>4, <1>5, WrapIsInt
<1>7. ~Marked(v) => OrderIndex(v) = MaxInt
  BY <1>4 DEF Marked, Unprioritized
<1>8. ASSUME Marked(v), Exact(v)
      PROVE  Offset(v) < Scale /\ OrderIndex(v) < MaxInt /\ OrderIndex(v) = key
  <2>1. /\ v.priority # MaxInt /\ Offset(v) < Scale
        /\ -(MaxInt + 1) <= key /\ key < MaxInt
    BY <1>8 DEF Exact
  <2>2. OrderIndex(v) = key
    <3>1. CASE v.priority = None
      <4>1. Urgency(v) = 0 /\ v.order # MaxInt /\ OrderIndex(v) = v.order
        BY <1>4, <1>8, <3>1 DEF Marked, Urgency, Unprioritized
      <4>. QED  BY <1>1, <1>2, <4>1
    <3>2. CASE v.priority # None
      <4>1. ~Unprioritized(v)
        BY <2>1, <3>2 DEF Unprioritized
      <4>. HIDE DEF key
      <4>2. Wrap(key) = key
        BY <1>1, <1>3, <2>1, WrapIsExact
      <4>. QED  BY <1>5, <4>1, <4>2
    <3>. QED  BY <3>1, <3>2
  <2>. HIDE DEF key
  <2>. QED  BY <2>1, <2>2
<1>. QED  BY <1>2, <1>6, <1>7, <1>8

\* Of numbers made of a multiple of the factor and a rest the multiple counts first.
LEMMA ScaleOrders ==
  ASSUME NEW a \in Int, NEW b \in Int, NEW i \in 0..(Scale - 1), NEW j \in 0..(Scale - 1),
         a * Scale + i <= b * Scale + j
  PROVE  a < b \/ (a = b /\ i <= j)
<1>1. Scale \in Nat
  BY OrderAssumption
<1>2. a * Scale \in Int /\ b * Scale \in Int
  BY <1>1
<1>3. CASE b < a
  <2>1. a - b - 1 \in Nat
    BY <1>3
  <2>2. (a - b - 1) * Scale >= 0
    BY <1>1, <2>1
  <2>3. (a - b - 1) * Scale = a * Scale - b * Scale - Scale
    BY <1>1
  <2>4. b * Scale + j < a * Scale + i
    BY <1>1, <1>2, <2>2, <2>3
  <2>. QED  BY <1>1, <1>2, <2>4
<1>4. CASE a = b
  BY <1>1, <1>2, <1>4
<1>. QED  BY <1>3, <1>4

\* By the sort key is by priority, and by index among equals; values without metadata come
\* last.
LEMMA KeyOrders ==
  ASSUME NEW v \in Value, NEW w \in Value, Exact(v), Exact(w), OrderIndex(v) <= OrderIndex(w),
         Marked(w)
  PROVE  /\ Marked(v)
         /\ \/ Urgency(v) < Urgency(w)
            \/ Urgency(v) = Urgency(w) /\ Offset(v) <= Offset(w)
<1>1. Scale \in Nat /\ MaxInt \in Nat
  BY OrderAssumption
<1>2. /\ OrderIndex(v) \in Int /\ Urgency(v) \in Int /\ Offset(v) \in Nat
      /\ ~Marked(v) => OrderIndex(v) = MaxInt
      /\ Marked(v) => Offset(v) < Scale /\ OrderIndex(v) = Urgency(v) * Scale + Offset(v)
  BY KeyOfValue
<1>3. /\ OrderIndex(w) \in Int /\ Urgency(w) \in Int /\ Offset(w) \in Nat
      /\ Offset(w) < Scale /\ OrderIndex(w) = Urgency(w) * Scale + Offset(w)
      /\ OrderIndex(w) < MaxInt
  BY KeyOfValue
<1>4. Marked(v)
  BY <1>1, <1>2, <1>3
<1>5. Offset(v) \in 0..(Scale - 1) /\ Offset(w) \in 0..(Scale - 1)
  BY <1>1, <1>2, <1>3, <1>4
<1>6. Urgency(v) * Scale + Offset(v) <= Urgency(w) * Scale + Offset(w)
  BY <1>2, <1>3, <1>4
<1>. QED  BY <1>2, <1>3, <1>4, <1>5, <1>6, ScaleOrders

\* What sort.SliceStable makes of values.
LEMMA SortedValues ==
  ASSUME NEW n \in Nat, NEW values \in [1..n -> Value],
         NEW order, order = {x \in (1..n) \X (1..n) :
                               \/ OrderIndex(values[x[1]]) < OrderIndex(values[x[2]])
                               \/ OrderIndex(values[x[1]]) = OrderIndex(values[x[2]]) /\ x[1] < x[2]}
  PROVE  /\ TotalOrder(n, order)
         /\ SortValues(values) = [m \in 1..n |-> values[Nth(n, order, m)]]
<1>. DEFINE key(i) == OrderIndex(values[i])
            before(i, j) == key(i) < key(j) \/ (key(i) = key(j) /\ i < j)
            at(m) == CHOOSE j \in DOMAIN values :
                       Cardinality({i \in DOMAIN values : before(i, j)}) = m - 1
            sorted == [m \in DOMAIN values |-> values[at(m)]]
<1>1. \A i, j \in 1..n : <<i, j>> \in order <=> before(i, j)
  OBVIOUS
<1>2. \A i \in 1..n : key(i) \in Int
  <2>1. ASSUME NEW i \in 1..n PROVE key(i) \in Int
    <3>1. values[i] \in Value
      OBVIOUS
    <3>. QED  BY <3>1, KeyOfValue
  <2>. QED  BY <2>1
<1>3. TotalOrder(n, order)
  <2>1. ASSUME NEW i \in 1..n, NEW j \in 1..n, NEW k \in 1..n
        PROVE  /\ ~before(i, i)
               /\ i # j => before(i, j) \/ before(j, i)
               /\ before(i, j) /\ before(j, k) => before(i, k)
    <3>1. key(i) \in Int /\ key(j) \in Int /\ key(k) \in Int
      BY <1>2
    <3>. HIDE DEF key
    <3>. QED  BY <3>1
  <2>. HIDE DEF before
  <2>. QED  BY <1>1, <2>1 DEF TotalOrder
<1>4. SortValues(values) = sorted
  BY DEF SortValues
<1>5. ASSUME NEW m \in 1..n
      PROVE  Nth(n, order, m) = at(m)
  <2>1. DOMAIN values = 1..n
    OBVIOUS
  <2>2. ASSUME NEW j \in 1..n PROVE Rank(n, order, j) = Cardinality({i \in DOMAIN values : before(i, j)})
    <3>1. Below(n, order, j) = {i \in DOMAIN values : before(i, j)}
      <4>. HIDE DEF before
      <4>. QED  BY <1>1, <2>1 DEF Below
    <3>. HIDE DEF before
    <3>. QED  BY <3>1 DEF Rank
  <2>. HIDE DEF before
  <2>. QED  BY <2>1, <2>2 DEF Nth
<1>6. sorted = [m \in 1..n |-> values[Nth(n, order, m)]]
  <2>1. DOMAIN values = 1..n
    OBVIOUS
  <2>. HIDE DEF at
  <2>. QED  BY <1>5, <2>1
<1>. QED  BY <1>3, <1>4, <1>6

\* The indices of the providers grow.
LEMMA IndexGrows ==
  ASSUME providers \in Seq(Providers)
  PROVE  \A i \in DOMAIN providers :
           /\ Index(providers, i) \in Nat
           /\ \A j \in Seen(providers) :
                j < i => Index(providers, j) < Index(providers, i)
<1>. DEFINE before(i) == {j \in Seen(providers) : j < i}
<1>1. /\ DOMAIN providers = 1..Len(providers) /\ Len(providers) \in Nat
      /\ Seen(providers) \subseteq 1..Len(providers)
  BY DEF Seen
<1>2. ASSUME NEW i \in 1..Len(providers)
      PROVE  /\ IsFiniteSet(before(i)) /\ Cardinality(before(i)) \in Nat
             /\ Index(providers, i) = Cardinality(before(i))
  <2>1. IsFiniteSet(1..Len(providers)) /\ before(i) \in SUBSET (1..Len(providers))
    BY <1>1, FS_Interval
  <2>2. Index(providers, i) = Cardinality(before(i))
    BY DEF Index
  <2>. HIDE DEF before
  <2>. QED  BY <2>1, <2>2, FS_Subset, FS_CardinalityType
<1>3. ASSUME NEW i \in 1..Len(providers), NEW j \in Seen(providers), j < i
      PROVE  Index(providers, j) < Index(providers, i)
  <2>1. j \in 1..Len(providers)
    BY <1>1
  <2>2. before(j) \in SUBSET before(i) /\ j \in before(i) /\ j \notin before(j)
    BY <1>1, <1>3, <2>1
  <2>3. /\ IsFiniteSet(before(i)) /\ Cardinality(before(i)) \in Nat
        /\ Cardinality(before(j)) \in Nat
        /\ Index(providers, i) = Cardinality(before(i))
        /\ Index(providers, j) = Cardinality(before(j))
    BY <1>2, <2>1
  <2>. HIDE DEF before
  <2>4. /\ Cardinality(before(j)) <= Cardinality(before(i))
        /\ Cardinality(before(j)) = Cardinality(before(i)) => before(j) = before(i)
    BY <2>2, <2>3, FS_Subset
  <2>. QED  BY <2>2, <2>3, <2>4
<1>. QED  BY <1>1, <1>2, <1>3

LEMMA MembersAreValues ==
  ASSUME Written
  PROVE  /\ Members(providers) \subseteq Value
         /\ IsFiniteSet(Members(providers))
         /\ \A v, w \in Members(providers) :
              /\ v.declared = w.declared => v = w
              /\ v.order # MaxInt /\ w.order # MaxInt /\ v.declared < w.declared =>
                   v.order < w.order
<1>. DEFINE I == {i \in DOMAIN providers : providers[i].member /\ providers[i].place # "off"}
            value(i) ==
              [declared |-> i,
               priority |-> IF providers[i].pointer THEN providers[i].priority ELSE None,
               order    |-> IF providers[i].pointer /\ i \in Seen(providers)
                            THEN Index(providers, i) ELSE MaxInt]
<1>1. providers \in Seq(Providers) /\ MaxInt \in Nat
  BY OrderAssumption DEF Written, TypeOK
<1>2. Len(providers) \in Nat /\ DOMAIN providers = 1..Len(providers)
  BY <1>1
<1>3. Members(providers) = {value(i) : i \in I}
  BY DEF Members
<1>4. ASSUME NEW i \in I
      PROVE  /\ value(i) \in Value /\ i \in 1..Len(providers) /\ value(i).declared = i
             /\ value(i).order # MaxInt =>
                  i \in Seen(providers) /\ value(i).order = Index(providers, i)
  <2>1. i \in 1..Len(providers)
    BY <1>2
  <2>2. providers[i].priority \in Priorities \cup {None}
    <3>1. providers[i] \in Providers
      BY <1>1, <2>1
    <3>. QED  BY <3>1 DEF Providers
  <2>3. Index(providers, i) \in Nat
    BY <1>1, <1>2, <2>1, IndexGrows
  <2>. QED  BY <1>1, <2>1, <2>2, <2>3 DEF Value
<1>5. Members(providers) \subseteq Value
  <2>. HIDE DEF value, I
  <2>. QED  BY <1>3, <1>4
<1>6. IsFiniteSet(Members(providers))
  <2>1. IsFiniteSet(I)
    <3>1. IsFiniteSet(1..Len(providers)) /\ I \in SUBSET (1..Len(providers))
      BY <1>2, FS_Interval
    <3>. QED  BY <3>1, FS_Subset
  <2>. DEFINE f == [i \in I |-> value(i)]
  <2>2. f \in Surjection(I, {value(i) : i \in I})
    BY DEF Surjection
  <2>. HIDE DEF f, I, value
  <2>. QED  BY <1>3, <2>1, <2>2, FS_Surjection
<1>7. ASSUME NEW i \in I, NEW j \in I, value(i).order # MaxInt, value(j).order # MaxInt, i < j
      PROVE  value(i).order < value(j).order
  <2>. HIDE DEF value, I
  <2>1. /\ i \in Seen(providers) /\ value(i).order = Index(providers, i)
        /\ j \in DOMAIN providers /\ value(j).order = Index(providers, j)
    BY <1>2, <1>4, <1>7
  <2>. QED  BY <1>1, <1>7, <2>1, IndexGrows
<1>8. ASSUME NEW v \in Members(providers), NEW w \in Members(providers)
      PROVE  /\ v.declared = w.declared => v = w
             /\ v.order # MaxInt /\ w.order # MaxInt /\ v.declared < w.declared =>
                  v.order < w.order
  <2>. HIDE DEF I, value
  <2>1. PICK i \in I : v = value(i)
    BY <1>3
  <2>2. PICK j \in I : w = value(j)
    BY <1>3
  <2>3. v.declared = i /\ w.declared = j
    BY <1>4, <2>1, <2>2
  <2>. QED  BY <1>7, <2>1, <2>2, <2>3
<1>. QED  BY <1>5, <1>6, <1>8

\* Of two members with exact keys the one that is sorted first comes first.
LEMMA SortedInOrder ==
  ASSUME Written, NEW v \in Members(providers), NEW w \in Members(providers), v # w,
         Exact(v), Exact(w), OrderIndex(v) <= OrderIndex(w)
  PROVE  InOrder(v, w)
<1>1. v \in Value /\ w \in Value /\ v.declared # w.declared
  BY MembersAreValues
<1>2. v.declared \in Nat /\ w.declared \in Nat /\ v.order \in Nat /\ w.order \in Nat
  BY <1>1 DEF Value
<1>3. SUFFICES ASSUME Marked(w)
               PROVE  /\ Marked(v)
                      /\ \/ Urgency(v) < Urgency(w)
                         \/ /\ Urgency(v) = Urgency(w)
                            /\ v.declared < w.declared \/ MaxInt \in {v.order, w.order}
  BY DEF InOrder
<1>4. /\ Marked(v)
      /\ \/ Urgency(v) < Urgency(w)
         \/ Urgency(v) = Urgency(w) /\ Offset(v) <= Offset(w)
  BY <1>1, <1>3, KeyOrders
<1>5. ASSUME Offset(v) <= Offset(w), v.order # MaxInt, w.order # MaxInt
      PROVE  v.declared < w.declared
  <2>1. v.order <= w.order
    BY <1>5 DEF Offset
  <2>2. w.declared < v.declared => w.order < v.order
    BY <1>5, MembersAreValues
  <2>. QED  BY <1>1, <1>2, <2>1, <2>2
<1>. QED  BY <1>4, <1>5

\* In whatever order the values of a group that is sorted are delivered, a consumer gets
\* all of them; those with exact keys by priority, by declaration among equals that have an
\* index, and those without metadata last (buildAutoGroupOrderDecorator).
THEOREM GroupIsAlwaysOrdered == Declarations => []GroupIsOrdered
<1>1. Written => GroupIsOrdered
  <2>. DEFINE M == Members(providers)
              n == Cardinality(M)
  <2>1. SUFFICES ASSUME Written, rule = "list", HasPriority(providers), NEW values \in SetToSeqs(M)
                 PROVE  LET got == Delivered(rule, providers, values) IN
                        /\ M = {got[i] : i \in DOMAIN got}
                        /\ \A i, j \in DOMAIN got :
                             i < j /\ Exact(got[i]) /\ Exact(got[j]) => InOrder(got[i], got[j])
    BY DEF GroupIsOrdered
  <2>2. M \subseteq Value /\ IsFiniteSet(M) /\ n \in Nat
    BY <2>1, MembersAreValues, FS_CardinalityType
  <2>3. values \in [1..n -> M] /\ \A i, j \in 1..n : i # j => values[i] # values[j]
    BY DEF SetToSeqs
  <2>4. M = {values[i] : i \in 1..n}
    <3>1. values \in Injection(1..n, M)
      BY <2>3 DEF Injection, IsInjective
    <3>2. IsFiniteSet(1..n) /\ Cardinality(1..n) = n
      <4>1. Cardinality(1..n) = IF 1 > n THEN 0 ELSE n - 1 + 1
        BY <2>2, FS_Interval
      <4>. QED  BY <2>2, <4>1, FS_Interval
    <3>3. values \in Surjection(1..n, M)
      BY <2>2, <3>1, <3>2, FS_Injection
    <3>. QED  BY <2>3, <3>3 DEF Surjection
  <2>. DEFINE order == {x \in (1..n) \X (1..n) :
                          \/ OrderIndex(values[x[1]]) < OrderIndex(values[x[2]])
                          \/ OrderIndex(values[x[1]]) = OrderIndex(values[x[2]]) /\ x[1] < x[2]}
              at(m) == Nth(n, order, m)
              got == Delivered(rule, providers, values)
  <2>5. \A v, w \in M : v # w /\ Exact(v) /\ Exact(w) /\ OrderIndex(v) <= OrderIndex(w) =>
          InOrder(v, w)
    BY <2>1, SortedInOrder
  <2>. HIDE DEF M, n
  <2>6. values \in [1..n -> Value]
    BY <2>2, <2>3
  <2>7. TotalOrder(n, order) /\ SortValues(values) = [m \in 1..n |-> values[at(m)]]
    BY <2>2, <2>6, SortedValues
  <2>8. got = [m \in 1..n |-> values[at(m)]]
    BY <2>1, <2>7 DEF Delivered
  <2>9. /\ \A m \in 1..n : at(m) \in 1..n
        /\ \A i \in 1..n : \E m \in 1..n : at(m) = i
        /\ \A k, m \in 1..n : k < m => <<at(k), at(m)>> \in order
    <3>. HIDE DEF order
    <3>. QED  BY <2>2, <2>7, NthIsOrdered
  <2>10. M = {got[m] : m \in 1..n}
    <3>. HIDE DEF at, got
    <3>1. ASSUME NEW v \in M PROVE \E m \in 1..n : v = got[m]
      BY <2>4, <2>8, <2>9
    <3>2. ASSUME NEW m \in 1..n PROVE got[m] \in M
      BY <2>3, <2>8, <2>9
    <3>. QED  BY <3>1, <3>2
  <2>11. ASSUME NEW k \in 1..n, NEW m \in 1..n, k < m, Exact(got[k]), Exact(got[m])
         PROVE  InOrder(got[k], got[m])
    <3>. DEFINE v == values[at(k)]
                w == values[at(m)]
    <3>1. at(k) \in 1..n /\ at(m) \in 1..n /\ <<at(k), at(m)>> \in order
      <4>. HIDE DEF order
      <4>. QED  BY <2>9, <2>11
    <3>2. \/ OrderIndex(v) < OrderIndex(w)
          \/ OrderIndex(v) = OrderIndex(w)
      <4>. HIDE DEF at
      <4>. QED  BY <3>1
    <3>3. at(k) # at(m)
      <4>. HIDE DEF at, order
      <4>. QED  BY <2>7, <3>1 DEF TotalOrder
    <3>4. v \in M /\ w \in M /\ v \in Value /\ w \in Value /\ v # w
      <4>. HIDE DEF at
      <4>. QED  BY <2>2, <2>3, <3>1, <3>3
    <3>5. got[k] = v /\ got[m] = w
      <4>. HIDE DEF got, at
      <4>. QED  BY <2>8
    <3>6. OrderIndex(v) <= OrderIndex(w)
      <4>. HIDE DEF v, w
      <4>. QED  BY <3>2, <3>4, KeyOfValue
    <3>. HIDE DEF v, w, got
    <3>. QED  BY <2>5, <2>11, <3>4, <3>5, <3>6
  <2>12. DOMAIN got = 1..n
    <3>. HIDE DEF got, at
    <3>. QED  BY <2>8
  <2>. HIDE DEF got
  <2>13. /\ M = {got[i] : i \in DOMAIN got}
         /\ \A i, j \in DOMAIN got :
              i < j /\ Exact(got[i]) /\ Exact(got[j]) => InOrder(got[i], got[j])
    BY <2>10, <2>11, <2>12
  <2>. QED  BY <2>13 DEF got
<1>. QED  BY <1>1, WrittenIsInvariant, PTL
=============================================================================
