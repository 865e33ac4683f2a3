---------------------------- MODULE Replacement -----------------------------
(***************************************************************************)
(* What Replace, ReplaceBefore, ReplaceAfter and Default do to the         *)
(* declarations of an application (applyReplacements of di/replace.go):    *)
(* which binding each consumer asks fx for, and which bindings there are.  *)
(*                                                                         *)
(* A key is what a binding is found by.  A declaration is a record: it     *)
(* provides keys, replaces them, is a default for them, or is a group of   *)
(* declarations: a module (a scope), options (no scope), a branch (If,     *)
(* When or the selected case of Switch, whose condition holds).  An        *)
(* application is the sequence of its declarations as they are written,    *)
(* each with the number of the group that it stands in: the tree of the    *)
(* code, node by node.  What applyReplacements hands down from a list to   *)
(* the lists inside is a function of the lists here.  The keys are given;  *)
(* how options and types produce them is left out, and so is the removal   *)
(* of automatic groups from a replaced provider.                           *)
(***************************************************************************)
EXTENDS Integers, Sequences

\* tagSet: a type, and the name or the group that tells bindings of it apart.
Key(type, name, group) == [typ |-> type, name |-> name, group |-> group]

Modes == {"all", "before", "after"}

\* Declarations; `in` is the group around one, 0 at the top.
Node(kind, mode, tags) == [kind |-> kind, mode |-> mode, tags |-> tags, in |-> 0]
Provide(tags) == Node("provide", "all", tags)
Replace(mode, tags) == Node("replace", mode, tags)
Default(tags) == Node("default", "all", tags)
Group(kind) == Node(kind, "all", {})

\* The index of a declaration in its list.  Only the order of the indices of one list
\* counts; those of declarations are even, so that consumers can stand between them.
At(i) == 2 * i

-----------------------------------------------------------------------------
(* The choice of a replacement.                                            *)

\* matchingTagSets, matchesAny: a replacement without a name or group fits every one.
Fits(ts, rt) ==
  /\ ts.typ = rt.typ
  /\ rt.name \in {"", ts.name}
  /\ rt.group \in {"", ts.group}

FitsAny(ts, tags) == \E rt \in tags : Fits(ts, rt)

\* replaceSpecificity
Specificity(rt) == (IF rt.group # "" THEN 2 ELSE 0) + (IF rt.name # "" THEN 1 ELSE 0)

\* bestReplaceScore: -1 when nothing fits.
Score(ts, tags) ==
  LET scores == {-1} \cup {Specificity(rt) : rt \in {rt \in tags : Fits(ts, rt)}}
  IN  CHOOSE s \in scores : \A t \in scores : t <= s

\* Mutant: the inner list first, what a replacement names second.
BetterByDepth(ts, specs, i, best) ==
  /\ Score(ts, specs[i].tags) >= 0
  /\ \/ best = 0
     \/ specs[i].isDefault # specs[best].isDefault /\ ~specs[i].isDefault
     \/ /\ specs[i].isDefault = specs[best].isDefault
        /\ specs[i].depth >= specs[best].depth

\* The `better` of selectReplacement: the specification i against the best so far.
Better(ts, specs, i, best) ==
  LET score == Score(ts, specs[i].tags)
      bestScore == Score(ts, specs[best].tags)
  IN  /\ score >= 0
      /\ \/ best = 0
         \/ specs[i].isDefault # specs[best].isDefault /\ ~specs[i].isDefault
         \/ /\ specs[i].isDefault = specs[best].isDefault
            /\ \/ score > bestScore
               \/ score = bestScore /\ specs[i].depth > specs[best].depth
               \/ score = bestScore /\ specs[i].depth = specs[best].depth /\ i > best

\* selectReplacement: the index of the one chosen for ts, 0 when none fits.
Select(ts, specs) ==
  LET best[i \in 0..Len(specs)] ==
        IF i = 0 THEN 0
        ELSE LET sofar == best[i - 1] IN IF Better(ts, specs, i, sofar) THEN i ELSE sofar
  IN  best[Len(specs)]

-----------------------------------------------------------------------------
(* What is active where.                                                   *)

\* A specification without keys fits nothing: it stands for one that is not in the list.
Cleared(spec) == [spec EXCEPT !.tags = {}]

\* applicableSpecsAtIndex
Applies(spec, index) ==
  /\ ~spec.isDefault
  /\ \/ spec.inherited \/ spec.mode = "all"
     \/ spec.mode = "after" /\ spec.pos < index
     \/ spec.mode = "before" /\ spec.pos > index

Applicable(specs, index) ==
  [k \in DOMAIN specs |-> IF Applies(specs[k], index) THEN specs[k] ELSE Cleared(specs[k])]

\* inheritSpecs
Inherited(spec) == [spec EXCEPT !.inherited = TRUE, !.mode = "all"]
Inherit(specs) == [k \in DOMAIN specs |-> Inherited(specs[k])]

\* buildActiveTagMap: provided key -> id of its replacement.
ActiveTags(provides, specs) ==
  [ts \in {ts \in provides : Select(ts, specs) # 0} |-> specs[Select(ts, specs)].id]

\* appendDefaultTags: the keys that only a default has.  Of two defaults the first
\* counts; a replacement outranks both, wherever it stands.
DefaultTags(provides, specs, active) ==
  LET defaults(ts) == {k \in DOMAIN specs : specs[k].isDefault /\ ts \in specs[k].tags}
      keys == UNION {specs[k].tags : k \in {k \in DOMAIN specs : specs[k].isDefault}}
      first(ts) == CHOOSE k \in defaults(ts) : \A m \in defaults(ts) : k <= m
      id(ts) == LET s == specs[Select(ts, specs)]
                IN  IF s.isDefault THEN specs[first(ts)].id ELSE s.id
  IN  [ts \in DOMAIN active \cup (keys \ provides) |->
         IF ts \in DOMAIN active THEN active[ts] ELSE id(ts)]

\* Mutant: a replacement is exported under its own keys only.
OwnTargets(tags, provides) == tags

\* replacementTargets, defaultTargets: the keys that a replacement or default is
\* exported under.
ReplacementTargets(tags, provides) ==
  tags \cup {ts \in provides : FitsAny(ts, tags)}
DefaultTargets(tags, provides, specs) ==
  tags \cup {ts \in provides : FitsAny(ts, tags) /\ Select(ts, specs) = 0}

\* What fx finds a binding by: a key, and the replacement it is scoped to (0 when it is
\* an ordinary one).  scopedTagSet drops the group of a key that has a name.
Plain(ts) == [key |-> ts, id |-> 0]
Scoped(ts, id) ==
  [key |-> IF ts.name # "" THEN [ts EXCEPT !.group = ""] ELSE ts, id |-> id]

-----------------------------------------------------------------------------
(* applyReplacements.  A list has the number of its module or branch; the  *)
(* outermost one is 0.                                                     *)

\* spliceOptions: what stands in options belongs to the list around them.
Lists(nodes) ==
  LET list[i \in 0..Len(nodes)] ==
        IF i = 0 THEN 0
        ELSE IF nodes[i].in # 0 /\ nodes[nodes[i].in].kind = "options" THEN list[nodes[i].in]
        ELSE nodes[i].in
  IN  list

\* len(scopeStack) - 1
Depths(nodes) ==
  LET depth[l \in 0..Len(nodes)] ==
        IF l = 0 THEN 0
        ELSE depth[Lists(nodes)[l]] + (IF nodes[l].kind = "module" THEN 1 ELSE 0)
  IN  depth

\* collectScopeProvides: it looks into modules, not into branches.  Collectors are the
\* lists for which it sees what stands in a list.
Collectors(nodes) ==
  LET by[l \in 0..Len(nodes)] ==
        IF l = 0 THEN {0}
        ELSE {l} \cup (IF nodes[l].kind = "module" THEN by[Lists(nodes)[l]] ELSE {})
  IN  by

ScopeProvides(nodes, list) ==
  UNION {nodes[i].tags : i \in {i \in DOMAIN nodes :
           nodes[i].kind = "provide" /\ list \in Collectors(nodes)[Lists(nodes)[i]]}}

\* The provides of a list: those of the list around it; when that one has none, the list
\* handed down is nil and it collects its own.
Provides(nodes) ==
  LET provides[l \in 0..Len(nodes)] ==
        IF l = 0 THEN ScopeProvides(nodes, 0)
        ELSE LET handed == provides[Lists(nodes)[l]]
             IN  IF handed = {} THEN ScopeProvides(nodes, l) ELSE handed
  IN  provides

\* replaceSpec: a replacement or default, its declaration as id.
Spec(nodes, i) ==
  [tags |-> nodes[i].tags, pos |-> At(i), depth |-> Depths(nodes)[Lists(nodes)[i]], id |-> i,
   mode |-> nodes[i].mode, inherited |-> FALSE, isDefault |-> nodes[i].kind = "default"]

\* localSpecs
LocalSpecs(nodes, l) ==
  [i \in DOMAIN nodes |->
     IF nodes[i].kind \in {"replace", "default"} /\ Lists(nodes)[i] = l
     THEN Spec(nodes, i) ELSE Cleared(Spec(nodes, i))]

\* specs: those in effect at the group in the list around, then the local ones.
Specs(nodes) ==
  LET specs[l \in 0..Len(nodes)] ==
        IF l = 0 THEN LocalSpecs(nodes, 0)
        ELSE Inherit(Applicable(specs[Lists(nodes)[l]], At(l))) \o LocalSpecs(nodes, l)
  IN  specs

\* The activeTags of a consumer at an index of a list.
Tags(nodes, list, index) ==
  LET provides == Provides(nodes)[list]
      specs == Specs(nodes)[list]
  IN  DefaultTags(provides, specs, ActiveTags(provides, Applicable(specs, index)))

\* rewriteParamTags: the binding that a consumer of a key asks for.
Asks(tags, ts) == IF ts \in DOMAIN tags THEN Scoped(ts, tags[ts]) ELSE Plain(ts)

\* The bindings that there are.
Exports(nodes) ==
  LET list == Lists(nodes)
      exports(i) ==
        CASE nodes[i].kind = "provide" -> {Plain(ts) : ts \in nodes[i].tags}
          [] nodes[i].kind = "replace" ->
               {Scoped(ts, i) : ts \in ReplacementTargets(nodes[i].tags, Provides(nodes)[list[i]])}
          [] nodes[i].kind = "default" ->
               {Scoped(ts, i) : ts \in DefaultTargets(nodes[i].tags, Provides(nodes)[list[i]],
                                                      Specs(nodes)[list[i]])}
          [] OTHER -> {}
  IN  UNION {exports(i) : i \in DOMAIN nodes}
=============================================================================
