----------------------------- MODULE Container ------------------------------
(***************************************************************************)
(* The declarations of an application, written one at a time, and what the *)
(* container makes of each list: the bindings of Replacement and the order *)
(* of a group of GroupOrder.  The two are checked apart: a list holds      *)
(* either replacements or priorities.                                      *)
(***************************************************************************)
EXTENDS Replacement, GroupOrder, SequencesExt

CONSTANTS
  Keys,            \* keys of bindings
  Priorities,
  MaxDeclarations, \* bound on declarations, groups included
  MaxProviders     \* bound on providers of the group

\* Keys are the records that Key makes.
ASSUME KeysAssumption == \A k \in Keys : k = Key(k.typ, k.name, k.group)

ASSUME OrderAssumption ==
  /\ Scale \in Nat \ {0} /\ MaxInt \in Nat /\ MaxProviders \in Nat
  /\ Priorities \subseteq Int /\ None \notin Priorities

VARIABLES
  declared,  \* the declarations written so far
  open,      \* the groups being written, the innermost last
  rule,      \* where the rule of a group of providers is, or "none"
  providers  \* the providers in the scope of the rule

written == <<declared, open>>
ofGroup == <<rule, providers>>
vars == <<written, ofGroup>>

\* Default takes a type and nothing to tell its bindings apart.
PlainKeys == {k \in Keys : k.name = "" /\ k.group = ""}

Leaves ==
  {Provide({k}) : k \in Keys} \cup {Default({k}) : k \in PlainKeys}
    \cup UNION {{Replace(m, {k}) : m \in Modes} : k \in Keys}

Groups == {Group(kind) : kind \in {"module", "options", "branch"}}

IsGroup(node) == node.kind \in {"module", "options", "branch"}

Providers ==
  [priority : Priorities \cup {None}, member : BOOLEAN, place : PlacesOfProviders,
   pointer : BOOLEAN]

TypeOK ==
  /\ declared \in Seq([kind : {"provide", "replace", "default", "module", "options", "branch"},
                       mode : Modes, tags : SUBSET Keys, in : Nat])
  /\ \A i \in DOMAIN declared :
       declared[i].in # 0 => declared[i].in < i /\ IsGroup(declared[declared[i].in])
  /\ open \in Seq(DOMAIN declared)
  /\ rule \in PlacesOfRules \cup {"none"}
  /\ providers \in Seq(Providers)

Init == declared = <<>> /\ open = <<>> /\ rule = "none" /\ providers = <<>>

\* Mutant: the depth of a group taken for its number.
DeclareAtDepth(node, n) ==
  /\ rule = "none" /\ Len(declared) < MaxDeclarations /\ n <= Len(open)
  /\ declared' = Append(declared, [node EXCEPT !.in = n])
  /\ open' = SubSeq(open, 1, n) \o (IF IsGroup(node) THEN <<Len(declared) + 1>> ELSE <<>>)
  /\ UNCHANGED ofGroup

\* The next declaration, in the innermost of the first n open groups; the others are
\* complete.
Declare(node, n) ==
  /\ rule = "none" /\ Len(declared) < MaxDeclarations /\ n <= Len(open)
  /\ declared' = Append(declared, [node EXCEPT !.in = IF n = 0 THEN 0 ELSE open[n]])
  /\ open' = SubSeq(open, 1, n) \o (IF IsGroup(node) THEN <<Len(declared) + 1>> ELSE <<>>)
  /\ UNCHANGED ofGroup

DeclareRule(place) ==
  /\ declared = <<>> /\ rule = "none"
  /\ rule' = place
  /\ UNCHANGED <<written, providers>>

AddProvider(provider) ==
  /\ rule # "none" /\ Len(providers) < MaxProviders
  /\ providers' = Append(providers, provider)
  /\ UNCHANGED <<written, rule>>

Next ==
  \/ \E node \in Leaves \cup Groups, n \in 0..MaxDeclarations : Declare(node, n)
  \/ \E place \in PlacesOfRules : DeclareRule(place)
  \/ \E p \in Priorities \cup {None}, member, pointer \in BOOLEAN,
        place \in PlacesOfProviders :
       AddProvider(Provider(p, member, place, pointer))

Declarations == Init /\ [][Next]_vars

-----------------------------------------------------------------------------
(* The meaning of declarations, from the comments of Replace,              *)
(* ReplaceBefore, ReplaceAfter and Default (di/replace.go:289-299,         *)
(* di/default.go:9) and the tests of their precedence.  Nothing is handed  *)
(* down, copied or counted here: what holds at a place is found from the   *)
(* declarations and the lists around the place.                            *)

\* The lists around a list, itself included.
Around(nodes) ==
  LET around[l \in 0..Len(nodes)] ==
        IF l = 0 THEN {0} ELSE {l} \cup around[Lists(nodes)[l]]
  IN  around

\* A consumer stands in a list, in front of its declarations or behind one of them.
Places(nodes) ==
  LET lists == {0} \cup {l \in DOMAIN nodes : nodes[l].kind \in {"module", "branch"}}
  IN  {[list |-> l, index |-> 1] : l \in lists}
        \cup {[list |-> Lists(nodes)[i], index |-> At(i) + 1] : i \in DOMAIN nodes}

\* A place is at its index in its own list, and in a list further out at the index of the
\* group that leads to it.
Stands(nodes, place) ==
  {place} \cup {[list |-> Lists(nodes)[a], index |-> At(a)] :
                  a \in Around(nodes)[place.list] \ {0}}

\* The replacements of a key that apply at a place, before or after it as they say.  What is
\* before or after is the consumer, as in the comments of the code; di/README.md takes it for
\* the binding (see ReplaceBeforeReplacesBinding).
InEffect(nodes, place, key) ==
  {r \in DOMAIN nodes :
     /\ nodes[r].kind = "replace" /\ FitsAny(key, nodes[r].tags)
     /\ \E p \in Stands(nodes, place) :
          /\ p.list = Lists(nodes)[r]
          /\ \/ nodes[r].mode = "all"
             \/ nodes[r].mode = "before" /\ p.index < At(r)
             \/ nodes[r].mode = "after" /\ p.index > At(r)}

\* Of two replacements the one that names more of the key counts, then the one of the
\* inner list, then the later one.  Of two lists around a place the inner one is the one
\* that begins later.
Outranks(nodes, key, r, q) ==
  LET score(x) == Score(key, nodes[x].tags)
      list == Lists(nodes)
  IN  \/ score(r) > score(q)
      \/ score(r) = score(q) /\ list[r] > list[q]
      \/ score(r) = score(q) /\ list[r] = list[q] /\ r > q

Provided(nodes, key) ==
  \E p \in DOMAIN nodes : nodes[p].kind = "provide" /\ key \in nodes[p].tags

\* A default serves the consumers of its own list.
Defaults(nodes, place, key) ==
  {d \in DOMAIN nodes :
     nodes[d].kind = "default" /\ key \in nodes[d].tags /\ Lists(nodes)[d] = place.list}

\* What a consumer of a key at a place gets: a replacement of what is there, or else what
\* is provided, or else the first default.
Meaning(nodes, place, key) ==
  LET replacements == InEffect(nodes, place, key)
      defaults == Defaults(nodes, place, key)
  IN  IF replacements # {} /\ (Provided(nodes, key) \/ defaults # {})
      THEN Scoped(key, CHOOSE r \in replacements :
                         \A q \in replacements \ {r} : Outranks(nodes, key, r, q))
      ELSE IF Provided(nodes, key) \/ defaults = {} THEN Plain(key)
      ELSE Scoped(key, CHOOSE d \in defaults : \A e \in defaults : d <= e)

-----------------------------------------------------------------------------
(* Exceptions, where the code does not do what its comments say.       *)

\* collectScopeProvides does not see what a branch provides.
BranchProvides(nodes) ==
  \E p \in DOMAIN nodes :
    /\ nodes[p].kind = "provide"
    /\ \E l \in Around(nodes)[Lists(nodes)[p]] \ {0} : nodes[l].kind = "branch"

\* appendDefaultTags asks for a replacement of a default wherever it stands in the list.
OnlyDefaultReplaced(nodes, place, key) ==
  /\ ~Provided(nodes, key) /\ Defaults(nodes, place, key) # {}
  /\ \E r \in DOMAIN nodes :
       /\ nodes[r].kind = "replace" /\ nodes[r].mode # "all"
       /\ Lists(nodes)[r] = place.list /\ FitsAny(key, nodes[r].tags)

\* ReflectMetadataAny knows nothing of a value that is no pointer, nor of one in a Switch
\* that has no priority.
Marked(v) == v.priority # None \/ v.order # MaxInt

Urgency(v) == IF v.priority = None THEN 0 ELSE v.priority

\* The sort key of a value does not overflow, and its index is less than the factor of a
\* priority.
Exact(v) ==
  Marked(v) =>
    /\ v.priority # MaxInt /\ Offset(v) < Scale
    /\ -(MaxInt + 1) <= Urgency(v) * Scale + Offset(v)
    /\ Urgency(v) * Scale + Offset(v) < MaxInt

\* The order of two values with exact keys.
InOrder(v, w) ==
  Marked(w) =>
    /\ Marked(v)
    /\ \/ Urgency(v) < Urgency(w)
       \/ Urgency(v) = Urgency(w) /\ (v.declared < w.declared \/ MaxInt \in {v.order, w.order})

-----------------------------------------------------------------------------
(* Properties.                                                             *)

\* Every consumer asks for the binding that the declarations mean.  The code gets there by
\* handing specifications down with their windows erased and by a fold over four criteria
\* (applyReplacements and selectReplacement of replace.go).
MeaningIsKept ==
  BranchProvides(declared) \/
    \A place \in Places(declared) :
      LET tags == Tags(declared, place.list, place.index)
      IN  \A key \in Keys :
            \/ OnlyDefaultReplaced(declared, place, key)
            \/ Asks(tags, key) = Meaning(declared, place, key)

\* A consumer that is sent to a replacement or default finds it: rewriting a consumer
\* (rewriteParamTags) and exporting the binding under the same tag (replacementTargets,
\* defaultTargets) are decided apart, in different lists.
BindingsExist ==
  BranchProvides(declared) \/
    LET exports == Exports(declared)
    IN  \A place \in Places(declared) :
          LET tags == Tags(declared, place.list, place.index)
          IN  \A key \in DOMAIN tags : Scoped(key, tags[key]) \in exports

\* In whatever order fx delivers the values of a group that is sorted, a consumer gets all
\* of them, by priority, and by declaration among equals; a value without a priority counts
\* as Normal, and values without metadata come last.  Values in a Switch have no index and
\* stand in any order among equals, and a value whose key is not exact stands anywhere
\* (buildAutoGroupOrderDecorator, autoGroupOrderIndex).  A group whose rule stands in a
\* Module or a Switch is never sorted, although di/priority.go:3-4 says without such a
\* condition that lower values are ordered earlier: hence rule = "list".
GroupIsOrdered ==
  rule = "list" /\ HasPriority(providers) =>
    \A values \in SetToSeqs(Members(providers)) :
      LET got == Delivered(rule, providers, values)
      IN  /\ Members(providers) = {got[i] : i \in DOMAIN got}
          /\ \A i, j \in DOMAIN got :
               i < j /\ Exact(got[i]) /\ Exact(got[j]) => InOrder(got[i], got[j])

=============================================================================
