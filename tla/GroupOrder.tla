----------------------------- MODULE GroupOrder -----------------------------
(***************************************************************************)
(* The order of the values of an automatic group (di/auto_group_order.go). *)
(* When somebody has a priority, the providers and supplies get the index  *)
(* of their declaration, and a decorator sorts the group by                *)
(* priority*1000000 + index.  fx hands the values of a group over in any   *)
(* order.                                                                  *)
(*                                                                         *)
(* All of this happens behind applyReplacements, which has made of a       *)
(* Switch a node with the selected nodes and without cases: indices,       *)
(* priorities and rules are looked for in the cases, and so none are found *)
(* in a Switch.  Metadata are kept by pointer: a value that is no pointer  *)
(* has none.                                                               *)
(***************************************************************************)
EXTENDS Integers, Sequences, FiniteSets

CONSTANTS
  None,  \* no priority option
  Scale, \* the 1_000_000 of autoGroupOrderIndex
  MaxInt \* the greatest int

\* Where a provider is declared: in a list, in the selected case of a Switch, or in an If
\* whose condition is false, which is walked but not built.
PlacesOfProviders == {"list", "switch", "off"}

\* A provider in the scope of the group's rule: its priority or None, whether the rule
\* applies to its type, its place, and whether its value is a pointer.  applyAutoGroups has
\* given the rule to every provider of the scope.
Provider(priority, member, place, pointer) ==
  [priority |-> priority, member |-> member, place |-> place, pointer |-> pointer]

\* Where the group's rule is declared: in the list of the application (or in options or an
\* If there), in a Module, or in a Switch.
PlacesOfRules == {"list", "module", "switch"}

Wrap(n) == ((n + MaxInt + 1) % (2 * (MaxInt + 1))) - (MaxInt + 1)

\* The providers that the walks find.
Seen(providers) == {i \in DOMAIN providers : providers[i].place # "switch"}

\* collectPriorityGroups: a priority counts whether or not the rule applies to the type.
HasPriority(providers) == \E i \in Seen(providers) : providers[i].priority # None

\* applyAutoGroupOrderMetadata: the counter goes over all providers, of other groups too.
Index(providers, i) == Cardinality({j \in Seen(providers) : j < i})

\* The values of the group, with what ReflectMetadataAny tells of each; MaxInt stands for
\* no index, as in the code.
Members(providers) ==
  {[declared |-> i,
    priority |-> IF providers[i].pointer THEN providers[i].priority ELSE None,
    order    |-> IF providers[i].pointer /\ i \in Seen(providers)
                 THEN Index(providers, i) ELSE MaxInt] :
     i \in {i \in DOMAIN providers : providers[i].member /\ providers[i].place # "off"}}

Unprioritized(value) == value.priority = None \/ value.priority = MaxInt
Offset(value) == IF value.order = MaxInt THEN 0 ELSE value.order

\* Mutant: a priority that a later declaration can outweigh.
UnscaledIndex(value) ==
  IF Unprioritized(value) THEN value.order ELSE value.priority + Offset(value)

\* autoGroupOrderIndex; the greatest priority stands for none.
OrderIndex(value) ==
  IF Unprioritized(value) THEN value.order
  ELSE Wrap(value.priority * Scale + Offset(value))

\* sort.SliceStable by the index, of values in the order of their arrival.
SortValues(values) ==
  LET before(i, j) ==
        \/ OrderIndex(values[i]) < OrderIndex(values[j])
        \/ OrderIndex(values[i]) = OrderIndex(values[j]) /\ i < j
  IN  [n \in DOMAIN values |->
         values[CHOOSE j \in DOMAIN values :
                  Cardinality({i \in DOMAIN values : before(i, j)}) = n - 1]]

\* buildAutoGroupOrderDecorator, appended by appendAutoGroupOrderDecorators for a group
\* with priorities whose rule collectAutoGroupRules finds (it enters no Module, and no
\* Switch by now): what the consumers of the group get when fx delivers `values`.
Delivered(rule, providers, values) ==
  IF HasPriority(providers) /\ rule = "list" THEN SortValues(values) ELSE values
=============================================================================
