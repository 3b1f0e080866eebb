------------------------------ MODULE JsonPath -------------------------------
(***************************************************************************)
(* Compiled paths and what they do to a document: pkg/util/jsonpath.  A    *)
(* document is the function from the position of each of its nodes to what *)
(* is there: "map", "list", or an atom.  A position is the sequence of     *)
(* keys that lead to the node; the elements of a list have the keys "0",   *)
(* "1", and so on.                                                         *)
(***************************************************************************)
EXTENDS Naturals, Sequences, FiniteSets, SequencesExt

CONSTANT Untyped  \* the atoms that are no Go string: numbers, booleans, null

Node == {"map", "list"}
Leaf(a) == [p \in {<<>>} |-> a]
EmptyMap == Leaf("map")

Below(p, q) == Len(p) < Len(q) /\ SubSeq(q, 1, Len(p)) = p
Within(p, q) == p = q \/ Below(p, q)
Children(d, p) == {q \in DOMAIN d : Len(q) = Len(p) + 1 /\ Below(p, q)}
Parent(p) == SubSeq(p, 1, Len(p) - 1)
SubDocument(d, p) ==
  [q \in {SubSeq(r, Len(p) + 1, Len(r)) : r \in {r \in DOMAIN d : Within(p, r)}}
     |-> d[p \o q]]

(* Every node hangs in a map or a list, and a list has no gaps.            *)
IsDocument(d) ==
  /\ DOMAIN d \subseteq Seq(STRING) /\ <<>> \in DOMAIN d
  /\ d = [p \in DOMAIN d |-> d[p]]
  /\ \A p \in DOMAIN d : p # <<>> =>
       /\ Parent(p) \in DOMAIN d /\ d[Parent(p)] \in Node
       /\ d[Parent(p)] = "list" =>
            Last(p) \in {ToString(i) : i \in 0..Cardinality(Children(d, Parent(p))) - 1}

(* The rules of a compiled path. *)
Name(k) == [rule |-> "name", key |-> k]
All == [rule |-> "all"]
Where(rs, s) == [rule |-> "filter", path |-> rs, equals |-> s]
SubscriptType == {All} \cup [rule : {"name"}, key : STRING]
RuleType == SubscriptType \cup [rule : {"filter"}, path : Seq(SubscriptType), equals : STRING]

(* strconv.Atoi: the key of the list element a name is the index of. *)
Atoi(k) == IF k \in {"00", "-0"} THEN "0" ELSE k

(* Mutant: no check of the index against the length of the list. *)
MutSubscript(d, rule, p) ==
  IF p \notin DOMAIN d \/ d[p] \notin Node THEN {}
  ELSE IF rule.rule = "all" THEN Children(d, p)
  ELSE {Append(p, rule.key)}

(* subscript.execute at one position: a map gives the entry of that name,  *)
(* whether it has one or not; a list only an element that it has.          *)
Subscript(d, rule, p) ==
  IF p \notin DOMAIN d \/ d[p] \notin Node THEN {}
  ELSE IF rule.rule = "all" THEN Children(d, p)
  ELSE IF d[p] = "map" THEN {Append(p, rule.key)}
  ELSE {Append(p, Atoi(rule.key))} \cap DOMAIN d

SubscriptAll(d, rules, from) ==
  LET at[n \in 0..Len(rules)] ==
        IF n = 0 THEN from ELSE UNION {Subscript(d, rules[n], p) : p \in at[n - 1]}
  IN  at[Len(rules)]

(* filter.execute.  The path of a filter is made of subscripts: one filter *)
(* inside another, which the grammar allows, is beyond this model.         *)
Found(d, rule, p) == SubscriptAll(d, rule.path, {p}) \cap DOMAIN d
FilterPanics(d, rule, p) ==
  /\ p \in DOMAIN d
  /\ \E q \in Children(d, p) : \E f \in Found(d, rule, q) :
       Found(d, rule, q) = {f} /\ d[f] \in Node \cup Untyped
Filter(d, rule, p) ==
  {q \in Children(d, p) : \E f \in Found(d, rule, q) :
      Found(d, rule, q) = {f} /\ d[f] = rule.equals}

Execute(d, rule, ps) ==
  UNION {IF rule.rule = "filter" THEN Filter(d, rule, p)
                                 ELSE Subscript(d, rule, p) : p \in ps}
Locations(d, rules) ==
  LET at[n \in 0..Len(rules)] ==
        IF n = 0 THEN {<<>>} ELSE Execute(d, rules[n], at[n - 1])
  IN  at[Len(rules)]

Get(d, rules) == Locations(d, rules) \cap DOMAIN d

(* MustGetObject, MustGetSlice and MustGetString take the first result,    *)
(* which is a certain one only if there is no other.                       *)
MustGetString(d, rules) == d[CHOOSE p \in Get(d, rules) : TRUE]

(* The document without what is at the positions L; its root always stays. *)
CutAt(d, L) ==
  [q \in {<<>>} \cup {q \in DOMAIN d : \A l \in L : ~Within(l, q)} |-> d[q]]

(* Set puts x at every location.  One in a map need not exist; a path that *)
(* ends in a missing parent has no location, and Set does nothing.         *)
PutAt(d, L, x) ==
  LET kept  == CutAt(d, L)
      put   == {l \o s : l \in L, s \in DOMAIN x}
      Of(q) == CHOOSE l \in L : Within(l, q)
  IN  [q \in DOMAIN kept \cup put |->
         IF q \in DOMAIN kept THEN kept[q] ELSE x[SubSeq(q, Len(Of(q)) + 1, Len(q))]]

(* Mutant: Set replaces the node where a path ends early. *)
MutSet(d, rules, x) ==
  PutAt(d, IF Locations(d, rules) # {} THEN Locations(d, rules) ELSE {<<rules[1].key>>}, x)

Set(d, rules, x) == PutAt(d, Locations(d, rules), x)

(* Mutant: deletes if the path has found one value. *)
MutDelete(d, rules) == CutAt(d, IF Cardinality(Get(d, rules)) = 1 THEN Get(d, rules) ELSE {})

Delete(d, rules) == CutAt(d, Get(d, rules))

(* Mutant: DeleteIfMatch compares the node, not what hangs below it. *)
MutMatching(d, rules, x) == {p \in Get(d, rules) : d[p] = x[<<>>]}

Matching(d, rules, x) == {p \in Get(d, rules) : SubDocument(d, p) = x}
DeleteIfMatch(d, rules, x) == CutAt(d, Matching(d, rules, x))

(* What Delete panics for: the root and the elements of a list.  Set       *)
(* panics for the root.                                                    *)
InMap(d, p) == p # <<>> /\ d[Parent(p)] = "map"

(* Mutant: the elements of a list can be deleted. *)
MutDeletePanics(d, L) == <<>> \in L

DeletePanics(d, L) == \E l \in L : ~InMap(d, l)
==============================================================================
