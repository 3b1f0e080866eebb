------------------------------- MODULE Document ------------------------------
(***************************************************************************)
(* A document under calls of the methods of jsonpath.Path.  clean(),       *)
(* defaults() and translate() are sequences of such calls.                 *)
(***************************************************************************)
EXTENDS JsonPath

CONSTANTS
  Documents,  \* the documents to start from
  Paths,      \* the compiled paths that are called
  Arguments      \* what Set and DeleteIfMatch are given, as documents

ASSUME DocumentAssumption ==
  /\ \A d \in Documents \cup Arguments : IsDocument(d)
  /\ \A x \in Arguments : IsFiniteSet(DOMAIN x)
  /\ Paths \subseteq Seq(RuleType)

VARIABLES
  doc,    \* the document
  call,   \* the last call: its operation, path and value
  panic   \* a call has panicked

documentVars == <<doc, call, panic>>

Called(op, rules, x) == call' = [op |-> op, path |-> rules, value |-> x]

(* A filter that finds anything but a string panics in the type assertion. *)
Reaches(d, rules) ==
  \A i \in 1..Len(rules) : rules[i].rule = "filter" =>
     \A p \in Locations(d, SubSeq(rules, 1, i - 1)) : ~FilterPanics(d, rules[i], p)

CallSet(rules, x) ==
  /\ ~panic /\ Called("set", rules, x)
  /\ IF ~Reaches(doc, rules) \/ rules = <<>>
       THEN panic' = TRUE /\ UNCHANGED doc
       ELSE doc' = Set(doc, rules, x) /\ UNCHANGED panic

CallDelete(rules) ==
  /\ ~panic /\ Called("delete", rules, EmptyMap)
  /\ IF ~Reaches(doc, rules) \/ DeletePanics(doc, Get(doc, rules))
       THEN panic' = TRUE /\ UNCHANGED doc
       ELSE doc' = Delete(doc, rules) /\ UNCHANGED panic

CallDeleteIfMatch(rules, x) ==
  /\ ~panic /\ Called("deleteIfMatch", rules, x)
  /\ IF ~Reaches(doc, rules) \/ DeletePanics(doc, Matching(doc, rules, x))
       THEN panic' = TRUE /\ UNCHANGED doc
       ELSE doc' = DeleteIfMatch(doc, rules, x) /\ UNCHANGED panic

Uncalled == call = [op |-> "none", path |-> <<>>, value |-> EmptyMap]
DocumentInit == doc \in Documents /\ Uncalled /\ panic = FALSE

DocumentNext == \E rules \in Paths :
  \/ CallDelete(rules)
  \/ \E x \in Arguments : CallSet(rules, x) \/ CallDeleteIfMatch(rules, x)

DocumentSpec == DocumentInit /\ [][DocumentNext]_documentVars

------------------------------------------------------------------------------
(* Properties. *)

(* Type: the calls never leave half an object behind, an element without   *)
(* its list or a list with gaps (jsonpath.go 92-133).                      *)
DocumentTypeOK == panic \in BOOLEAN /\ IsDocument(doc)

(* What a path means, one position at a time: each key fits its rule in    *)
(* the node above.  Candidates are the nodes and the free entries of maps. *)
Selects(d, rule, p) ==
  LET up == Parent(p) IN
  /\ up \in DOMAIN d /\ d[up] \in Node
  /\ CASE rule.rule = "all"  -> p \in DOMAIN d
       [] rule.rule = "name" -> \/ d[up] = "map" /\ Last(p) = rule.key
                                \/ d[up] = "list" /\ p \in DOMAIN d /\ Last(p) = Atoi(rule.key)
       [] OTHER -> p \in DOMAIN d
Means(d, rules, p) ==
  /\ Len(p) = Len(rules)
  /\ \A i \in 1..Len(rules) : Selects(d, rules[i], SubSeq(p, 1, i))
  /\ \A i \in 1..Len(rules) : rules[i].rule = "filter" =>
       LET found == {q \in DOMAIN d :
             /\ Len(q) = i + Len(rules[i].path)
             /\ SubSeq(q, 1, i) = SubSeq(p, 1, i)
             /\ \A j \in 1..Len(rules[i].path) :
                  Selects(d, rules[i].path[j], SubSeq(q, 1, i + j))}
       IN  \E f \in found : found = {f} /\ d[f] = rules[i].equals
Names(rules) == {rules[i].key : i \in {i \in 1..Len(rules) : rules[i].rule = "name"}}
Candidates(d, rules) ==
  DOMAIN d \cup {Append(p, k) : p \in DOMAIN d, k \in Names(rules)}

(* The rules of a path, executed one after another over a shrinking and    *)
(* growing list of values, find exactly the positions the path means       *)
(* (subscript.go 14-48, filter.go 14-42).                                  *)
PathsMeanPositions ==
  ~panic => \A rules \in Paths :
     Locations(doc, rules) = {p \in Candidates(doc, rules) : Means(doc, rules, p)}

(* A call changes nothing but what its path selects, and what hangs there  *)
(* (jsonpath.go 92-133): an object loses or gains nothing beside it.       *)
CallsAreLocal ==
  [][~panic' => \A p \in DOMAIN doc \cup DOMAIN doc' :
       (\A i \in 0..Len(p) : ~Means(doc, call'.path, SubSeq(p, 1, i))) =>
          /\ p \in DOMAIN doc /\ p \in DOMAIN doc'
          /\ doc'[p] = doc[p]]_documentVars

(* A call that returns has done what its name says: Set leaves its value   *)
(* at every location there was, existing or not; Delete leaves nothing to  *)
(* get; DeleteIfMatch takes the equal ones and leaves the others whole     *)
(* (jsonpath.go 92-133).                                                   *)
CallsDoTheirJob ==
  [][~panic' =>
       LET rules == call'.path IN
       CASE call'.op = "set" ->
              \A p \in Candidates(doc, rules) : Means(doc, rules, p) =>
                 SubDocument(doc', p) = call'.value
         [] call'.op = "delete" -> \A p \in DOMAIN doc' : ~Means(doc, rules, p)
         [] OTHER -> \A p \in DOMAIN doc : Means(doc, rules, p) =>
              SubDocument(doc', p) =
                 IF SubDocument(doc, p) = call'.value THEN <<>> ELSE SubDocument(doc, p)]_documentVars

(* The order of two deletions is of no matter, nested or not, unless a     *)
(* filter looks at what the other deletes: the lines of clean() could be   *)
(* sorted.  DeleteIfMatch has no such law (default.go 64-68 depends on     *)
(* its order).                                                             *)
FilterFree(rules) == \A i \in 1..Len(rules) : rules[i].rule # "filter"
DeletionsCommute ==
  ~panic => \A r, s \in {r \in Paths : FilterFree(r) /\ ~DeletePanics(doc, Get(doc, r))} :
     Delete(Delete(doc, r), s) = Delete(Delete(doc, s), r)
==============================================================================
