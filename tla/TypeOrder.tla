----------------------------- MODULE TypeOrder -----------------------------
(* How the compiler orders the type definitions of a module for the C++ back    *)
(* end: MarkRecursiveTypes (compiler/core/recursive.c), the pointer rules of    *)
(* c++-gen, and SortTypeDependencies (compiler/core/dependency.c).              *)
(*                                                                              *)
(* A module is a sequence of definitions after normalisation, which leaves no   *)
(* constructed type inside another one.  A definition is its kind, its          *)
(* references to definitions of the module, and whether it has elements of      *)
(* library types besides:                                                       *)
(*   library   INTEGER, OCTET STRING, ANY ...     sequence  SEQUENCE            *)
(*   choice    CHOICE    list  SEQUENCE OF         ref       Foo ::= Bar        *)
EXTENDS Integers, Sequences, FiniteSets, SequencesExt

Reference(to, optional) == [to |-> to, optional |-> optional]

\* The kind a reference ends at.
RECURSIVE GetBuiltinType(_, _)
GetBuiltinType(types, td) ==
  IF types[td].kind # "ref" THEN types[td].kind
  ELSE GetBuiltinType(types, (CHOOSE r \in types[td].refs : TRUE).to)

\* Whether the class of td holds the reference as a pointer.  A list holds
\* pointers except to a CHOICE.
IsCxxPtr(types, td, r) ==
  CASE types[td].kind = "sequence" -> r.optional
    [] types[td].kind = "choice" -> TRUE
    [] types[td].kind = "list" -> GetBuiltinType(types, r.to) # "choice"
    [] types[td].kind = "ref" -> FALSE

-----------------------------------------------------------------------------
(* MarkRecursiveTypes *)

\* A CHOICE of several alternatives.
Alternatives(def) ==
  def.kind = "choice" /\ Cardinality(def.refs) + (IF def.others THEN 1 ELSE 0) > 1

\* A value of def is nothing but a value of what it refers to.
ReferenceOnly(def) == def.kind = "ref" \/ (def.kind = "choice" /\ ~Alternatives(def))

\* Whether a value of def can do without the value behind r.
OptionalBranch(def, r, optional) ==
  optional \/ Alternatives(def) \/ def.kind = "list" \/ (def.kind = "sequence" /\ r.optional)

\* Mutant: a reference to the definition itself is not looked for behind another.
RECURSIVE MkRecTypeFlat(_, _, _, _, _, _)
MkRecTypeFlat(types, td, at, optional, empty, entered) ==
  LET def == types[at]
      still == empty /\ ReferenceOnly(def)
  IN UNION {LET opt == OptionalBranch(def, r, optional)
            IN IF r.to = td
               THEN {"recursive"} \cup (IF still THEN {"no values"} ELSE IF opt THEN {} ELSE {"infinite"})
               ELSE {} : r \in def.refs}

\* What the walk from definition td finds out about it, at definition `at`.
\* `entered` are the definitions on the way here (tmpRefCount), `empty` is true
\* while the way consists of references only.
RECURSIVE MkRecType(_, _, _, _, _, _)
MkRecType(types, td, at, optional, empty, entered) ==
  LET def == types[at]
      still == empty /\ ReferenceOnly(def)
  IN UNION {LET opt == OptionalBranch(def, r, optional)
            IN IF r.to = td
               THEN {"recursive"} \cup (IF still THEN {"no values"} ELSE IF opt THEN {} ELSE {"infinite"})
               ELSE IF r.to \in entered THEN {}
               ELSE MkRecType(types, td, r.to, opt, still, entered \cup {r.to}) : r \in def.refs}

MkRecTypeDef(types, td) == MkRecType(types, td, td, FALSE, TRUE, {})

\* The `recursive` mark and the two warnings of every definition.
MarkRecursiveTypes(types) == [td \in DOMAIN types |-> MkRecTypeDef(types, td)]

-----------------------------------------------------------------------------
(* SortTypeDependencies *)

BuildLocalRefList(types, td) == {r.to : r \in types[td].refs}
BuildWeightedLocalRefList(types, td) ==
  {r.to : r \in {q \in types[td].refs : ~IsCxxPtr(types, td, q)}}

\* One pass over tdl: a definition that refers to no other definition still in
\* the list moves to the end of subList.
SortPass(tdl, subList, refList) ==
  FoldLeft(LAMBDA acc, td :
             IF (refList[td] \ {td}) \cap ToSet(acc.tdl) = {}
             THEN [tdl |-> Remove(acc.tdl, td), subList |-> Append(acc.subList, td)]
             ELSE acc,
           [tdl |-> tdl, subList |-> subList], tdl)

\* Passes until one moves nothing.
RECURSIVE RemoveAndSort(_, _, _)
RemoveAndSort(tdl, subList, refList) ==
  LET pass == SortPass(tdl, subList, refList)
  IN IF tdl = <<>> \/ Len(pass.subList) = Len(subList)
     THEN [tdl |-> tdl, subList |-> subList]
     ELSE RemoveAndSort(pass.tdl, pass.subList, refList)

RemoveAndSortIndependents(tdl, refList) == RemoveAndSort(tdl, <<>>, refList)

\* The problem types: the ones that sort, then the recursive ones by their
\* references that are not pointers, then the ones that depend on those.
SortTypeDefs(types, tdl) ==
  LET refList == [td \in DOMAIN types |-> BuildLocalRefList(types, td)]
      weighted == [td \in DOMAIN types |-> BuildWeightedLocalRefList(types, td)]
      marks == MarkRecursiveTypes(types)
      a == RemoveAndSortIndependents(tdl, refList)
      c == RemoveAndSortIndependents(SelectSeq(a.tdl, LAMBDA td : "recursive" \notin marks[td]), refList)
      b == RemoveAndSortIndependents(SelectSeq(a.tdl, LAMBDA td : "recursive" \in marks[td]), weighted)
  IN [order |-> a.subList \o b.subList \o b.tdl \o c.subList \o c.tdl,
      failed |-> c.tdl, knot |-> b.tdl,
      noRecursive |-> a.tdl # <<>> /\ b.subList \o b.tdl = <<>>]

\* The four groups of a module.
Group(types, td) ==
  IF types[td].kind = "library" THEN "prims"
  ELSE IF \A u \in DOMAIN types : td \notin BuildLocalRefList(types, u) THEN "notRefd"
  ELSE IF BuildLocalRefList(types, td) = {} THEN "noRefs"
  ELSE "refs"
GroupList(types, group) == SelectSeq([i \in DOMAIN types |-> i], LAMBDA td : Group(types, td) = group)

\* Mutant: the definitions without references go after the ones that refer to them.
SortTypeDependenciesLate(types) ==
  LET sorted == SortTypeDefs(types, GroupList(types, "refs"))
  IN [sorted EXCEPT !.order = GroupList(types, "prims") \o sorted.order
                                \o GroupList(types, "noRefs") \o GroupList(types, "notRefd")]

SortTypeDependencies(types) ==
  LET sorted == SortTypeDefs(types, GroupList(types, "refs"))
  IN [sorted EXCEPT !.order = GroupList(types, "prims") \o GroupList(types, "noRefs")
                                \o sorted.order \o GroupList(types, "notRefd")]

-----------------------------------------------------------------------------
(* What the order is for *)

\* The definitions reached from td in one step or more of a relation.
Step(next, from) == UNION {next[u] : u \in from}
RECURSIVE Closure(_, _)
Closure(next, from) ==
  IF Step(next, from) \subseteq from THEN from ELSE Closure(next, from \cup Step(next, from))
Reached(next, td) == Closure(next, next[td])

Refers(types) == [td \in DOMAIN types |-> BuildLocalRefList(types, td)]
Recursive(types, td) == td \in Reached(Refers(types), td)

\* A value of one definition contains a value of the other, among those of a
\* set; a knot is a definition that leads to a cycle of at least two.
HeldByValue(types, set) == [td \in DOMAIN types |-> BuildWeightedLocalRefList(types, td) \cap set]
Circle(next, td) == \E u \in next[td] \ {td} : td \in {u} \cup Reached(next, u)
LeadsTo(next, td) == \E u \in {td} \cup Reached(next, td) : Circle(next, u)

\* The mark `recursive` is put on exactly the definitions that refer to
\* themselves; so the compiler's "non recursive type defs failed sort" is
\* unreachable, a recursive definition is left whenever the first sort got
\* stuck (the second list is walked without a test), and no definition is lost.
OrderComplete(types) ==
  LET sorted == SortTypeDependencies(types)
      marks == MarkRecursiveTypes(types)
  IN /\ \A td \in DOMAIN types : "recursive" \in marks[td] <=> Recursive(types, td)
     /\ sorted.failed = <<>> /\ ~sorted.noRecursive
     /\ Len(sorted.order) = Len(types) /\ ToSet(sorted.order) = DOMAIN types

\* A definition comes before the definitions that contain it by value, unless
\* both hang on a circle of values, or a recursive definition contains one that
\* is not recursive but waits for recursive ones: those go last.  In a module
\* without recursion every reference, by pointer too, is backward.
DefinedBeforeUse(types) ==
  LET order == SortTypeDependencies(types).order
      at == [td \in DOMAIN types |-> CHOOSE i \in DOMAIN order : order[i] = td]
      recursive == {td \in DOMAIN types : Recursive(types, td)}
      values == HeldByValue(types, recursive)
  IN /\ \A u \in DOMAIN types : \A v \in BuildWeightedLocalRefList(types, u) \ {u} :
          \/ at[v] < at[u]
          \/ {u, v} \subseteq recursive /\ LeadsTo(values, u) /\ LeadsTo(values, v)
          \/ u \in recursive /\ v \notin recursive /\ LeadsTo(Refers(types), v)
     /\ recursive = {} =>
          \A u \in DOMAIN types : \A v \in BuildLocalRefList(types, u) : at[v] < at[u]

\* The definitions that have a value of finite size, found bottom up.
RECURSIVE Finite(_, _)
Finite(types, found) ==
  LET more == {td \in DOMAIN types :
                 CASE types[td].kind = "library" \/ types[td].kind = "list" -> TRUE
                   [] types[td].kind = "sequence" ->
                        \A r \in types[td].refs : r.optional \/ r.to \in found
                   [] types[td].kind = "choice" ->
                        types[td].others \/ \E r \in types[td].refs : r.to \in found
                   [] types[td].kind = "ref" -> \E r \in types[td].refs : r.to \in found}
  IN IF more = found THEN found ELSE Finite(types, more)

\* A definition is warned about as infinitely recursive only when it has no
\* finite value; and when no CHOICE offers several ways, every definition
\* without one is warned about or leads to one that is.
WarningsRight(types) ==
  LET marks == MarkRecursiveTypes(types)
      warned == {td \in DOMAIN types : marks[td] \cap {"no values", "infinite"} # {}}
      infinite == DOMAIN types \ Finite(types, {})
  IN /\ warned \subseteq infinite
     /\ (\A td \in DOMAIN types : ~Alternatives(types[td])) =>
          \A td \in infinite : ({td} \cup Reached(Refers(types), td)) \cap warned # {}
=============================================================================
