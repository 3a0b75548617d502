---------------------------- MODULE JsonValues ----------------------------
(***************************************************************************)
(* JSON values as the service's Python code walks them, and every such     *)
(* value up to a bound, grown from the inside out.                         *)
(*                                                                         *)
(* A text stands for a string by what the code asks of it: how long it is, *)
(* how many of its characters are not ASCII, which secrets it contains,    *)
(* whether it is shaped like a JWT, and, where it is a key, whether it     *)
(* names a credential.  Numbers, booleans and null are one scalar.         *)
(***************************************************************************)
EXTENDS Naturals, Sequences, FiniteSets

CONSTANTS
    Texts,       \* texts that occur as values
    KeyTexts,    \* texts that occur as keys
    Siblings,    \* values put beside another in a container
    MaxNesting,  \* bound: containers around the innermost value
    MaxWidth     \* bound: values in a container

VARIABLES
    value,       \* a value: a payload, or the fields of a log call
    nesting      \* containers around its innermost value

Text(name, length) ==
    [name |-> name, length |-> length, non_ascii |-> 0, contains |-> {},
     jwt |-> FALSE, credential |-> FALSE]

Str(text)      == [kind |-> "str", text |-> text]
Scalar         == [kind |-> "scalar"]
Dict(items)    == [kind |-> "dict", items |-> items]
List(elements) == [kind |-> "list", elements |-> elements]

Innermost == {Str(text) : text \in Texts} \cup {Scalar, Dict(<<>>), List(<<>>)}

ASSUME SiblingsAssumption == Siblings \subseteq Innermost

-----------------------------------------------------------------------------
(* The nodes of a value, each named by the steps that lead to it: a key or *)
(* an index.  This is the reference the code's recursions are compared to. *)

NoKey == Text("no key", 0)

Children(v) ==
    CASE v.kind = "dict" ->
           [step \in {[key |-> k, index |-> 0] : k \in DOMAIN v.items} |-> v.items[step.key]]
      [] v.kind = "list" ->
           [step \in {[key |-> NoKey, index |-> i] : i \in DOMAIN v.elements} |-> v.elements[step.index]]
      [] OTHER -> <<>>

RECURSIVE Nodes(_)
\* The value's nodes: a function from their paths.
Nodes(v) ==
    LET below == [step \in DOMAIN Children(v) |-> Nodes(Children(v)[step])]
        paths == UNION {{<<step>> \o path : path \in DOMAIN below[step]} : step \in DOMAIN below}
    IN  [path \in {<<>>} \cup paths |-> IF path = <<>> THEN v ELSE below[path[1]][Tail(path)]]

-----------------------------------------------------------------------------
(* Growth.                                                                 *)

GrowInit == value \in Innermost /\ nesting = 0

Wrap ==
    /\ nesting < MaxNesting
    /\ nesting' = nesting + 1
    /\ \/ value' = List(<<value>>)
       \/ \E key \in KeyTexts : value' = Dict([k \in {key} |-> value])

Widen ==
    /\ nesting > 0 /\ Cardinality(DOMAIN Children(value)) < MaxWidth
    /\ \E sibling \in Siblings :
         \/ value.kind = "list" /\ value' = List(Append(value.elements, sibling))
         \/ value.kind = "dict" /\ \E key \in KeyTexts \ DOMAIN value.items :
              value' = Dict([k \in DOMAIN value.items \cup {key} |->
                               IF k = key THEN sibling ELSE value.items[k]])
    /\ UNCHANGED nesting

Grow == Wrap \/ Widen
=============================================================================
