--------------------------- MODULE PayloadLimits ---------------------------
(***************************************************************************)
(* The limits on an event's payload: payload_limits.py and the validator   *)
(* of AuditEventCreate that applies them.                                  *)
(***************************************************************************)
EXTENDS JsonValues, FiniteSetsExt

CONSTANTS
    max_payload_bytes,
    max_payload_depth,
    max_payload_string_length

ASSUME LimitsAssumption ==
    {max_payload_bytes, max_payload_depth, max_payload_string_length} \subseteq Nat \ {0}

\* A string in json.dumps(ensure_ascii=True): quotes, and \uXXXX for each
\* character that is not ASCII.
Dumped(text) == 2 + text.length + 5 * text.non_ascii

Separators(n) == IF n = 0 THEN 0 ELSE n - 1

RECURSIVE compute_payload_byte_size(_)
compute_payload_byte_size(v) ==
    CASE v.kind = "str" -> Dumped(v.text)
      [] v.kind = "dict" -> 2 + Separators(Cardinality(DOMAIN v.items))
           + MapThenSumSet(LAMBDA k : Dumped(k) + 1 + compute_payload_byte_size(v.items[k]), DOMAIN v.items)
      [] v.kind = "list" -> 2 + Separators(Len(v.elements))
           + MapThenSumSet(LAMBDA i : compute_payload_byte_size(v.elements[i]), DOMAIN v.elements)
      [] OTHER -> 1

RECURSIVE depth_of_dicts(_)
\* Mutant: a list adds no level.
depth_of_dicts(v) ==
    CASE v.kind = "dict" /\ DOMAIN v.items # {} -> 1 + Max({depth_of_dicts(v.items[k]) : k \in DOMAIN v.items})
      [] v.kind = "list" /\ v.elements # <<>> -> Max({depth_of_dicts(v.elements[i]) : i \in DOMAIN v.elements})
      [] OTHER -> 0

RECURSIVE compute_payload_depth(_)
compute_payload_depth(v) ==
    CASE v.kind = "dict" /\ DOMAIN v.items # {} -> 1 + Max({compute_payload_depth(v.items[k]) : k \in DOMAIN v.items})
      [] v.kind = "list" /\ v.elements # <<>> -> 1 + Max({compute_payload_depth(v.elements[i]) : i \in DOMAIN v.elements})
      [] OTHER -> 0

RECURSIVE payload_has_overlong_string(_)
payload_has_overlong_string(v) ==
    CASE v.kind = "str"  -> v.text.length > max_payload_string_length
      [] v.kind = "dict" -> \E k \in DOMAIN v.items : \/ k.length > max_payload_string_length
                                                      \/ payload_has_overlong_string(v.items[k])
      [] v.kind = "list" -> \E i \in DOMAIN v.elements : payload_has_overlong_string(v.elements[i])
      [] OTHER -> FALSE

\* The first limit a payload exceeds, in the order the validator looks.
enforce_payload_limits(payload) ==
    CASE compute_payload_byte_size(payload) > max_payload_bytes -> "bytes"
      [] OTHER ->
    CASE compute_payload_depth(payload) > max_payload_depth -> "depth"
      [] payload_has_overlong_string(payload) -> "string"
      [] OTHER -> "accepted"

-----------------------------------------------------------------------------
(* Correctness.                                                            *)

\* The three limits by the nodes of a payload: the tokens of its text, the
\* longest way down, and any text on the way or at its end.
Tokens(nodes, path) ==
    LET node == nodes[path]
        end  == CASE node.kind = "str" -> Dumped(node.text)
                  [] node.kind \in {"dict", "list"} -> 2 + Separators(Cardinality(DOMAIN Children(node)))
                  [] OTHER -> 1
    IN  end + IF path = <<>> \/ path[Len(path)].key = NoKey THEN 0 ELSE Dumped(path[Len(path)].key) + 1

\* A payload is accepted exactly when no limit is exceeded anywhere in it,
\* and refused for the size first: however containers of both kinds, empty
\* ones included, and long keys are nested in one another.
LimitsReachEveryNode ==
    (value.kind = "dict") =>
      LET nodes == Nodes(value)
          size  == MapThenSumSet(LAMBDA path : Tokens(nodes, path), DOMAIN nodes)
          deep  == \E path \in DOMAIN nodes : Len(path) > max_payload_depth
          long  == \E path \in DOMAIN nodes :
                     \/ nodes[path].kind = "str" /\ nodes[path].text.length > max_payload_string_length
                     \/ \E i \in DOMAIN path : path[i].key.length > max_payload_string_length
      IN  /\ (enforce_payload_limits(value) = "accepted") <=> (size <= max_payload_bytes /\ ~deep /\ ~long)
          /\ (enforce_payload_limits(value) = "bytes") <=> (size > max_payload_bytes)
=============================================================================
