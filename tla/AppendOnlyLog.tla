--------------------------- MODULE AppendOnlyLog ---------------------------
(***************************************************************************)
(* What the write path promises its callers, with no session, lock, hash   *)
(* or transaction in it: a log that only grows at its end, in which a      *)
(* user's idempotency key stands for at most one record, and answers that  *)
(* name a record of the log with the content that was asked for.           *)
(***************************************************************************)
EXTENDS Naturals

CONSTANT NULL   \* the key of a request without one

VARIABLES
    log,      \* content of each record, a function from id
    origin,   \* who asked for each record: [username, key]
    answers   \* what callers were told: [origin, content, event_id]

vars == <<log, origin, answers>>

Init == log = <<>> /\ origin = <<>> /\ answers = {}

\* g is f with one more point.
Extends(g, f, id) ==
    /\ DOMAIN g = DOMAIN f \cup {id}
    /\ \A j \in DOMAIN f : g[j] = f[j]

\* A record is added behind all others; its key, if any, is new.
Accept ==
    \E id \in DOMAIN log' :
      /\ \A j \in DOMAIN log : j < id
      /\ Extends(log', log, id)
      /\ Extends(origin', origin, id)
      /\ (origin'[id].key # NULL) => (\A j \in DOMAIN origin : origin[j] # origin'[id])
      /\ UNCHANGED answers

\* A caller is told the id of a record with the content it asked for.
Answer ==
    /\ \E a \in answers' :
         /\ answers' = answers \cup {a}
         /\ a.event_id \in DOMAIN log
         /\ log[a.event_id] = a.content
         /\ (a.origin.key # NULL) => (origin[a.event_id] = a.origin)
    /\ UNCHANGED <<log, origin>>

Next == Accept \/ Answer

Spec == Init /\ [][Next]_vars
=============================================================================
