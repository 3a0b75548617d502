--------------------------- MODULE MCAuditAppend ---------------------------
(***************************************************************************)
(* Values for the constants of AuditAppend that a cfg cannot write down.   *)
(***************************************************************************)
EXTENDS AuditAppend

\* Two requests that differ in nothing but their payload.
MCBodies == {[event_type |-> "type", subject |-> "subject", payload |-> [a |-> v]] : v \in {"x", "y"}}

\* Two users of one tenant, who may send the same key and content and mean
\* different events, and a user without a tenant.
MCTenantOf == [u \in Users |-> IF u = "cy" THEN NULL ELSE "t1"]
=============================================================================
