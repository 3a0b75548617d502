--------------------------- MODULE MCAuditService ---------------------------
(***************************************************************************)
(* Values for the constants of AuditService that a cfg cannot write down.  *)
(***************************************************************************)
EXTENDS AuditService, MCAuditRedaction

MCRoleOf == [u \in Users |-> "ADMIN"]

MCFilters == {<<>>, [actor_id |-> "app", resource_type |-> "doc"]}

MCPeriods == {[from |-> NULL, to |-> 0]}
=============================================================================
