---------------------------- MODULE MCAuditQuery ----------------------------
(***************************************************************************)
(* Values for the constants of AuditQuery that a cfg cannot write down.    *)
(***************************************************************************)
EXTENDS AuditQuery

\* A reader with a tenant, one without, an auditor and a writer.
MCRoleOf == [c \in Callers |-> CASE c \in {"rea", "rex"} -> "READER"
                                 [] c = "aud" -> "AUDITOR" [] OTHER -> "WRITER"]

MCTenantOf == [c \in Callers |-> IF c = "rea" THEN "t1" ELSE NULL]

\* Rows of two tenants, of which one is about an account.
MCRows == {[tenant_id |-> "t1", actor_id |-> "a", resource_type |-> "ACCOUNT"],
           [tenant_id |-> "t2", actor_id |-> "a", resource_type |-> "OTHER"]}

MCFilters == {<<>>, [actor_id |-> "a"]}

\* Listings and reports only read, so a behaviour need not have both.
OneKindOfRead == walk = NULL \/ reports = <<>>

\* Unbounded, soon over, and the wrong way round.
MCPeriods == {[from |-> NULL, to |-> NULL], [from |-> 0, to |-> 0], [from |-> 1, to |-> 0]}
=============================================================================
