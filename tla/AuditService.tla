---------------------------- MODULE AuditService ----------------------------
(***************************************************************************)
(* One system of the write path with its sessions, redaction and retention *)
(* (AuditRedaction) and of the reads (AuditQuery): the reads are made of   *)
(* the committed rows as they are while appends, redactions and retention  *)
(* go on.  What AuditQuery assumes of the write path, one row at a time    *)
(* between its timestamp and its commit, is here shown of it: the system   *)
(* implements AuditQuery, and so has what holds there.                     *)
(***************************************************************************)
EXTENDS AuditRedaction

CONSTANTS
    RoleOf,       \* role in each user's token
    Filters,      \* query parameters: a function from some columns to values
    Periods,      \* from/to parameters: [from, to], each a time or NULL
    Limits,       \* page sizes a caller may ask for
    MaxReports    \* bound: exports and compliance reports taken

VARIABLES
    walk,         \* a client's way through the pages of a listing, or NULL
    reports,      \* history: exports and reports, in the order they were taken
    setBack       \* history: the clock was set back

serviceVars == <<redVars, walk, reports, setBack>>

-----------------------------------------------------------------------------
(* Rows as far as reads can tell.  Redaction changes nothing of it.        *)

PostedColumns == {"tenant_id", "event_type", "actor_id", "resource_type", "resource_id"}

\* The columns a filter can name, of an event or of the row made from it.
Posted(tenant_id, event_in) ==
    [tenant_id     |-> tenant_id,
     event_type    |-> event_in.event_type,
     actor_id      |-> event_in.subject[1],
     resource_type |-> event_in.subject[2],
     resource_id   |-> event_in.subject[3]]

\* The events that may be appended: a client's, or a redaction's companion.
Appended ==
    Bodies \cup {[event_type |-> Verification!REDACTION_EVENT_TYPE,
                  subject    |-> <<Admin, "AUDIT_EVENT", id>>] : id \in 1..MaxId}

PostedRows == {Posted(tenant_id, event_in) : tenant_id \in Tenants, event_in \in Appended}

\* With the columns the service sets, and its hash, which stands for the
\* row's content, as in AuditQuery.
Readable(row, archived_at) ==
    [tenant_id     |-> row.tenant_id,
     event_type    |-> row.event_type,
     actor_id      |-> row.subject[1],
     resource_type |-> row.subject[2],
     resource_id   |-> row.subject[3],
     timestamp     |-> row.timestamp,
     archived_at   |-> archived_at]

ReadableEvent(id, row) ==
    [tenant_id     |-> row.tenant_id,
     event_type    |-> row.event_type,
     actor_id      |-> row.subject[1],
     resource_type |-> row.subject[2],
     resource_id   |-> row.subject[3],
     timestamp     |-> row.timestamp,
     archived_at   |-> row.archived_at,
     event_hash    |-> Sha256(<<id, Readable(row, NULL)>>)]

ReadableEvents == [id \in DOMAIN events |-> ReadableEvent(id, events[id])]

\* Sessions that have built a row and not committed it.
Staging == {w \in Workers : pc[w] \in {"insert"} \cup AfterInsert}

StagedRow == IF Staging = {} THEN NULL ELSE Readable(staged[CHOOSE w \in Staging : TRUE], NULL)

\* The id a row will have that is staged now or next.
NextVisibleId == IF \E w \in Workers : pc[w] \in AfterInsert THEN nextId - 1 ELSE nextId

Query == INSTANCE AuditQuery WITH
    Rows          <- PostedRows,
    Callers       <- Users,
    RetentionRuns <- TRUE,
    events        <- ReadableEvents,
    nextId        <- NextVisibleId,
    pending       <- StagedRow

ASSUME ReadsAssumption   == Limits \subseteq Nat \ {0} /\ MaxReports \in Nat
ASSUME FiltersAssumption == \A filter \in Filters : DOMAIN filter \subseteq PostedColumns
ASSUME PeriodAssumption  == Periods \subseteq [from : Nat \cup {NULL}, to : Nat \cup {NULL}]

\* None is not a row.
ASSUME NullRowAssumption ==
    \A tenant_id \in Tenants, event_in \in Appended, timestamp \in 0..MaxTime :
      NULL # Readable([tenant_id |-> tenant_id, timestamp |-> timestamp,
                       event_type |-> event_in.event_type, subject |-> event_in.subject], NULL)

-----------------------------------------------------------------------------
ServiceInit ==
    /\ RedInit
    /\ walk = NULL /\ reports = <<>> /\ setBack = FALSE

\* What this step archives.
ArchivedNow ==
    {id \in DOMAIN events : events[id].archived_at = NULL /\ events'[id].archived_at # NULL}

\* A step of the write path, of redaction, of retention or of the clock, and
\* what the histories note of it.
WriteStep ==
    /\ RedNext
    /\ walk' = IF walk = NULL \/ ArchivedNow = {} THEN walk
               ELSE [walk EXCEPT !.hidden = @ \cup ArchivedNow]
    /\ setBack' = IF clock' < clock THEN TRUE ELSE setBack
    /\ UNCHANGED reports

\* GET /audit/events, /audit/export, /audit/compliance/account-access.
ReadStep ==
    /\ UNCHANGED <<redVars, setBack>>
    /\ \/ Query!StartWalk \/ Query!ReadPage \/ Query!EndWalk
       \/ Query!Export \/ Query!ReportAccountAccess

ServiceNext == WriteStep \/ ReadStep

ServiceSpec == ServiceInit /\ [][ServiceNext]_serviceVars /\ RedFairness

\* Without readers.
WritesSpec == ServiceInit /\ [][WriteStep]_serviceVars /\ RedFairness

-----------------------------------------------------------------------------
(* Correctness.                                                            *)

\* Readers of the running system are told no more than AuditQuery says: one
\* row at a time is timestamped and then visible behind all others or never,
\* although sessions interleave, ids are taken before the commit, and
\* redactions rewrite rows ("assignment order is serialized by
\* lock_for_append, so it matches chain/insertion order", list_events).
ImplementsQuery == Query!Spec

\* Inductive together with RedIInv: nobody takes an id from the sequence
\* while another session's row is inserted and not committed.
IdsInv == \A w \in Workers : (pc[w] \in AfterInsert) => (result[w] = nextId - 1)
=============================================================================
