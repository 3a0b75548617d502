----------------------------- MODULE AuditQuery -----------------------------
(***************************************************************************)
(* The reads of the audit log: GET /audit/events (pages of active records, *)
(* a reader's in its own tenant), GET /audit/export and                    *)
(* GET /audit/compliance/account-access (unpaged, archived records         *)
(* included), while records are appended and archived.                     *)
(*                                                                         *)
(* Every read is one SELECT of one session, so one step.  The append path  *)
(* is the part of AuditAppend that readers can tell: under the append lock *)
(* one row at a time has its timestamp and is not visible yet, then it is  *)
(* committed behind all others, or dropped, which may leave a gap in the   *)
(* ids.  Redaction changes no column that a filter or a manifest uses.     *)
(*                                                                         *)
(* A client that pages through a listing is external: it asks for offset   *)
(* 0, limit, 2 * limit, ... until a page is short.                         *)
(***************************************************************************)
EXTENDS Naturals, FiniteSets, Sequences, Hashing

CONSTANTS
    Rows,             \* filterable columns of appended rows, tenant_id included
    Callers,          \* authenticated users
    RoleOf,           \* role in each caller's token
    TenantOf,         \* tenant in each caller's token, NULL for none
    Filters,          \* query parameters: a function from some columns to values
    Periods,          \* from/to parameters: [from, to], each a time or NULL
    Limits,           \* page sizes a caller may ask for
    RetentionWindow,  \* retention_window_days, in clock units
    RetentionRuns,    \* whether POST /audit/retention/apply is called at all
    MaxId,            \* bound: ids the sequence may hand out
    MaxTime,          \* bound: latest wall-clock reading
    MaxReports,       \* bound: exports and compliance reports taken
    ClockMayStepBack, \* whether the wall clock may be set back
    NULL

ASSUME QueryAssumption ==
    /\ Limits \subseteq Nat \ {0}
    /\ RetentionWindow \in Nat /\ MaxId \in Nat /\ MaxTime \in Nat /\ MaxReports \in Nat
    /\ RetentionRuns \in BOOLEAN /\ ClockMayStepBack \in BOOLEAN

\* A row has every column a filter can name; those set later are not among them.
ASSUME ColumnsAssumption ==
    \A row \in Rows :
      /\ {"tenant_id", "resource_type"} \subseteq DOMAIN row
      /\ {"timestamp", "archived_at", "event_hash"} \cap DOMAIN row = {}
      /\ \A filter \in Filters : DOMAIN filter \subseteq DOMAIN row

ASSUME PeriodsAssumption == Periods \subseteq [from : Nat \cup {NULL}, to : Nat \cup {NULL}]

VARIABLES
    events,    \* committed rows, a function from id
    nextId,    \* the id sequence
    pending,   \* the row the holder of the append lock will commit, or NULL
    clock,     \* datetime.now(timezone.utc)
    walk       \* a client's way through the pages of a listing, or NULL

VARIABLES
    reports,   \* history: exports and reports, in the order they were taken
    setBack    \* history: the clock was set back

wall == <<clock, setBack>>
vars == <<events, nextId, pending, wall, walk, reports>>

ACCOUNT_RESOURCE_TYPE == "ACCOUNT"

-----------------------------------------------------------------------------
(* Queries.                                                                *)

require_roles(caller, allowed) == RoleOf[caller] \in allowed

\* require_utc, validate_range: from and to are instants, in this order.
ValidRange(period) ==
    (period.from # NULL /\ period.to # NULL) => (period.from <= period.to)

Matches(row, filter, period) ==
    /\ \A column \in DOMAIN filter : row[column] = filter[column]
    /\ (period.from # NULL) => (period.from <= row.timestamp)
    /\ (period.to # NULL)   => (row.timestamp <= period.to)

\* Mutants: one record too many; the first one left out; by timestamp.
PageOneMore(ids, limit, offset) ==
    {id \in ids : LET rank == Cardinality({j \in ids : j < id})
                  IN  offset <= rank /\ rank <= offset + limit}

PageOneLate(ids, limit, offset) ==
    {id \in ids : LET rank == Cardinality({j \in ids : j < id})
                  IN  offset < rank /\ rank <= offset + limit}

PageByTimestamp(ids, limit, offset) ==
    {id \in ids : LET rank == Cardinality({j \in ids :
                         \/ events[j].timestamp < events[id].timestamp
                         \/ events[j].timestamp = events[id].timestamp /\ j < id})
                  IN  offset <= rank /\ rank < offset + limit}

\* The ids that ORDER BY id ASC OFFSET offset LIMIT limit leaves of ids.
Page(ids, limit, offset) ==
    {id \in ids : LET rank == Cardinality({j \in ids : j < id})
                  IN  offset <= rank /\ rank < offset + limit}

Active(id) == events[id].archived_at = NULL

\* The rows a listing is about.
Listed(filter, period) ==
    {id \in DOMAIN events : Active(id) /\ Matches(events[id], filter, period)}

\* Mutant: an export or report of active records only.
list_active_events(filter, period) ==
    {<<id, events[id].event_hash>> : id \in Listed(filter, period)}

\* The manifest entries of list_events_including_archived's records; they
\* are in id order.
list_events_including_archived(filter, period) ==
    {<<id, events[id].event_hash>> :
       id \in {i \in DOMAIN events : Matches(events[i], filter, period)}}

\* Mutant: the reader's restriction gives way to the filters of the query.
ScopeOfFilter(caller, filter) == filter

\* The filter a caller's listing really has: a reader's is in its tenant.
Scope(caller, filter) ==
    [column \in DOMAIN filter \cup (IF RoleOf[caller] = "READER" THEN {"tenant_id"} ELSE {}) |->
       IF column = "tenant_id" THEN TenantOf[caller] ELSE filter[column]]

-----------------------------------------------------------------------------
Init ==
    /\ events = <<>> /\ nextId = 1 /\ pending = NULL
    /\ clock = 0 /\ setBack = FALSE
    /\ walk = NULL
    /\ reports = <<>>

\* Mutant: the timestamp is the client's.
StageRowBackdated ==
    /\ pending = NULL /\ nextId <= MaxId
    /\ \E row \in Rows, timestamp \in 0..clock :
         pending' = [column \in DOMAIN row \cup {"timestamp", "archived_at"} |->
                       CASE column = "timestamp"   -> timestamp
                         [] column = "archived_at" -> NULL
                         [] OTHER                  -> row[column]]
    /\ UNCHANGED <<events, nextId, wall, walk, reports>>

\* A writer has the append lock and reads the clock.
StageRow ==
    /\ pending = NULL /\ nextId <= MaxId
    /\ \E row \in Rows :
         pending' = [column \in DOMAIN row \cup {"timestamp", "archived_at"} |->
                       CASE column = "timestamp"   -> clock
                         [] column = "archived_at" -> NULL
                         [] OTHER                  -> row[column]]
    /\ UNCHANGED <<events, nextId, wall, walk, reports>>

\* The commit of the append; event_hash stands for the hash of this content.
CommitRow ==
    /\ pending # NULL
    /\ events' = [id \in DOMAIN events \cup {nextId} |->
                    IF id # nextId THEN events[id]
                    ELSE [column \in DOMAIN pending \cup {"event_hash"} |->
                            IF column = "event_hash" THEN Sha256(<<nextId, pending>>)
                                                     ELSE pending[column]]]
    /\ nextId' = nextId + 1
    /\ pending' = NULL
    /\ UNCHANGED <<wall, walk, reports>>

\* The append rolls back, before or after it took an id.
DropRow ==
    /\ pending # NULL
    /\ pending' = NULL
    /\ nextId' \in {nextId, nextId + 1}
    /\ UNCHANGED <<events, wall, walk, reports>>

\* A caller starts to list.  Only a reader, auditor or admin may, a
\* reader needs a tenant (403 otherwise), and the period is valid (422
\* otherwise).  first and hidden are history: the records listed then, and
\* those retention archived since.
StartWalk ==
    /\ walk = NULL
    /\ \E caller \in Callers, filter \in Filters, period \in Periods, limit \in Limits :
         /\ require_roles(caller, {"READER", "AUDITOR", "ADMIN"})
         /\ (RoleOf[caller] = "READER") => (TenantOf[caller] # NULL)
         /\ ValidRange(period)
         /\ walk' = [caller |-> caller, filter |-> Scope(caller, filter), period |-> period,
                     limit |-> limit, pages |-> <<>>,
                     first |-> Listed(Scope(caller, filter), period), hidden |-> {}]
    /\ UNCHANGED <<events, nextId, pending, wall, reports>>

NextPage ==
    Page(Listed(walk.filter, walk.period), walk.limit, walk.limit * Len(walk.pages))

LastPageIsShort ==
    walk.pages # <<>> /\ Cardinality(walk.pages[Len(walk.pages)]) < walk.limit

\* One GET /audit/events.
ReadPage ==
    /\ walk # NULL /\ ~LastPageIsShort
    /\ walk' = [walk EXCEPT !.pages = Append(@, NextPage)]
    /\ UNCHANGED <<events, nextId, pending, wall, reports>>

EndWalk ==
    /\ walk # NULL /\ LastPageIsShort
    /\ walk' = NULL
    /\ UNCHANGED <<events, nextId, pending, wall, reports>>

Report(filter, period) ==
    [filter |-> filter, period |-> period, taken |-> clock,
     records |-> list_events_including_archived(filter, period)]

\* GET /audit/export: auditor and admin, and at least one filter.
Export ==
    /\ Len(reports) < MaxReports
    /\ \E caller \in Callers, filter \in Filters :
         /\ require_roles(caller, {"AUDITOR", "ADMIN"})
         /\ DOMAIN filter # {} /\ DOMAIN filter \subseteq {"actor_id", "resource_id"}
         /\ reports' = Append(reports, Report(filter, [from |-> NULL, to |-> NULL]))
    /\ UNCHANGED <<events, nextId, pending, wall, walk>>

\* GET /audit/compliance/account-access.
ReportAccountAccess ==
    /\ Len(reports) < MaxReports
    /\ \E caller \in Callers, filter \in Filters, period \in Periods :
         /\ require_roles(caller, {"AUDITOR", "ADMIN"})
         /\ DOMAIN filter \subseteq {"actor_id", "resource_id"}
         /\ ValidRange(period)
         /\ reports' = Append(reports,
              Report([column \in DOMAIN filter \cup {"resource_type"} |->
                        IF column = "resource_type" THEN ACCOUNT_RESOURCE_TYPE
                                                    ELSE filter[column]], period))
    /\ UNCHANGED <<events, nextId, pending, wall, walk>>

\* What POST /audit/retention/apply archives now.
Outdated ==
    {id \in DOMAIN events : Active(id) /\ events[id].timestamp < clock - RetentionWindow}

\* archive_events_older_than.
ApplyRetention ==
    /\ RetentionRuns /\ Outdated # {}
    /\ events' = [id \in DOMAIN events |->
                    IF id \in Outdated THEN [events[id] EXCEPT !.archived_at = clock]
                                       ELSE events[id]]
    /\ walk' = IF walk = NULL THEN NULL
               ELSE [walk EXCEPT !.hidden = @ \cup Outdated]
    /\ UNCHANGED <<nextId, pending, wall, reports>>

Tick ==
    /\ clock < MaxTime
    /\ clock' = clock + 1
    /\ UNCHANGED <<events, nextId, pending, walk, reports, setBack>>

StepClockBack ==
    /\ ClockMayStepBack /\ clock > 0
    /\ clock' = clock - 1
    /\ setBack' = TRUE
    /\ UNCHANGED <<events, nextId, pending, walk, reports>>

Next ==
    \/ StageRow \/ CommitRow \/ DropRow
    \/ StartWalk \/ ReadPage \/ EndWalk
    \/ Export \/ ReportAccountAccess
    \/ ApplyRetention
    \/ Tick \/ StepClockBack

Spec == Init /\ [][Next]_vars

-----------------------------------------------------------------------------
(* Correctness.                                                            *)

Shown == UNION {walk.pages[n] : n \in DOMAIN walk.pages}

\* Types: rows, and a walk whose pages fill up but for the last.
TypeOK ==
    /\ DOMAIN events \subseteq 1..(nextId - 1) /\ nextId \in 1..(MaxId + 1)
    /\ clock \in 0..MaxTime /\ setBack \in BOOLEAN
    /\ \A id \in DOMAIN events : /\ events[id].timestamp \in 0..MaxTime
                                 /\ events[id].archived_at \in (0..MaxTime) \cup {NULL}
    /\ walk # NULL =>
         /\ walk.caller \in Callers /\ walk.limit \in Limits
         /\ \A n \in DOMAIN walk.pages : /\ walk.pages[n] \subseteq DOMAIN events
                                         /\ Cardinality(walk.pages[n]) <= walk.limit
                                         /\ n < Len(walk.pages) =>
                                              Cardinality(walk.pages[n]) = walk.limit

\* Pages come in chain order and never repeat a record, whatever is appended
\* or archived between two requests (list_events: "a deterministic,
\* predictable sequence across repeated requests, including across pages").
PagesAscend ==
    walk # NULL =>
      \A m, n \in DOMAIN walk.pages : (m < n) =>
        \A i \in walk.pages[m], j \in walk.pages[n] : i < j

\* A reader is never shown a record of another tenant, by whatever filters.
TenantScope ==
    (walk # NULL /\ RoleOf[walk.caller] = "READER") =>
      \A id \in Shown : events[id].tenant_id = TenantOf[walk.caller]

\* Records that were listed when the walk began, are active, and are not in
\* its pages.
Missed == {id \in walk.first : Active(id) /\ id \notin Shown}

\* A completed walk misses at most as many records as retention archived
\* among those it had been shown: without retention it misses none.
MissesAreBounded ==
    (walk # NULL /\ LastPageIsShort) =>
      Cardinality(Missed) <= Cardinality(walk.hidden \cap Shown)

\* An export or report stays true: one taken later with the same parameters
\* begins with the same entries, in the same order, and adds only newer
\* records, retention or not ("retention can't silently drop relevant
\* history from an export").
LaterReportsExtend ==
    \A m, n \in DOMAIN reports :
      (m < n /\ reports[m].filter = reports[n].filter /\ reports[m].period = reports[n].period) =>
        /\ reports[m].records \subseteq reports[n].records
        /\ \A old \in reports[m].records, new \in reports[n].records \ reports[m].records :
             old[1] < new[1]

\* A report on a period that was over when it was taken is final but for at
\* most one record: the one whose append had read the clock and not yet
\* committed.  The append lock admits no second one.  (A clock set back opens
\* the period again.)
ClosedPeriodsAreFinal ==
    setBack \/
    \A m, n \in DOMAIN reports :
      /\ m < n /\ reports[m].filter = reports[n].filter /\ reports[m].period = reports[n].period
      /\ reports[m].period.to # NULL /\ reports[m].period.to < reports[m].taken
      => Cardinality(reports[n].records \ reports[m].records) <= 1

-----------------------------------------------------------------------------
(* The inductive invariant behind these properties.                        *)

\* A row as it is staged and, with its hash, committed.
RowInv(row) ==
    /\ row = [column \in DOMAIN row |-> row[column]]
    /\ {"timestamp", "archived_at"} \subseteq DOMAIN row
    /\ row.timestamp \in 0..MaxTime /\ row.archived_at \in (0..MaxTime) \cup {NULL}
    /\ \E posted \in Rows : DOMAIN posted \subseteq DOMAIN row

RowsInv ==
    /\ DOMAIN events \subseteq 1..(nextId - 1) /\ nextId \in 1..(MaxId + 1)
    /\ clock \in 0..MaxTime /\ setBack \in BOOLEAN
    /\ \A id \in DOMAIN events : RowInv(events[id]) /\ "event_hash" \in DOMAIN events[id]
    /\ (pending # NULL) => (RowInv(pending) /\ nextId <= MaxId)

\* The columns of a query are columns of every row, so archived_at is none.
FilterInv(filter) == \A row \in Rows : DOMAIN filter \subseteq DOMAIN row

Matching(filter, period) == {id \in DOMAIN events : Matches(events[id], filter, period)}

\* A record that was shown stays in front of the next page: fewer records
\* are now listed before it than the pages up to its own have room for.
ShownInv(id, n) ==
    /\ id \in Matching(walk.filter, walk.period)
    /\ Active(id) \/ id \in walk.hidden
    /\ Cardinality({j \in Listed(walk.filter, walk.period) : j < id}) < walk.limit * n

WalkInv ==
    /\ DOMAIN walk = {"caller", "filter", "period", "limit", "pages", "first", "hidden"}
    /\ walk.caller \in Callers /\ walk.limit \in Limits
    /\ FilterInv(walk.filter)
    /\ (RoleOf[walk.caller] = "READER") =>
         ("tenant_id" \in DOMAIN walk.filter /\ walk.filter["tenant_id"] = TenantOf[walk.caller])
    /\ walk.first \subseteq Matching(walk.filter, walk.period)
    /\ walk.pages \in Seq(SUBSET Nat)
    /\ \A n \in DOMAIN walk.pages :
         /\ \A id \in walk.pages[n] : ShownInv(id, n)
         /\ Cardinality(walk.pages[n]) <= walk.limit
         /\ (n < Len(walk.pages)) => (Cardinality(walk.pages[n]) = walk.limit)
    /\ ~LastPageIsShort => (Cardinality(Shown) = walk.limit * Len(walk.pages))

\* Records that match a report and are not in it.
Late(report) ==
    {id \in Matching(report.filter, report.period) :
       <<id, events[id].event_hash>> \notin report.records}

\* They are all behind the report's own, and once its period is over there
\* is at most one: the row that was staged then.
ReportInv(report) ==
    /\ FilterInv(report.filter)
    /\ \A entry \in report.records :
         /\ entry[1] \in Matching(report.filter, report.period)
         /\ entry = <<entry[1], events[entry[1]].event_hash>>
    /\ \A id \in Late(report), entry \in report.records : entry[1] < id
    /\ report.period.to \in Nat \cup {NULL} /\ report.taken \in Nat
    /\ \/ setBack
       \/ /\ report.taken <= clock
          /\ (report.period.to # NULL /\ report.period.to < report.taken) =>
               \/ Late(report) = {}
               \/ /\ \E id \in DOMAIN events : Late(report) = {id}
                  /\ (pending # NULL) => (report.period.to < pending.timestamp)

IsSequence(s) == s \in Seq({s[n] : n \in DOMAIN s})

\* Inductive.
QueryIInv ==
    /\ RowsInv
    /\ (walk # NULL) => WalkInv
    /\ PagesAscend /\ MissesAreBounded
    /\ IsSequence(reports)
    /\ \A n \in DOMAIN reports : ReportInv(reports[n])
    /\ LaterReportsExtend /\ ClosedPeriodsAreFinal
=============================================================================
