------------------------- MODULE AuditServiceProofs -------------------------
(***************************************************************************)
(* Proofs about the running system: whatever sessions, redactions and      *)
(* retention do, what its readers can tell of it is a behaviour of         *)
(* AuditQuery, for every number of workers, redactors and users.           *)
(***************************************************************************)
EXTENDS AuditService, RedactionProofs

-----------------------------------------------------------------------------
(* The row that is staged, and the id it will have.                        *)

StagingPcs == {"insert"} \cup AfterInsert

\* StagedRow and NextVisibleId as functions of what they depend on.
Stagers(labels) == {w \in Workers : labels[w] \in StagingPcs}

StagedBy(labels, rows) ==
    IF Stagers(labels) = {} THEN NULL
    ELSE Readable(rows[CHOOSE w \in Stagers(labels) : TRUE], NULL)

VisibleIdBy(labels, next) ==
    IF \E w \in Workers : labels[w] \in AfterInsert THEN next - 1 ELSE next

\* The same in a state and in the next.
LEMMA StagedByDef ==
    /\ StagedRow = StagedBy(pc, staged) /\ StagedRow' = StagedBy(pc', staged')
    /\ NextVisibleId = VisibleIdBy(pc, nextId) /\ NextVisibleId' = VisibleIdBy(pc', nextId')
  BY DEF StagedRow, Staging, StagedBy, Stagers, StagingPcs, NextVisibleId, VisibleIdBy

\* One stager's row, or none.
LEMMA StagedByOne ==
  ASSUME NEW labels, NEW rows, NEW w \in Workers, labels[w] \in StagingPcs,
         \A v \in Workers : labels[v] \in StagingPcs => v = w
  PROVE  StagedBy(labels, rows) = Readable(rows[w], NULL)
  <1>1. Stagers(labels) = {w}
    BY DEF Stagers
  <1> QED
    BY <1>1 DEF StagedBy

\* Nobody's.
LEMMA StagedByNone ==
  ASSUME NEW labels, NEW rows, \A v \in Workers : labels[v] \notin StagingPcs
  PROVE  StagedBy(labels, rows) = NULL /\ \A next : VisibleIdBy(labels, next) = next
  BY DEF StagedBy, Stagers, VisibleIdBy, StagingPcs

\* Only which sessions stage a row matters of their labels.
LEMMA StagedBySame ==
  ASSUME NEW labels, NEW others, NEW rows,
         \A v \in Workers : (labels[v] \in StagingPcs) <=> (others[v] \in StagingPcs)
  PROVE  StagedBy(labels, rows) = StagedBy(others, rows)
  <1>1. Stagers(labels) = Stagers(others)
    BY DEF Stagers
  <1> QED
    BY <1>1 DEF StagedBy

\* Whoever stages a row holds the append lock, and so is alone.
LEMMA OneStages ==
  ASSUME RedIInv, NEW w \in Workers, pc[w] \in StagingPcs
  PROVE  lock = w /\ \A v \in Workers : pc[v] \in StagingPcs => v = w
  BY DEF RedIInv, SessionInv, AppendInv, UnderLock, StagingPcs, AfterInsert

\* What is staged is built from a client's event or a companion.
LEMMA StagedColumns ==
  ASSUME RedIInv, RedTypeOK, NEW w \in Workers, pc[w] \in {"compute"} \cup StagingPcs
  PROVE  /\ req[w].tenant_id \in Tenants
         /\ \E event_in \in Appended : /\ req[w].event_in.event_type = event_in.event_type
                                       /\ req[w].event_in.subject = event_in.subject
  <1>1. RequestInv(w) /\ ServingInv(w) /\ pc[w] \in UnderLock /\ pc[w] # "respond"
    BY DEF RedIInv, SessionInv, UnderLock, StagingPcs, AfterInsert
  <1>2. CASE ~Serving(w)
    BY <1>1, <1>2 DEF RequestInv, Appended
  <1>3. CASE Serving(w)
    <2>1. pc[w] \in PastRead
      BY <1>1, <1>3 DEF ServingInv, PastRead, StagingPcs, AfterInsert
    <2>2. red[w].target \in 1..MaxId
      BY <1>1, <1>3, <2>1 DEF ServingInv, SeenInv, RedTypeOK
    <2>3. req[w].event_in = Companion(red[w]) /\ req[w].tenant_id \in Tenants
      BY <1>1, <1>3 DEF RequestInv
    <2>4. /\ Companion(red[w]).event_type = Verification!REDACTION_EVENT_TYPE
          /\ Companion(red[w]).subject = <<Admin, "AUDIT_EVENT", red[w].target>>
      BY DEF Companion
    <2> DEFINE event_in == [event_type |-> Verification!REDACTION_EVENT_TYPE,
                            subject    |-> <<Admin, "AUDIT_EVENT", red[w].target>>]
    <2>5. event_in \in Appended
      BY <2>2 DEF Appended
    <2> QED
      BY <2>3, <2>4, <2>5
  <1> QED
    BY <1>2, <1>3

\* So it is a row.
LEMMA StagedIsRow ==
  ASSUME RedIInv, RedTypeOK, NEW w \in Workers, pc[w] \in StagingPcs
  PROVE  Readable(staged[w], NULL) # NULL
  <1>1. PICK event_in \in Appended : /\ req[w].event_in.event_type = event_in.event_type
                                     /\ req[w].event_in.subject = event_in.subject
    BY StagedColumns
  <1>2. req[w].tenant_id \in Tenants
    BY StagedColumns
  <1>3. /\ staged[w] = AuditEvent(req[w], staged[w].timestamp, staged[w].previous_hash)
        /\ staged[w].timestamp \in 0..MaxTime
    BY DEF RedIInv, SessionInv, AppendInv, StagingPcs, AfterInsert
  <1> DEFINE row == [tenant_id |-> req[w].tenant_id, timestamp |-> staged[w].timestamp,
                     event_type |-> event_in.event_type, subject |-> event_in.subject]
  <1>4. /\ staged[w].tenant_id = row.tenant_id /\ staged[w].timestamp = row.timestamp
        /\ staged[w].event_type = row.event_type /\ staged[w].subject = row.subject
    BY <1>1, <1>3 DEF AuditEvent
  <1>5. Readable(staged[w], NULL) = Readable(row, NULL)
    BY <1>4 DEF Readable
  <1> QED
    BY <1>2, <1>3, <1>5, NullRowAssumption

-----------------------------------------------------------------------------
(* Steps that readers cannot tell.                                         *)

\* What a reader can tell of the write path.
Visible == <<ReadableEvents, NextVisibleId, StagedRow, clock>>

\* A step of session w that changes no row, and stages or drops none.
Quietly(w) ==
    /\ UNCHANGED <<events, nextId, clock>>
    /\ \E label : pc' = [pc EXCEPT ![w] = label] /\ label \notin StagingPcs
    /\ pc[w] \notin StagingPcs
    /\ \A v \in Workers \ {w} : staged'[v] = staged[v]

\* Nobody can tell.
LEMMA QuietStep ==
  ASSUME RedIInv, NEW w \in Workers, Quietly(w)
  PROVE  UNCHANGED Visible
  <1>1. pc \in [Workers -> RedPcValues]
    BY DEF RedIInv
  <1>2. \A v \in Workers : /\ (pc'[v] \in StagingPcs) <=> (pc[v] \in StagingPcs)
                           /\ (pc'[v] \in AfterInsert) <=> (pc[v] \in AfterInsert)
    BY <1>1 DEF Quietly, StagingPcs
  <1>3. NextVisibleId' = NextVisibleId
    BY <1>2 DEF Quietly, NextVisibleId
  <1>4. StagedBy(pc', staged') = StagedBy(pc, staged)
    <2>1. CASE \A v \in Workers : pc[v] \notin StagingPcs
      BY <1>2, <2>1, StagedByNone
    <2>2. ASSUME NEW u \in Workers, pc[u] \in StagingPcs PROVE StagedBy(pc', staged') = StagedBy(pc, staged)
      <3>1. \A v \in Workers : pc[v] \in StagingPcs => v = u
        BY <2>2, OneStages
      <3>2. u # w
        BY <2>2 DEF Quietly
      <3>3. staged'[u] = staged[u]
        BY <3>2 DEF Quietly
      <3>4. StagedBy(pc, staged) = Readable(staged[u], NULL)
        BY <2>2, <3>1, StagedByOne
      <3>5. StagedBy(pc', staged') = Readable(staged'[u], NULL)
        BY <1>2, <2>2, <3>1, StagedByOne
      <3> QED
        BY <3>3, <3>4, <3>5
    <2> QED
      BY <2>1, <2>2
  <1>5. ReadableEvents' = ReadableEvents
    BY DEF Quietly, ReadableEvents
  <1> QED
    BY <1>3, <1>4, <1>5, StagedByDef DEF Visible, Quietly

\* The steps of requests that are quiet.
LEMMA QuietSteps ==
  ASSUME RedIInv, NEW w \in Workers,
         \/ BeginAppend(w) \/ BeginRedaction(w)
         \/ RedactionRefused(w) \/ ReadTarget(w) \/ BuildCompanion(w) \/ CompanionRejected(w)
         \/ LockForAppend(w) \/ KeyUnused(w) \/ Replay(w) \/ Conflict(w)
         \/ RespondToRedaction(w) \/ RespondToAppend(w) \/ CloseRequest(w)
         \/ (AbortRequest(w) /\ pc[w] \notin StagingPcs)
  PROVE  Quietly(w)
  <1> USE DEF Quietly, Goto, table, session, history, StagingPcs, AfterInsert
  <1>0. staged = [v \in Workers |-> staged[v]]
    BY DEF RedIInv
  <1>1. CASE BeginAppend(w) \/ BeginRedaction(w)
    BY <1>1 DEF BeginAppend, Begin, BeginRedaction
  <1>2. CASE RedactionRefused(w) \/ ReadTarget(w) \/ BuildCompanion(w) \/ CompanionRejected(w)
    BY <1>2 DEF RedactionRefused, ReadTarget, BuildCompanion, CompanionRejected
  <1>3. CASE LockForAppend(w) \/ KeyUnused(w) \/ Replay(w) \/ Conflict(w)
    BY <1>3 DEF LockForAppend, KeyUnused, Replay, Conflict
  <1>4. CASE RespondToRedaction(w) \/ RespondToAppend(w)
    BY <1>4 DEF RespondToRedaction, RespondToAppend, Respond
  <1>5. CASE CloseRequest(w)
    <2>1. Rollback(w) /\ UNCHANGED <<events, nextId, clock>> /\ pc[w] \notin StagingPcs
      BY <1>5 DEF CloseRequest, CloseSession
    <2>2. pc' = [pc EXCEPT ![w] = "idle"] /\ staged' = [staged EXCEPT ![w] = NULL]
      BY <2>1 DEF Rollback
    <2>3. \A v \in Workers \ {w} : staged'[v] = staged[v]
      BY <1>0, <2>2
    <2>4. "idle" \notin StagingPcs
      OBVIOUS
    <2> QED
      BY <2>1, <2>2, <2>3, <2>4, Zenon
  <1>6. CASE AbortRequest(w) /\ pc[w] \notin StagingPcs
    <2>1. Rollback(w) /\ UNCHANGED <<events, nextId, clock>> /\ pc[w] \notin StagingPcs
      BY <1>6 DEF AbortRequest, Abort
    <2>2. pc' = [pc EXCEPT ![w] = "idle"] /\ staged' = [staged EXCEPT ![w] = NULL]
      BY <2>1 DEF Rollback
    <2>3. \A v \in Workers \ {w} : staged'[v] = staged[v]
      BY <1>0, <2>2
    <2>4. "idle" \notin StagingPcs
      OBVIOUS
    <2> QED
      BY <2>1, <2>2, <2>3, <2>4, Zenon
  <1> QED
    BY <1>1, <1>2, <1>3, <1>4, <1>5, <1>6

-----------------------------------------------------------------------------
(* Ids.                                                                    *)

\* While a row is inserted and not committed, no other session takes an id.
LEMMA IdsInductive ==
  ASSUME RedIInv, IdsInv, [RedNext]_redVars
  PROVE  IdsInv'
  <1> SUFFICES ASSUME NEW v \in Workers, pc'[v] \in AfterInsert PROVE result'[v] = nextId' - 1
    BY DEF IdsInv
  <1> USE DEF Goto, table, session, history, AfterInsert
  <1>0. /\ pc \in [Workers -> RedPcValues] /\ result = [w \in Workers |-> result[w]]
        /\ nextId \in Nat
    BY DEF RedIInv, RecordsInv
  <1>1. ASSUME NEW w \in Workers, InsertEvent(w) PROVE result'[v] = nextId' - 1
    <2>1. CASE v = w
      BY <1>0, <1>1, <2>1 DEF InsertEvent
    <2>2. CASE v # w
      <3>1. pc[v] \in StagingPcs /\ pc[w] \in StagingPcs
        BY <1>0, <1>1, <2>2 DEF InsertEvent, StagingPcs
      <3> QED
        BY <2>2, <3>1, OneStages
    <2> QED
      BY <2>1, <2>2
  <1>2. ASSUME NEW w \in Workers, Quietly(w), \A u \in Workers \ {w} : result'[u] = result[u]
        PROVE  result'[v] = nextId' - 1
    BY <1>0, <1>2 DEF IdsInv, Quietly, StagingPcs
  <1>3. ASSUME NEW w \in Workers,
               \/ BeginAppend(w) \/ BeginRedaction(w)
               \/ RedactionRefused(w) \/ ReadTarget(w) \/ BuildCompanion(w) \/ CompanionRejected(w)
               \/ LockForAppend(w) \/ KeyUnused(w) \/ Replay(w) \/ Conflict(w)
               \/ RespondToRedaction(w) \/ RespondToAppend(w) \/ CloseRequest(w)
        PROVE  result'[v] = nextId' - 1
    <2>1. \A u \in Workers \ {w} : result'[u] = result[u]
      BY <1>0, <1>3 DEF BeginAppend, Begin, BeginRedaction, RedactionRefused, ReadTarget, BuildCompanion,
        CompanionRejected, LockForAppend, KeyUnused, Replay, Conflict, RespondToRedaction, RespondToAppend,
        Respond, CloseRequest, CloseSession, Rollback
    <2> QED
      BY <1>2, <1>3, <2>1, QuietSteps
  <1>4. ASSUME NEW w \in Workers, AbortRequest(w) PROVE result'[v] = nextId' - 1
    BY <1>0, <1>4 DEF IdsInv, AbortRequest, Abort, Rollback
  <1>5. ASSUME NEW w \in Workers,
               ComputeEvent(w) \/ RecordIdempotencyKey(w) \/ CommitAppend(w) \/ RewriteTarget(w)
        PROVE  result'[v] = nextId' - 1
    BY <1>0, <1>5 DEF IdsInv, ComputeEvent, RecordIdempotencyKey, CommitAppend, Commit, Published, RewriteTarget
  <1>6. CASE ApplyRetention \/ PassTime \/ UNCHANGED redVars
    BY <1>6 DEF IdsInv, ApplyRetention, PassTime, Tick, StepClockBack, redVars, vars
  <1> QED
    BY <1>1, <1>3, <1>4, <1>5, <1>6 DEF RedNext, RequestStep, AppendStep

-----------------------------------------------------------------------------
(* Steps that readers can tell.                                            *)

\* A row built from an event has the columns posted and those it is stamped with.
LEMMA StampedColumns ==
  ASSUME NEW tenant_id, NEW event_in, NEW row,
         row.tenant_id = tenant_id, row.event_type = event_in.event_type, row.subject = event_in.subject
  PROVE  Readable(row, NULL) =
           [column \in DOMAIN Posted(tenant_id, event_in) \cup {"timestamp", "archived_at"} |->
              CASE column = "timestamp"   -> row.timestamp
                [] column = "archived_at" -> NULL
                [] OTHER                  -> Posted(tenant_id, event_in)[column]]
  BY DEF Readable, Posted

\* An id is left for a session that has the lock and no row yet.
LEMMA RoomToStage ==
  ASSUME RedIInv, NEW w \in Workers, pc[w] = "compute"
  PROVE  /\ \A v \in Workers : pc[v] \notin StagingPcs
         /\ nextId <= MaxId
  <1>1. lock = w
    BY DEF RedIInv, SessionInv, AppendInv, UnderLock
  <1>2. ASSUME NEW v \in Workers, pc[v] \in StagingPcs PROVE FALSE
    <2>1. lock = v
      BY <1>2, OneStages
    <2> QED
      BY <1>1, <1>2, <2>1 DEF StagingPcs, AfterInsert
  <1>3. w \in Waiting
    BY DEF Waiting, Promised, BeforeInsert
  <1>4. Cardinality(Waiting \ {w}) = Cardinality(Waiting) - 1 /\ IsFiniteSet(Waiting \ {w})
    BY <1>3, WaitingIsFinite, FS_RemoveElement
  <1>5. Cardinality(Waiting) \in Nat /\ Cardinality(Waiting \ {w}) \in Nat
    BY <1>4, WaitingIsFinite, FS_CardinalityType
  <1>6. nextId + Cardinality(Waiting) <= MaxId + 1 /\ nextId \in Nat
    BY DEF RedIInv, RecordsInv, RoomInv, Waiting
  <1>7. nextId <= MaxId
    BY <1>4, <1>5, <1>6, BoundsAssumption
  <1> QED
    BY <1>2, <1>7

\* Under the lock, the timestamp and the row.
LEMMA ComputeIsStageRow ==
  ASSUME RedIInv, RedTypeOK, NEW w \in Workers, ComputeEvent(w), UNCHANGED <<walk, reports, setBack>>
  PROVE  Query!StageRow
  <1>1. PICK h, row : row = AuditEvent(req[w], clock, h) /\ staged' = [staged EXCEPT ![w] = row]
    BY DEF ComputeEvent
  <1>2. /\ pc[w] = "compute" /\ pc' = [pc EXCEPT ![w] = "insert"]
        /\ UNCHANGED <<events, nextId, clock>>
    BY DEF ComputeEvent, Goto, table
  <1>3. (\A v \in Workers : pc[v] \notin StagingPcs) /\ nextId <= MaxId
    BY <1>2, RoomToStage
  <1>4. pc \in [Workers -> RedPcValues] /\ staged = [v \in Workers |-> staged[v]]
    BY DEF RedIInv
  <1>5. /\ pc'[w] \in StagingPcs /\ staged'[w] = row
        /\ \A v \in Workers : pc'[v] \in StagingPcs => v = w
        /\ \A v \in Workers : pc'[v] \notin AfterInsert
    BY <1>1, <1>2, <1>3, <1>4 DEF StagingPcs, AfterInsert
  <1>6. StagedRow = NULL /\ NextVisibleId = nextId
    BY <1>3, StagedByNone, StagedByDef
  <1>7. StagedRow' = Readable(row, NULL)
    BY <1>5, StagedByOne, StagedByDef
  <1>8. NextVisibleId' = nextId
    BY <1>2, <1>5 DEF NextVisibleId
  <1>9. PICK event_in \in Appended : /\ req[w].event_in.event_type = event_in.event_type
                                     /\ req[w].event_in.subject = event_in.subject
    BY <1>2, StagedColumns
  <1>10. req[w].tenant_id \in Tenants
    BY <1>2, StagedColumns
  <1> DEFINE posted == Posted(req[w].tenant_id, event_in)
  <1>11. posted \in PostedRows
    BY <1>10 DEF PostedRows
  <1>12. /\ row.tenant_id = req[w].tenant_id /\ row.event_type = event_in.event_type
         /\ row.subject = event_in.subject /\ row.timestamp = clock
    BY <1>1, <1>9 DEF AuditEvent
  <1>13. StagedRow' = [column \in DOMAIN posted \cup {"timestamp", "archived_at"} |->
                        CASE column = "timestamp"   -> clock
                          [] column = "archived_at" -> NULL
                          [] OTHER                  -> posted[column]]
    BY <1>7, <1>12, StampedColumns
  <1>14. ReadableEvents' = ReadableEvents
    BY <1>2 DEF ReadableEvents
  <1> HIDE DEF posted
  <1> QED
    BY <1>2, <1>3, <1>6, <1>8, <1>11, <1>13, <1>14 DEF Query!StageRow, Query!wall

\* The insert takes the id that the row was going to have anyway.
LEMMA InsertIsInvisible ==
  ASSUME RedIInv, NEW w \in Workers, InsertEvent(w) \/ RecordIdempotencyKey(w)
  PROVE  UNCHANGED Visible
  <1> USE DEF Goto, table, session
  <1>1. /\ pc \in [Workers -> RedPcValues] /\ nextId \in Nat
        /\ pc[w] \in StagingPcs /\ \A v \in Workers : pc[v] \in StagingPcs => v = w
    BY OneStages DEF RedIInv, RecordsInv, InsertEvent, RecordIdempotencyKey, StagingPcs, AfterInsert
  <1>2. /\ pc'[w] \in AfterInsert /\ \A v \in Workers \ {w} : pc'[v] = pc[v]
        /\ UNCHANGED <<events, staged, clock>>
    BY <1>1 DEF InsertEvent, RecordIdempotencyKey, AfterInsert
  <1>3. pc'[w] \in StagingPcs /\ \A v \in Workers : pc'[v] \in StagingPcs => v = w
    BY <1>1, <1>2 DEF StagingPcs
  <1>4. StagedBy(pc', staged') = StagedBy(pc, staged)
    BY <1>1, <1>2, <1>3, StagedByOne
  <1>5. NextVisibleId' = NextVisibleId
    <2>1. CASE InsertEvent(w)
      <3>1. \A v \in Workers : pc[v] \notin AfterInsert
        BY <1>1, <2>1 DEF InsertEvent, StagingPcs, AfterInsert
      <3> QED
        BY <1>1, <1>2, <2>1, <3>1 DEF NextVisibleId, InsertEvent
    <2>2. CASE RecordIdempotencyKey(w)
      <3>1. pc[w] \in AfterInsert /\ nextId' = nextId
        BY <2>2 DEF RecordIdempotencyKey, AfterInsert
      <3> QED
        BY <1>2, <3>1 DEF NextVisibleId
    <2> QED
      BY <2>1, <2>2
  <1>6. ReadableEvents' = ReadableEvents
    BY <1>2 DEF ReadableEvents
  <1> QED
    BY <1>2, <1>4, <1>5, <1>6, StagedByDef DEF Visible

\* A commit shows the staged row behind all others, with the id it took.
LEMMA CommitIsCommitRow ==
  ASSUME RedIInv, RedTypeOK, IdsInv, NEW w \in Workers, CommitAppend(w),
         UNCHANGED <<walk, reports, setBack>>
  PROVE  Query!CommitRow
  <1>0. PICK id, row : id = result[w] /\ row = staged[w]
    OBVIOUS
  <1>1. /\ pc[w] = "commit" /\ pc' = [pc EXCEPT ![w] = "respond"] /\ UNCHANGED <<nextId, clock>>
    BY DEF CommitAppend, Commit, Goto
  <1>2. pc \in [Workers -> RedPcValues] /\ nextId \in Nat
    BY DEF RedIInv, RecordsInv
  <1>3. pc[w] \in StagingPcs /\ pc[w] \in AfterInsert /\ \A v \in Workers : pc[v] \in StagingPcs => v = w
    BY <1>1, OneStages DEF StagingPcs, AfterInsert
  <1>4. \A v \in Workers : pc'[v] \notin StagingPcs
    BY <1>1, <1>2, <1>3 DEF StagingPcs, AfterInsert
  <1>5. StagedRow = Readable(row, NULL) /\ StagedRow # NULL
    BY <1>0, <1>3, StagedByOne, StagedByDef, StagedIsRow
  <1>6. StagedRow' = NULL /\ NextVisibleId' = nextId
    BY <1>1, <1>4, StagedByNone, StagedByDef
  <1>7. NextVisibleId = id /\ id = nextId - 1
    BY <1>0, <1>3 DEF NextVisibleId, IdsInv
  <1>8. /\ id \notin DOMAIN events /\ DOMAIN events' = DOMAIN events \cup {id} /\ events'[id] = row
        /\ \A j \in DOMAIN events : events'[j] = events[j]
    BY <1>0, CommittedRows
  <1>9. row.archived_at = NULL
    <2>1. AppendInv(w)
      BY <1>1 DEF RedIInv, SessionInv, UnderLock
    <2>2. staged[w] = AuditEvent(req[w], staged[w].timestamp, staged[w].previous_hash)
      BY <1>1, <2>1 DEF AppendInv, AfterInsert
    <2>3. AuditEvent(req[w], staged[w].timestamp, staged[w].previous_hash).archived_at = NULL
      BY DEF AuditEvent
    <2> QED
      BY <1>0, <2>2, <2>3
  <1>10. ReadableEvent(id, row) =
           [column \in DOMAIN Readable(row, NULL) \cup {"event_hash"} |->
              IF column = "event_hash" THEN Query!Sha256(<<id, Readable(row, NULL)>>)
                                       ELSE Readable(row, NULL)[column]]
    <2>1. Query!Sha256(<<id, Readable(row, NULL)>>) = Sha256(<<id, Readable(row, NULL)>>)
      BY DEF Sha256, Query!Sha256
    <2> DEFINE hash == Sha256(<<id, Readable(row, NULL)>>)
    <2>2. ReadableEvent(id, row) =
            [tenant_id |-> row.tenant_id, event_type |-> row.event_type, actor_id |-> row.subject[1],
             resource_type |-> row.subject[2], resource_id |-> row.subject[3],
             timestamp |-> row.timestamp, archived_at |-> NULL, event_hash |-> hash]
      BY <1>9 DEF ReadableEvent
    <2> HIDE DEF hash
    <2>3. ReadableEvent(id, row) = [column \in DOMAIN Readable(row, NULL) \cup {"event_hash"} |->
              IF column = "event_hash" THEN hash ELSE Readable(row, NULL)[column]]
      BY <2>2 DEF Readable
    <2> QED
      BY <2>1, <2>3 DEF hash
  <1>11. ReadableEvents' = [j \in DOMAIN ReadableEvents \cup {id} |->
                             IF j # id THEN ReadableEvents[j] ELSE ReadableEvent(id, row)]
    BY <1>8 DEF ReadableEvents
  <1>12. nextId = id + 1
    BY <1>2, <1>7
  <1> QED
    BY <1>1, <1>5, <1>6, <1>7, <1>10, <1>11, <1>12 DEF Query!CommitRow, Query!wall

\* A rollback before or after the insert.
LEMMA AbortIsDropRow ==
  ASSUME RedIInv, RedTypeOK, NEW w \in Workers, AbortRequest(w), pc[w] \in StagingPcs,
         UNCHANGED <<walk, reports, setBack>>
  PROVE  Query!DropRow
  <1>1. pc' = [pc EXCEPT ![w] = "idle"] /\ UNCHANGED <<events, nextId, clock>>
    BY DEF AbortRequest, Abort, Rollback, Goto, table
  <1>2. pc \in [Workers -> RedPcValues] /\ nextId \in Nat
    BY DEF RedIInv, RecordsInv
  <1>3. \A v \in Workers : pc[v] \in StagingPcs => v = w
    BY OneStages
  <1>4. \A v \in Workers : pc'[v] \notin StagingPcs
    BY <1>1, <1>2, <1>3 DEF StagingPcs, AfterInsert
  <1>5. StagedRow # NULL
    BY <1>3, StagedByOne, StagedByDef, StagedIsRow
  <1>6. StagedRow' = NULL /\ NextVisibleId' = nextId
    BY <1>1, <1>4, StagedByNone, StagedByDef
  <1>7. nextId \in {NextVisibleId, NextVisibleId + 1}
    BY <1>2 DEF NextVisibleId
  <1>8. ReadableEvents' = ReadableEvents
    BY <1>1 DEF ReadableEvents
  <1> QED
    BY <1>1, <1>5, <1>6, <1>7, <1>8 DEF Query!DropRow, Query!wall

\* A redaction rewrites no column that a reader's query is about.
LEMMA RewriteIsInvisible ==
  ASSUME RedIInv, NEW w \in Workers, RewriteTarget(w)
  PROVE  UNCHANGED Visible /\ ArchivedNow = {}
  <1>1. PICK t, n : t = red[w].target /\ n = RedactedRow(events[t], red[w].seen, red[w].fields, red[w].now)
    OBVIOUS
  <1>2. /\ t \in DOMAIN events /\ DOMAIN events' = DOMAIN events /\ events'[t] = n
        /\ \A j \in DOMAIN events \ {t} : events'[j] = events[j]
    BY <1>1, RewrittenRows
  <1>3. DOMAIN events[t] = Columns
    BY <1>2 DEF RedIInv, RecordsInv, RowInv
  <1>4. \A column \in FrozenColumns \cup {"archived_at"} : n[column] = events[t][column]
    BY <1>1, <1>3, RedactedColumns
  <1>5. /\ n.tenant_id = events[t].tenant_id /\ n.event_type = events[t].event_type
        /\ n.subject = events[t].subject /\ n.timestamp = events[t].timestamp
        /\ n.archived_at = events[t].archived_at
    BY <1>4 DEF FrozenColumns
  <1>6. ReadableEvent(t, n) = ReadableEvent(t, events[t])
    BY <1>5 DEF ReadableEvent, Readable
  <1>7. \A j \in DOMAIN events : ReadableEvent(j, events'[j]) = ReadableEvent(j, events[j])
    BY <1>2, <1>6
  <1>8. ReadableEvents' = ReadableEvents
    BY <1>2, <1>7 DEF ReadableEvents
  <1>9. ArchivedNow = {}
    BY <1>2, <1>5 DEF ArchivedNow
  <1>10. /\ pc[w] = "rewrite" /\ pc' = [pc EXCEPT ![w] = "companion"]
         /\ UNCHANGED <<nextId, clock, staged>>
    BY DEF RewriteTarget, Goto, session
  <1>11. /\ \A v \in Workers : (pc'[v] \in StagingPcs) <=> (pc[v] \in StagingPcs)
         /\ \A v \in Workers : (pc'[v] \in AfterInsert) <=> (pc[v] \in AfterInsert)
    BY <1>10 DEF RedIInv, StagingPcs, AfterInsert
  <1>12. StagedBy(pc', staged') = StagedBy(pc, staged)
    <2>1. StagedBy(pc', staged) = StagedBy(pc, staged)
      BY <1>11, StagedBySame
    <2> QED
      BY <1>10, <2>1
  <1>13. NextVisibleId' = NextVisibleId
    BY <1>10, <1>11 DEF NextVisibleId
  <1> QED
    BY <1>8, <1>9, <1>10, <1>12, <1>13, StagedByDef DEF Visible

\* Retention archives what readers call outdated.
LEMMA RetentionIsRetention ==
  ASSUME RedIInv, ApplyRetention, UNCHANGED <<reports, setBack>>,
         walk' = (IF walk = NULL \/ ArchivedNow = {} THEN walk
                  ELSE [walk EXCEPT !.hidden = @ \cup ArchivedNow])
  PROVE  Query!ApplyRetention
  <1> DEFINE old == {id \in DOMAIN events : /\ events[id].archived_at = NULL
                                            /\ events[id].timestamp < clock - RetentionWindow}
  <1>1. /\ old # {} /\ DOMAIN events' = DOMAIN events
        /\ \A id \in old : events'[id] = [events[id] EXCEPT !.archived_at = clock]
        /\ \A id \in DOMAIN events \ old : events'[id] = events[id]
        /\ UNCHANGED <<nextId, clock, pc, staged>>
    BY Zenon DEF ApplyRetention, session
  <1>2. \A id \in DOMAIN events : ReadableEvents[id] = ReadableEvent(id, events[id])
    BY DEF ReadableEvents
  <1>3. \A id \in DOMAIN events : /\ ReadableEvents[id].archived_at = events[id].archived_at
                                  /\ ReadableEvents[id].timestamp = events[id].timestamp
    <2>1. ASSUME NEW id, NEW row
          PROVE  /\ ReadableEvent(id, row).archived_at = row.archived_at
                 /\ ReadableEvent(id, row).timestamp = row.timestamp
      BY DEF ReadableEvent
    <2> QED
      BY <1>2, <2>1
  <1>4. old = Query!Outdated
    <2>1. DOMAIN ReadableEvents = DOMAIN events
      BY DEF ReadableEvents
    <2> QED
      BY <1>3, <2>1 DEF Query!Outdated, Query!Active
  <1>5. clock \in 0..MaxTime /\ clock # NULL
    BY NullTimeAssumption, BoundsAssumption DEF RedIInv, RecordsInv
  <1>6. ASSUME NEW id \in old
        PROVE  /\ events'[id].archived_at = clock
               /\ ReadableEvent(id, events'[id]) = [ReadableEvents[id] EXCEPT !.archived_at = clock]
    <2>1. PICK n : n = [events[id] EXCEPT !.archived_at = clock]
      OBVIOUS
    <2>2. DOMAIN events[id] = Columns
      BY DEF RedIInv, RecordsInv, RowInv
    <2>3. /\ n.tenant_id = events[id].tenant_id /\ n.event_type = events[id].event_type
          /\ n.subject = events[id].subject /\ n.timestamp = events[id].timestamp
          /\ n.archived_at = clock
      BY <2>1, <2>2 DEF Columns, FrozenColumns
    <2>4. Readable(n, NULL) = Readable(events[id], NULL)
      BY <2>3 DEF Readable
    <2> DEFINE hash == Sha256(<<id, Readable(events[id], NULL)>>)
    <2>5. /\ ReadableEvent(id, n) =
               [tenant_id |-> events[id].tenant_id, event_type |-> events[id].event_type,
                actor_id |-> events[id].subject[1], resource_type |-> events[id].subject[2],
                resource_id |-> events[id].subject[3], timestamp |-> events[id].timestamp,
                archived_at |-> clock, event_hash |-> hash]
          /\ ReadableEvent(id, events[id]) =
               [tenant_id |-> events[id].tenant_id, event_type |-> events[id].event_type,
                actor_id |-> events[id].subject[1], resource_type |-> events[id].subject[2],
                resource_id |-> events[id].subject[3], timestamp |-> events[id].timestamp,
                archived_at |-> events[id].archived_at, event_hash |-> hash]
      BY <2>3, <2>4 DEF ReadableEvent
    <2> HIDE DEF hash
    <2>6. ReadableEvent(id, n) = [ReadableEvent(id, events[id]) EXCEPT !.archived_at = clock]
      BY <2>5
    <2> QED
      BY <1>1, <1>2, <2>1, <2>3, <2>6
  <1> HIDE DEF old
  <1>7. old \subseteq DOMAIN events
    BY DEF old
  <1>8. ReadableEvents' = [id \in DOMAIN ReadableEvents |->
                            IF id \in old THEN [ReadableEvents[id] EXCEPT !.archived_at = clock]
                                          ELSE ReadableEvents[id]]
    <2>1. ReadableEvents' = [id \in DOMAIN events |-> ReadableEvent(id, events'[id])]
      BY <1>1 DEF ReadableEvents
    <2>2. \A id \in DOMAIN events :
            ReadableEvent(id, events'[id]) = IF id \in old THEN [ReadableEvents[id] EXCEPT !.archived_at = clock]
                                                           ELSE ReadableEvents[id]
      BY <1>1, <1>2, <1>6
    <2>3. DOMAIN ReadableEvents = DOMAIN events
      BY DEF ReadableEvents
    <2> QED
      BY <2>1, <2>2, <2>3
  <1>9. ArchivedNow = old
    <2>1. \A id \in old : events[id].archived_at = NULL /\ events'[id].archived_at # NULL
      BY <1>5, <1>6 DEF old
    <2>2. \A id \in DOMAIN events \ old : events'[id].archived_at = events[id].archived_at
      BY <1>1
    <2> QED
      BY <1>7, <2>1, <2>2 DEF ArchivedNow
  <1>10. walk' = IF walk = NULL THEN NULL ELSE [walk EXCEPT !.hidden = @ \cup old]
    BY <1>1, <1>9
  <1>11. StagedRow' = StagedRow /\ NextVisibleId' = NextVisibleId
    BY <1>1, StagedByDef
  <1> QED
    BY <1>1, <1>4, <1>8, <1>10, <1>11 DEF Query!ApplyRetention, Query!wall

\* The clock's steps are the same.
LEMMA TimeIsTime ==
  ASSUME RedIInv, PassTime, UNCHANGED <<walk, reports>>,
         setBack' = (IF clock' < clock THEN TRUE ELSE setBack)
  PROVE  Query!Tick \/ Query!StepClockBack
  <1>1. UNCHANGED <<events, nextId, pc, staged>>
    BY DEF PassTime, Tick, StepClockBack, table, session
  <1>2. ReadableEvents' = ReadableEvents /\ StagedRow' = StagedRow /\ NextVisibleId' = NextVisibleId
    BY <1>1, StagedByDef DEF ReadableEvents
  <1>3. clock \in Nat
    BY BoundsAssumption DEF RedIInv, RecordsInv
  <1>4. CASE Tick
    <2>0. clock < MaxTime /\ clock' = clock + 1
      BY <1>4 DEF Tick
    <2>1. ~(clock' < clock)
      BY <1>3, <2>0
    <2>2. setBack' = setBack
      BY <2>1, Zenon
    <2> QED
      BY <1>2, <2>0, <2>2 DEF Query!Tick
  <1>5. CASE StepClockBack
    <2>1. ClockMayStepBack /\ clock > 0 /\ clock' = clock - 1 /\ setBack' = TRUE
      BY <1>3, <1>5 DEF StepClockBack
    <2> QED
      BY <1>2, <2>1 DEF Query!StepClockBack
  <1> QED
    BY <1>4, <1>5 DEF PassTime

-----------------------------------------------------------------------------
(* The system implements AuditQuery.                                       *)

\* A step that changes no row archives none.
LEMMA NothingArchived ==
  ASSUME UNCHANGED events
  PROVE  ArchivedNow = {}
  BY DEF ArchivedNow

\* Every step of a writer, of retention or of the clock is one of AuditQuery,
\* or none a reader can tell.
LEMMA WriteStepIsQueryStep ==
  ASSUME RedIInv, RedTypeOK, IdsInv, WriteStep
  PROVE  [Query!Next]_(Query!vars)
  <1>0. UNCHANGED reports
    BY DEF WriteStep
  <1>1. /\ walk' = (IF walk = NULL \/ ArchivedNow = {} THEN walk
                   ELSE [walk EXCEPT !.hidden = @ \cup ArchivedNow])
        /\ setBack' = (IF clock' < clock THEN TRUE ELSE setBack)
    BY Zenon DEF WriteStep
  <1>2. clock \in Nat
    BY BoundsAssumption DEF RedIInv, RecordsInv
  <1>3. ASSUME ArchivedNow = {} PROVE walk' = walk
    BY <1>1, <1>3, Zenon
  <1>4. ASSUME UNCHANGED clock PROVE setBack' = setBack
    <2>1. ~(clock' < clock)
      BY <1>2, <1>4
    <2> QED
      BY <1>1, <2>1, Zenon
  <1>5. ASSUME UNCHANGED Visible, ArchivedNow = {} PROVE UNCHANGED Query!vars
    <2>1. UNCHANGED <<ReadableEvents, NextVisibleId, StagedRow, clock>>
      BY <1>5 DEF Visible
    <2>2. walk' = walk /\ setBack' = setBack
      BY <1>3, <1>4, <1>5, <2>1
    <2> QED
      BY <1>0, <2>1, <2>2 DEF Query!vars, Query!wall
  <1>6. ASSUME NEW w \in Workers, Quietly(w) PROVE UNCHANGED Query!vars
    BY <1>5, <1>6, QuietStep, NothingArchived DEF Quietly
  <1>7. ASSUME NEW w \in Workers,
               BeginAppend(w) \/ BeginRedaction(w) \/ RequestStep(w) \/ AbortRequest(w)
        PROVE  Query!Next \/ UNCHANGED Query!vars
    <2>1. CASE ComputeEvent(w)
      <3>1. UNCHANGED <<events, clock>>
        BY <2>1 DEF ComputeEvent, table
      <3> QED
        BY <1>0, <1>3, <1>4, <2>1, <3>1, NothingArchived, ComputeIsStageRow DEF Query!Next
    <2>2. CASE InsertEvent(w) \/ RecordIdempotencyKey(w)
      <3>1. UNCHANGED events
        BY <2>2 DEF InsertEvent, RecordIdempotencyKey, table
      <3> QED
        BY <1>5, <2>2, <3>1, NothingArchived, InsertIsInvisible
    <2>3. CASE CommitAppend(w)
      <3>1. UNCHANGED clock
        BY <2>3 DEF CommitAppend, Commit
      <3>2. \A j \in DOMAIN events : events'[j] = events[j]
        BY <2>3, CommittedRows
      <3>3. ArchivedNow = {}
        BY <3>2 DEF ArchivedNow
      <3> QED
        BY <1>0, <1>3, <1>4, <2>3, <3>1, <3>3, CommitIsCommitRow DEF Query!Next
    <2>4. CASE AbortRequest(w) /\ pc[w] \in StagingPcs
      <3>1. UNCHANGED <<events, clock>>
        BY <2>4 DEF AbortRequest, Abort, Rollback, table
      <3> QED
        BY <1>0, <1>3, <1>4, <2>4, <3>1, NothingArchived, AbortIsDropRow DEF Query!Next
    <2>5. CASE RewriteTarget(w)
      BY <1>5, <2>5, RewriteIsInvisible
    <2>6. CASE ~( \/ ComputeEvent(w) \/ InsertEvent(w) \/ RecordIdempotencyKey(w) \/ CommitAppend(w)
                  \/ (AbortRequest(w) /\ pc[w] \in StagingPcs) \/ RewriteTarget(w))
      <3>1. \/ BeginAppend(w) \/ BeginRedaction(w)
            \/ RedactionRefused(w) \/ ReadTarget(w) \/ BuildCompanion(w) \/ CompanionRejected(w)
            \/ LockForAppend(w) \/ KeyUnused(w) \/ Replay(w) \/ Conflict(w)
            \/ RespondToRedaction(w) \/ RespondToAppend(w) \/ CloseRequest(w)
            \/ (AbortRequest(w) /\ pc[w] \notin StagingPcs)
        BY <1>7, <2>6 DEF RequestStep, AppendStep
      <3>2. Quietly(w)
        BY <3>1, QuietSteps
      <3> QED
        BY <1>6, <3>2
    <2> QED
      BY <2>1, <2>2, <2>3, <2>4, <2>5, <2>6
  <1>8. CASE ApplyRetention
    <2>1. UNCHANGED clock
      BY <1>8 DEF ApplyRetention
    <2>2. setBack' = setBack
      BY <1>4, <2>1
    <2> QED
      BY <1>0, <1>1, <1>8, <2>2, RetentionIsRetention DEF Query!Next
  <1>9. CASE PassTime
    <2>1. UNCHANGED events
      BY <1>9 DEF PassTime, Tick, StepClockBack, table
    <2>2. walk' = walk
      BY <1>3, <2>1, NothingArchived
    <2>3. Query!Tick \/ Query!StepClockBack
      BY <1>0, <1>1, <1>9, <2>2, TimeIsTime
    <2> QED
      BY <2>3 DEF Query!Next
  <1>10. RedNext
    BY DEF WriteStep
  <1> QED
    BY <1>7, <1>8, <1>9, <1>10 DEF RedNext

\* A read is one.
LEMMA ReadStepIsQueryStep ==
  ASSUME ReadStep
  PROVE  Query!Next
  BY DEF ReadStep, Query!Next

\* When nothing happens, readers can tell nothing.
LEMMA StutterIsQueryStutter ==
  ASSUME UNCHANGED serviceVars
  PROVE  UNCHANGED Query!vars
  <1>1. UNCHANGED <<events, nextId, clock, pc, staged, walk, reports, setBack>>
    BY DEF serviceVars, redVars, vars, table, session
  <1>2. ReadableEvents' = ReadableEvents /\ StagedRow' = StagedRow /\ NextVisibleId' = NextVisibleId
    BY <1>1, StagedByDef DEF ReadableEvents
  <1> QED
    BY <1>1, <1>2 DEF Query!vars, Query!wall

\* The first state is AuditQuery's.
LEMMA ServiceInitIsQueryInit ==
  ASSUME ServiceInit
  PROVE  Query!Init
  <1>1. events = <<>> /\ nextId = 1 /\ clock = 0 /\ \A w \in Workers : pc[w] = "idle"
    BY DEF ServiceInit, RedInit, Init
  <1>2. \A w \in Workers : pc[w] \notin StagingPcs
    BY <1>1 DEF StagingPcs, AfterInsert
  <1>3. StagedRow = NULL /\ NextVisibleId = 1
    BY <1>1, <1>2, StagedByNone, StagedByDef
  <1>4. ReadableEvents = <<>>
    BY <1>1 DEF ReadableEvents
  <1> QED
    BY <1>1, <1>3, <1>4 DEF ServiceInit, Query!Init

\* The system's steps are the write path's, or change nothing of it.
LEMMA ServiceStepIsRedStep ==
  ASSUME [ServiceNext]_serviceVars
  PROVE  [RedNext]_redVars
  BY DEF ServiceNext, WriteStep, ReadStep, serviceVars

\* At first nobody has taken an id.
LEMMA IdsInitially ==
  ASSUME RedInit
  PROVE  IdsInv
  BY DEF RedInit, Init, IdsInv, AfterInsert

\* The write path of the running system is AuditRedaction's: reads change
\* nothing of it.
THEOREM ServiceWrites == ServiceSpec => RedSpec
  <1>1. ServiceInit => RedInit
    BY DEF ServiceInit
  <1>2. [ServiceNext]_serviceVars => [RedNext]_redVars
    BY ServiceStepIsRedStep
  <1> QED
    BY <1>1, <1>2, PTL DEF ServiceSpec, RedSpec

\* While a session's row is inserted and not committed, no other session
\* takes an id from the sequence: rows become visible in the order of ids.
THEOREM IdsAreCommittedInOrder == RedSpec => []IdsInv
  <1>1. RedInit => IdsInv
    BY IdsInitially
  <1>2. RedIInv /\ IdsInv /\ [RedNext]_redVars => IdsInv'
    BY IdsInductive
  <1>3. RedSpec => []RedIInv
    BY RedInvariance
  <1> QED
    BY <1>1, <1>2, <1>3, PTL DEF RedSpec

\* The running system, with any number of sessions, redactions and readers,
\* implements AuditQuery: what a reader can tell of the rows that it lists,
\* exports and reports is what AuditQuery says, although sessions interleave,
\* take ids before they commit, roll back and are redacted.
THEOREM ServiceRefinement == ServiceSpec => ImplementsQuery
  <1>1. ServiceInit => Query!Init
    BY ServiceInitIsQueryInit
  <1>2. RedIInv /\ RedTypeOK /\ IdsInv /\ [ServiceNext]_serviceVars => [Query!Next]_(Query!vars)
    BY WriteStepIsQueryStep, ReadStepIsQueryStep, StutterIsQueryStutter DEF ServiceNext
  <1>3. ServiceSpec => []RedIInv /\ []RedTypeOK /\ []IdsInv
    BY ServiceWrites, RedInvariance, RedTypeCorrect, IdsAreCommittedInOrder, PTL
  <1> QED
    BY <1>1, <1>2, <1>3, PTL DEF ServiceSpec, ImplementsQuery, Query!Spec

\* The same without readers.
THEOREM WritesRefinement == WritesSpec => ImplementsQuery
  <1>1. WritesSpec => ServiceSpec
    <2>1. [WriteStep]_serviceVars => [ServiceNext]_serviceVars
      BY DEF ServiceNext
    <2> QED
      BY <2>1, PTL DEF WritesSpec, ServiceSpec
  <1> QED
    BY <1>1, ServiceRefinement, PTL

-----------------------------------------------------------------------------
(* What was proved of AuditQuery, of the running system.                   *)

Reads == INSTANCE AuditQueryProofs WITH
    Rows          <- PostedRows,
    Callers       <- Users,
    RetentionRuns <- TRUE,
    events        <- ReadableEvents,
    nextId        <- NextVisibleId,
    pending       <- StagedRow

\* What AuditQuery assumes of its constants is so here.
LEMMA QueryAssumptions ==
    Query!QueryAssumption /\ Query!ColumnsAssumption /\ Query!PeriodsAssumption
  <1>1. Query!QueryAssumption
    BY ReadsAssumption, RetentionAssumption, BoundsAssumption, ClockAssumption DEF Query!QueryAssumption
  <1>2. ASSUME NEW row \in PostedRows PROVE DOMAIN row = PostedColumns
    BY <1>2 DEF PostedRows, Posted, PostedColumns
  <1>3. Query!ColumnsAssumption
    BY <1>2, FiltersAssumption DEF Query!ColumnsAssumption, PostedColumns
  <1>4. Query!PeriodsAssumption
    BY PeriodAssumption DEF Query!PeriodsAssumption
  <1> QED
    BY <1>1, <1>3, <1>4

\* The module of the proofs says the same as the module they are about, to
\* begin with of sizes.
LEMMA SameCardinality == \A S : Query!Cardinality(S) = Reads!Cardinality(S)
  BY DEF Query!Cardinality, Reads!Cardinality

\* Nothing else differs in the steps.
LEMMA SameSteps == Query!Next <=> Reads!Next
  <1> USE DEF Query!wall, Reads!wall, Query!Active, Reads!Active
  <1>1. Query!StageRow <=> Reads!StageRow
    BY DEF Query!StageRow, Reads!StageRow
  <1>2. Query!CommitRow <=> Reads!CommitRow
    BY DEF Query!CommitRow, Reads!CommitRow, Query!Sha256, Reads!Sha256
  <1>3. Query!DropRow <=> Reads!DropRow
    BY DEF Query!DropRow, Reads!DropRow
  <1>4. Query!StartWalk <=> Reads!StartWalk
    BY DEF Query!StartWalk, Reads!StartWalk, Query!Listed, Reads!Listed, Query!Matches, Reads!Matches,
      Query!require_roles, Reads!require_roles, Query!ValidRange, Reads!ValidRange, Query!Scope, Reads!Scope
  <1>5. Query!LastPageIsShort <=> Reads!LastPageIsShort
    BY SameCardinality DEF Query!LastPageIsShort, Reads!LastPageIsShort
  <1>6. Query!ReadPage <=> Reads!ReadPage
    <2>1. \A filter, period : Query!Listed(filter, period) = Reads!Listed(filter, period)
      BY DEF Query!Listed, Reads!Listed, Query!Matches, Reads!Matches
    <2>2. \A ids, limit, offset : Query!Page(ids, limit, offset) = Reads!Page(ids, limit, offset)
      BY SameCardinality DEF Query!Page, Reads!Page
    <2>3. Query!NextPage = Reads!NextPage
      BY <2>1, <2>2 DEF Query!NextPage, Reads!NextPage
    <2> QED
      BY <1>5, <2>3 DEF Query!ReadPage, Reads!ReadPage
  <1>7. Query!EndWalk <=> Reads!EndWalk
    BY <1>5 DEF Query!EndWalk, Reads!EndWalk
  <1>8. \A filter, period : Query!Report(filter, period) = Reads!Report(filter, period)
    BY DEF Query!Report, Reads!Report, Query!list_events_including_archived,
      Reads!list_events_including_archived, Query!Matches, Reads!Matches
  <1>9. Query!Export <=> Reads!Export
    BY <1>8 DEF Query!Export, Reads!Export, Query!require_roles, Reads!require_roles
  <1>10. Query!ReportAccountAccess <=> Reads!ReportAccountAccess
    BY <1>8 DEF Query!ReportAccountAccess, Reads!ReportAccountAccess, Query!require_roles,
      Reads!require_roles, Query!ValidRange, Reads!ValidRange, Query!ACCOUNT_RESOURCE_TYPE,
      Reads!ACCOUNT_RESOURCE_TYPE
  <1>11. Query!ApplyRetention <=> Reads!ApplyRetention
    BY DEF Query!ApplyRetention, Reads!ApplyRetention, Query!Outdated, Reads!Outdated
  <1>12. (Query!Tick <=> Reads!Tick) /\ (Query!StepClockBack <=> Reads!StepClockBack)
    BY DEF Query!Tick, Reads!Tick, Query!StepClockBack, Reads!StepClockBack
  <1> QED
    BY <1>1, <1>2, <1>3, <1>4, <1>6, <1>7, <1>9, <1>10, <1>11, <1>12 DEF Query!Next, Reads!Next

\* Nor in what is proved of them.
LEMMA SameProperties ==
    /\ Query!PagesAscend <=> Reads!PagesAscend
    /\ Query!TenantScope <=> Reads!TenantScope
    /\ Query!MissesAreBounded <=> Reads!MissesAreBounded
    /\ Query!LaterReportsExtend <=> Reads!LaterReportsExtend
    /\ Query!ClosedPeriodsAreFinal <=> Reads!ClosedPeriodsAreFinal
  <1>1. Query!PagesAscend <=> Reads!PagesAscend
    BY DEF Query!PagesAscend, Reads!PagesAscend
  <1>2. Query!TenantScope <=> Reads!TenantScope
    BY DEF Query!TenantScope, Reads!TenantScope, Query!Shown, Reads!Shown
  <1>3. Query!MissesAreBounded <=> Reads!MissesAreBounded
    <2>1. Query!Shown = Reads!Shown
      BY DEF Query!Shown, Reads!Shown
    <2>2. Query!Missed = Reads!Missed
      BY <2>1 DEF Query!Missed, Reads!Missed, Query!Active, Reads!Active
    <2>3. Query!LastPageIsShort <=> Reads!LastPageIsShort
      BY SameCardinality DEF Query!LastPageIsShort, Reads!LastPageIsShort
    <2> QED
      BY <2>1, <2>2, <2>3, SameCardinality DEF Query!MissesAreBounded, Reads!MissesAreBounded
  <1>4. Query!LaterReportsExtend <=> Reads!LaterReportsExtend
    BY DEF Query!LaterReportsExtend, Reads!LaterReportsExtend
  <1>5. Query!ClosedPeriodsAreFinal <=> Reads!ClosedPeriodsAreFinal
    BY SameCardinality DEF Query!ClosedPeriodsAreFinal, Reads!ClosedPeriodsAreFinal
  <1> QED
    BY <1>1, <1>2, <1>3, <1>4, <1>5

\* Readers of the running system, whatever is appended, redacted, archived,
\* rolled back or cut off under way: pages come in chain order and repeat no
\* record, a READER's listing holds its tenant's records only, a walk misses
\* no more than retention hid of it, a later report extends an earlier one,
\* and one on a closed period gains at most the row that was staged.
THEOREM ServiceReads ==
    ServiceSpec => [](/\ Query!PagesAscend /\ Query!TenantScope /\ Query!MissesAreBounded
                      /\ Query!LaterReportsExtend /\ Query!ClosedPeriodsAreFinal)
  <1> USE QueryAssumptions DEF Query!QueryAssumption, Query!ColumnsAssumption, Query!PeriodsAssumption
  <1>1. Reads!Spec => []Reads!PagesAscend
    BY Reads!PagesInOrder
  <1>2. Reads!Spec => []Reads!TenantScope
    BY Reads!ReadersStayInTheirTenant
  <1>3. Reads!Spec => []Reads!MissesAreBounded
    BY Reads!MissesBounded
  <1>4. Reads!Spec => []Reads!LaterReportsExtend
    BY Reads!LaterReportsAgree
  <1>5. Reads!Spec => []Reads!ClosedPeriodsAreFinal
    BY Reads!ClosedPeriodsFinal
  <1>6. Query!Spec => Reads!Spec
    <2>1. Query!Init => Reads!Init
      BY DEF Query!Init, Reads!Init
    <2>2. [Query!Next]_(Query!vars) => [Reads!Next]_(Reads!vars)
      BY SameSteps DEF Query!vars, Reads!vars, Query!wall, Reads!wall
    <2> QED
      BY <2>1, <2>2, PTL DEF Query!Spec, Reads!Spec
  <1>7. ServiceSpec => Query!Spec
    BY ServiceRefinement DEF ImplementsQuery
  <1> QED
    BY <1>1, <1>2, <1>3, <1>4, <1>5, <1>6, <1>7, SameProperties, PTL
=============================================================================
