-------------------------- MODULE RedactionProofs --------------------------
(***************************************************************************)
(* Proofs about the write path with redaction and retention, for every     *)
(* number of workers and redactors, overlapping redactions, redactions of  *)
(* companions, crashes, and a clock that may be set back: RedIInv is       *)
(* inductive, and the safety properties follow.                            *)
(***************************************************************************)
EXTENDS AuditRedaction, FiniteSetTheorems, TLAPS

-----------------------------------------------------------------------------
(* What may change in committed rows, and what depends on it.              *)

\* No row comes or goes, and none changes in what its hash was computed from.
FrozenRows ==
    /\ DOMAIN events' = DOMAIN events
    /\ \A id \in DOMAIN events : \A column \in FrozenColumns :
         events'[id][column] = events[id][column]

\* The frozen columns one by one.
LEMMA FrozenFields ==
  ASSUME FrozenRows, NEW id \in DOMAIN events
  PROVE  /\ events'[id].tenant_id = events[id].tenant_id
         /\ events'[id].event_type = events[id].event_type
         /\ events'[id].subject = events[id].subject
         /\ events'[id].timestamp = events[id].timestamp
         /\ events'[id].previous_hash = events[id].previous_hash
         /\ events'[id].event_hash = events[id].event_hash
  BY DEF FrozenRows, FrozenColumns

\* What a session reads of the chain, and the first contents, stay.
LEMMA FrozenReads ==
  ASSUME FrozenRows
  PROVE  /\ \A h : IsPreviousHash(h)' <=> IsPreviousHash(h)
         /\ \A r : EventHashTaken(r)' <=> EventHashTaken(r)
         /\ \A id \in DOMAIN events : Original(id)' = Original(id)
  <1>1. \A id \in DOMAIN events : events'[id].event_hash = events[id].event_hash
    BY FrozenFields
  <1>2. DOMAIN events' = DOMAIN events
    BY DEF FrozenRows
  <1> QED
    BY <1>1, <1>2 DEF IsPreviousHash, IsLastEvent, EventHashTaken, Original, FirstContent

\* The clock goes on, or may be set back.
ClockMoves == clock' \in 0..MaxTime /\ (clock' >= clock \/ ClockMayStepBack)

\* What is committed stays in order when rows keep their frozen columns.
LEMMA FrozenRecords ==
  ASSUME RecordsInv, FrozenRows, UNCHANGED <<idem, origin>>, ClockMoves,
         nextId' \in Nat, nextId' >= nextId,
         \A id \in DOMAIN events : RowInv(events'[id]),
         interrupted' \subseteq DOMAIN events
  PROVE  RecordsInv'
  <1>1. DOMAIN events' = DOMAIN events
    BY DEF FrozenRows
  <1>2. /\ DOMAIN events' \subseteq Nat \ {0} /\ nextId' \in Nat \ {0} /\ clock' \in 0..MaxTime
        /\ \A id \in DOMAIN events' : RowInv(events'[id])
        /\ interrupted' \subseteq DOMAIN events'
    BY <1>1 DEF RecordsInv, ClockMoves
  <1>3. IdInv'
    <2>1. \A id \in DOMAIN events : id < nextId'
      BY <1>1 DEF RecordsInv, IdInv
    <2>2. \A id \in DOMAIN events : events'[id].timestamp <= clock' \/ ClockMayStepBack
      <3> SUFFICES ASSUME NEW id \in DOMAIN events, ~ClockMayStepBack
                   PROVE  events'[id].timestamp <= clock'
        BY ClockAssumption
      <3>1. events[id].timestamp \in 0..MaxTime /\ events[id].timestamp <= clock
        BY DEF RecordsInv, IdInv, RowInv
      <3>2. clock \in 0..MaxTime /\ clock' \in 0..MaxTime /\ clock' >= clock
        BY DEF RecordsInv, ClockMoves
      <3> QED
        BY <3>1, <3>2, FrozenFields, BoundsAssumption
    <2>3. \A i, j \in DOMAIN events : events'[i].event_hash = events'[j].event_hash => i = j
      BY FrozenFields DEF RecordsInv, IdInv
    <2> QED
      BY <1>1, <2>1, <2>2, <2>3 DEF IdInv
  <1>4. RedKeyInv'
    <2>1. ASSUME NEW k \in idem
          PROVE  /\ k.event_id \in DOMAIN events'
                 /\ k.request_fingerprint = Sha256(Content(Original(k.event_id)'))
      BY <1>1, FrozenReads DEF RecordsInv, RedKeyInv
    <2> QED
      BY <1>1, <2>1 DEF RecordsInv, RedKeyInv, Content, RequestContent
  <1>5. LinearChain'
    <2>1. \A id \in DOMAIN events : /\ events'[id].event_hash = events[id].event_hash
                                    /\ events'[id].previous_hash = events[id].previous_hash
      BY FrozenFields
    <2> QED
      BY <1>1, <2>1 DEF RecordsInv, LinearChain, IsFirst, Adjacent
  <1>6. OneEventPerKey' /\ TimestampsFollowIds'
    BY <1>1, FrozenFields DEF RecordsInv, OneEventPerKey, TimestampsFollowIds
  <1> QED
    BY <1>2, <1>3, <1>4, <1>5, <1>6 DEF RecordsInv

\* A session that does nothing keeps what it relies on.
LEMMA SessionKeeps ==
  ASSUME RecordsInv, FrozenRows, UNCHANGED <<idem, origin>>, ClockMoves,
         nextId' \in Nat, nextId' >= nextId,
         NEW v \in Workers, SessionInv(v),
         pc'[v] = pc[v], req'[v] = req[v], staged'[v] = staged[v],
         result'[v] = result[v], red'[v] = red[v],
         (lock' = v) <=> (lock = v)
  PROVE  SessionInv(v)'
  <1>1. DOMAIN events' = DOMAIN events
    BY DEF FrozenRows
  <1>2. ServingInv(v)'
    <2>1. SeenInv(v) => SeenInv(v)'
      BY <1>1 DEF SeenInv, FrozenRows
    <2> QED
      BY <2>1 DEF SessionInv, ServingInv, Serving
  <1>3. RequestInv(v)'
    BY DEF SessionInv, RequestInv, Serving
  <1>4. AppendInv(v)'
    <2>1. /\ (pc'[v] \in UnderLock) => (lock' = v)
          /\ (lock' = v) => (pc'[v] \in UnderLock \cup {"respond", "close"})
      BY DEF SessionInv, AppendInv
    <2>2. ASSUME pc[v] \in {"insert", "record", "commit"}
          PROVE  /\ IsPreviousHash(staged[v].previous_hash)'
                 /\ staged'[v] = AuditEvent(req'[v], staged'[v].timestamp, staged'[v].previous_hash)
                 /\ staged'[v].timestamp \in 0..MaxTime
                 /\ staged'[v].timestamp <= clock' \/ ClockMayStepBack
                 /\ \A id \in DOMAIN events' :
                      events'[id].timestamp <= staged'[v].timestamp \/ ClockMayStepBack
      <3>1. IsPreviousHash(staged[v].previous_hash)'
        BY <2>2, FrozenReads DEF SessionInv, AppendInv, IsPreviousHash, IsLastEvent
      <3>2. /\ staged[v].timestamp \in 0..MaxTime /\ clock \in 0..MaxTime
            /\ staged[v].timestamp <= clock \/ ClockMayStepBack
        BY <2>2 DEF SessionInv, AppendInv, RecordsInv
      <3>3. staged[v].timestamp <= clock' \/ ClockMayStepBack
        BY <3>2, BoundsAssumption DEF ClockMoves
      <3> QED
        BY <1>1, <2>2, <3>1, <3>2, <3>3, FrozenFields DEF SessionInv, AppendInv
    <2>3. ASSUME pc[v] \in AfterInsert
          PROVE  /\ result'[v] \in Nat \ {0} /\ result'[v] < nextId'
                 /\ \A id \in DOMAIN events' : id < result'[v]
                 /\ ~EventHashTaken(staged[v])'
      <3>1. ~EventHashTaken(staged[v])
        BY <2>3 DEF SessionInv, AppendInv
      <3>2. ~EventHashTaken(staged[v])'
        BY <3>1, <1>1, FrozenFields DEF EventHashTaken
      <3>3. result[v] \in Nat \ {0} /\ result[v] < nextId' /\ \A id \in DOMAIN events : id < result[v]
        BY <2>3 DEF SessionInv, AppendInv, RecordsInv
      <3> QED
        BY <1>1, <3>2, <3>3
    <2>4. (pc'[v] \in {"compute", "insert", "record", "commit"} /\ req'[v].key # NULL) =>
            ~IdempotencyKeyTaken(req[v])'
      BY DEF SessionInv, AppendInv, IdempotencyKeyTaken, get_idempotency_record
    <2>5. (pc'[v] = "respond") =>
            /\ result'[v] \in DOMAIN events'
            /\ Content(Original(result[v])') = RequestContent(req'[v].tenant_id, req'[v].event_in)
            /\ (req'[v].key # NULL) =>
                 (origin'[result'[v]] = [username |-> req'[v].username, key |-> req'[v].key])
      BY <1>1, FrozenReads DEF SessionInv, AppendInv
    <2> QED
      BY <2>1, <2>2, <2>3, <2>4, <2>5 DEF AppendInv
  <1> QED
    BY <1>2, <1>3, <1>4 DEF SessionInv

-----------------------------------------------------------------------------
(* Ids.                                                                    *)

Waiting == {v \in Workers : pc[v] \in Promised}

\* Finitely many requests wait for an id.
LEMMA WaitingIsFinite == IsFiniteSet(Waiting) /\ Cardinality(Waiting) \in Nat
  <1>1. Waiting \subseteq Workers
    BY DEF Waiting
  <1> QED
    BY <1>1, ThreadsAssumption, FS_Subset, FS_CardinalityType

\* A request that is promised no id leaves room for the others.
LEMMA RoomKept ==
  ASSUME RoomInv, nextId \in Nat, UNCHANGED nextId, \A v \in Workers : pc'[v] \in Promised => pc[v] \in Promised
  PROVE  RoomInv'
  <1>1. Waiting' \subseteq Waiting
    BY DEF Waiting
  <1>2. Cardinality(Waiting') <= Cardinality(Waiting) /\ Cardinality(Waiting') \in Nat
    BY <1>1, WaitingIsFinite, FS_Subset, FS_CardinalityType
  <1>3. nextId' + Cardinality(Waiting') <= MaxId + 1
    BY <1>2, WaitingIsFinite, BoundsAssumption DEF RoomInv, Waiting
  <1> QED
    BY <1>3 DEF RoomInv, Waiting

\* A request is accepted only if there is an id for it, too.
LEMMA RoomTaken ==
  ASSUME RoomForCompanion, nextId \in Nat, UNCHANGED nextId, NEW w \in Workers,
         \A v \in Workers \ {w} : pc'[v] = pc[v]
  PROVE  RoomInv'
  <1>1. Waiting' \subseteq Waiting \cup {w}
    BY DEF Waiting
  <1>2. /\ IsFiniteSet(Waiting \cup {w})
        /\ Cardinality(Waiting \cup {w}) <= Cardinality(Waiting) + 1
        /\ Cardinality(Waiting \cup {w}) \in Nat
    BY WaitingIsFinite, FS_AddElement, FS_CardinalityType
  <1>3. Cardinality(Waiting') <= Cardinality(Waiting) + 1 /\ Cardinality(Waiting') \in Nat
    BY <1>1, <1>2, WaitingIsFinite, FS_Subset, FS_CardinalityType
  <1>4. nextId + Cardinality(Waiting) <= MaxId
    BY DEF RoomForCompanion, Waiting
  <1>5. nextId' + Cardinality(Waiting') <= MaxId + 1
    BY <1>3, <1>4, WaitingIsFinite, BoundsAssumption
  <1> QED
    BY <1>5 DEF RoomInv, Waiting

\* A request that takes its id is no longer waiting for it.
LEMMA RoomUsed ==
  ASSUME RoomInv, nextId \in Nat, nextId' = nextId + 1, NEW w \in Workers,
         pc[w] \in Promised, pc'[w] \notin Promised,
         \A v \in Workers \ {w} : pc'[v] = pc[v]
  PROVE  RoomInv'
  <1>1. Waiting' = Waiting \ {w} /\ w \in Waiting
    BY DEF Waiting
  <1>2. Cardinality(Waiting') = Cardinality(Waiting) - 1
    BY <1>1, WaitingIsFinite, FS_RemoveElement
  <1>3. nextId' + Cardinality(Waiting') <= MaxId + 1
    BY <1>2, WaitingIsFinite, BoundsAssumption DEF RoomInv, Waiting
  <1> QED
    BY <1>3 DEF RoomInv, Waiting

-----------------------------------------------------------------------------
(* Steps.                                                                  *)

\* Session variables are functions on the workers.
Sessions ==
    /\ pc \in [Workers -> RedPcValues] /\ lock \in Workers \cup {NULL}
    /\ req = [w \in Workers |-> req[w]] /\ staged = [w \in Workers |-> staged[w]]
    /\ result = [w \in Workers |-> result[w]] /\ red = [w \in Workers |-> red[w]]

\* A step of session w that neither commits nor touches another session.
StepOf(w) ==
    /\ \A v \in Workers \ {w} :
         /\ pc'[v] = pc[v] /\ req'[v] = req[v] /\ staged'[v] = staged[v]
         /\ result'[v] = result[v] /\ red'[v] = red[v]
         /\ (lock' = v) <=> (lock = v)
    /\ UNCHANGED <<idem, clock, origin>>

\* What remains to be shown of such a step.
LEMMA OneSession ==
  ASSUME RedIInv, NEW w \in Workers, StepOf(w), Sessions', FrozenRows,
         nextId' \in Nat, nextId' >= nextId,
         \A id \in DOMAIN events : RowInv(events'[id]),
         interrupted' \subseteq DOMAIN events,
         SessionInv(w)', RoomInv'
  PROVE  RedIInv'
  <1>1. ClockMoves
    BY BoundsAssumption DEF ClockMoves, StepOf, RedIInv, RecordsInv
  <1>2. RecordsInv'
    BY <1>1, FrozenRecords DEF StepOf, RedIInv
  <1>3. ASSUME NEW v \in Workers PROVE SessionInv(v)'
    <2>1. CASE v = w
      BY <2>1
    <2>2. CASE v # w
      BY <1>1, <2>2, SessionKeeps DEF StepOf, RedIInv
    <2> QED
      BY <2>1, <2>2
  <1> QED
    BY <1>2, <1>3 DEF RedIInv, Sessions

\* Most steps leave the rows and the ids alone.
LEMMA OneSessionReads ==
  ASSUME RedIInv, NEW w \in Workers, StepOf(w), Sessions', UNCHANGED <<events, nextId>>,
         interrupted' \subseteq DOMAIN events,
         SessionInv(w)', pc'[w] \in Promised => pc[w] \in Promised
  PROVE  RedIInv'
  <1>1. FrozenRows /\ nextId' \in Nat /\ nextId' >= nextId
    BY DEF FrozenRows, RedIInv, RecordsInv
  <1>2. \A id \in DOMAIN events : RowInv(events'[id])
    BY DEF RedIInv, RecordsInv
  <1>3. RoomInv'
    BY RoomKept DEF StepOf, RedIInv, RecordsInv
  <1> QED
    BY <1>1, <1>2, <1>3, OneSession

\* The state before a step, for a session.
LEMMA Before ==
  ASSUME RedIInv, NEW w \in Workers
  PROVE  Sessions /\ SessionInv(w) /\ RecordsInv /\ RoomInv /\ nextId \in Nat
  BY DEF RedIInv, Sessions, RecordsInv

\* POST /audit/events arrives.
LEMMA BeginAppendStep ==
  ASSUME RedIInv, NEW w \in Workers, BeginAppend(w)
  PROVE  RedIInv'
  <1> USE DEF BeginAppend, Begin, Goto, table, session, history
  <1>0. Sessions /\ SessionInv(w) /\ RecordsInv /\ RoomInv /\ nextId \in Nat
    BY Before
  <1>1. /\ pc[w] = "idle" /\ pc' = [pc EXCEPT ![w] = "lock"]
        /\ req' = [req EXCEPT ![w] = req'[w]]
        /\ req'[w].tenant_id \in Tenants /\ req'[w].event_in \in Bodies
        /\ UNCHANGED <<table, lock, clock, staged, result, history, red, interrupted>>
    BY <1>0, UsersAssumption DEF Sessions
  <1>2. Sessions' /\ StepOf(w) /\ FrozenRows
    BY <1>0, <1>1 DEF Sessions, StepOf, FrozenRows, RedPcValues, PcValues
  <1>3. ~Serving(w) /\ ~Serving(w)' /\ lock' # w /\ pc'[w] = "lock"
    BY <1>0, <1>1 DEF SessionInv, ServingInv, Serving, AppendInv, UnderLock, Sessions
  <1>4. SessionInv(w)'
    BY <1>0, <1>1, <1>3 DEF SessionInv, ServingInv, RequestInv, AppendInv, UnderLock, AfterInsert
  <1>5. RoomInv'
    BY <1>0, <1>1, <1>2, RoomTaken DEF StepOf
  <1> QED
    BY <1>0, <1>1, <1>2, <1>4, <1>5, OneSession DEF RecordsInv

\* POST /audit/events/{id}/redact arrives.
LEMMA BeginRedactionStep ==
  ASSUME RedIInv, NEW w \in Workers, BeginRedaction(w)
  PROVE  RedIInv'
  <1> USE DEF BeginRedaction, Goto, table, session, history
  <1>0. Sessions /\ SessionInv(w) /\ RecordsInv /\ RoomInv /\ nextId \in Nat
    BY Before
  <1>1. /\ w \in Redactors /\ pc[w] = "idle" /\ pc' = [pc EXCEPT ![w] = "read"]
        /\ red' = [red EXCEPT ![w] = red'[w]]
        /\ red'[w].target \in Nat /\ red'[w].now = clock
        /\ DOMAIN red'[w] = DOMAIN NoRedaction
        /\ UNCHANGED <<table, lock, clock, session, history, interrupted>>
    <2>1. PICK target \in 1..MaxId, fields \in Fields, reason \in Reasons :
             red' = [red EXCEPT ![w] = [target |-> target, fields |-> fields,
                                        reason |-> reason, seen |-> NULL, now |-> clock]]
      OBVIOUS
    <2>2. /\ red'[w].target = target /\ red'[w].now = clock /\ red' = [red EXCEPT ![w] = red'[w]]
          /\ DOMAIN red'[w] = DOMAIN NoRedaction
      BY <1>0, <2>1 DEF Sessions, NoRedaction
    <2> QED
      BY <2>2, BoundsAssumption
  <1>2. Sessions' /\ StepOf(w) /\ FrozenRows
    BY <1>0, <1>1 DEF Sessions, StepOf, FrozenRows, RedPcValues
  <1>3. Serving(w)' /\ lock' # w /\ pc'[w] = "read" /\ red'[w].now \in 0..MaxTime
    BY <1>0, <1>1, NullTimeAssumption DEF SessionInv, Serving, AppendInv, UnderLock, Sessions, RecordsInv
  <1>4. SessionInv(w)'
    BY <1>1, <1>3 DEF SessionInv, ServingInv, PastRead, RequestInv, AppendInv, UnderLock, AfterInsert
  <1>5. RoomInv'
    BY <1>0, <1>1, <1>2, RoomTaken DEF StepOf
  <1> QED
    BY <1>0, <1>1, <1>2, <1>4, <1>5, OneSession DEF RecordsInv

\* A redaction is refused, its content is rejected, or it is answered.
LEMMA RedactionEndsStep ==
  ASSUME RedIInv, NEW w \in Workers,
         RedactionRefused(w) \/ CompanionRejected(w) \/ RespondToRedaction(w)
  PROVE  RedIInv'
  <1> USE DEF RedactionRefused, CompanionRejected, RespondToRedaction, Goto, table, session, history
  <1>0. Sessions /\ SessionInv(w) /\ RecordsInv /\ RoomInv /\ nextId \in Nat
    BY Before
  <1>1. /\ pc[w] \in {"read", "companion", "respond"} /\ pc' = [pc EXCEPT ![w] = "close"]
        /\ UNCHANGED <<table, lock, clock, session, history, red>>
    OBVIOUS
  <1>2. interrupted' \subseteq DOMAIN events
    <2>1. CASE CompanionRejected(w)
      BY <1>0, <2>1 DEF SessionInv, ServingInv, SeenInv, PastRead, RecordsInv
    <2> QED
      BY <1>0, <2>1 DEF RecordsInv
  <1>3. Sessions' /\ StepOf(w)
    BY <1>0, <1>1 DEF Sessions, StepOf, RedPcValues, PcValues
  <1>4. SessionInv(w)' /\ pc'[w] \notin Promised
    BY <1>0, <1>1 DEF Sessions, SessionInv, ServingInv, Serving, PastRead, RequestInv, AppendInv,
      UnderLock, AfterInsert, Promised, BeforeInsert
  <1> QED
    BY <1>1, <1>2, <1>3, <1>4, OneSessionReads

\* What ReadTarget notes down.
LEMMA NotedFields ==
  ASSUME NEW r, NEW fields, NEW row, DOMAIN r = DOMAIN NoRedaction
  PROVE  LET n == [r EXCEPT !.fields = fields, !.seen = row]
         IN  /\ DOMAIN n = DOMAIN NoRedaction
             /\ n.target = r.target /\ n.reason = r.reason /\ n.now = r.now
             /\ n.fields = fields /\ n.seen = row
  BY Zenon DEF NoRedaction

\* A field that is going to be redacted is in the row and not redacted yet.
LEMMA ReadTargetStep ==
  ASSUME RedIInv, NEW w \in Workers, ReadTarget(w)
  PROVE  RedIInv'
  <1> USE DEF Goto, table, session, history
  <1>0. Sessions /\ SessionInv(w) /\ RecordsInv /\ RoomInv /\ nextId \in Nat
    BY Before
  <1>1. PICK row, fields, n :
          /\ row = events[red[w].target] /\ fields = FieldsToRedact(row, red[w].fields)
          /\ n = [red[w] EXCEPT !.fields = fields, !.seen = row]
          /\ pc[w] = "read" /\ pc' = [pc EXCEPT ![w] = "rewrite"]
          /\ red[w].target \in DOMAIN events /\ fields # {}
          /\ red' = [red EXCEPT ![w] = n]
          /\ UNCHANGED <<table, lock, clock, session, history, interrupted>>
    BY Zenon DEF ReadTarget
  <1>2. fields \subseteq DOMAIN row.payload \ row.redacted_fields /\ RowInv(row)
    BY <1>0, <1>1 DEF FieldsToRedact, RecordsInv
  <1>3. Serving(w) /\ w \in Redactors /\ red[w].now \in 0..MaxTime /\ DOMAIN red[w] = DOMAIN NoRedaction
    BY <1>0, <1>1 DEF SessionInv, ServingInv
  <1>4. /\ DOMAIN n = DOMAIN NoRedaction
        /\ n.target = red[w].target /\ n.now = red[w].now /\ n.fields = fields /\ n.seen = row
    BY <1>1, <1>3, NotedFields
  <1>5. red'[w] = n /\ pc'[w] = "rewrite"
    BY <1>0, <1>1 DEF Sessions
  <1>6. Sessions' /\ StepOf(w)
    BY <1>0, <1>1 DEF Sessions, StepOf, RedPcValues, PcValues
  <1>7. ServingInv(w)'
    <2>1. SeenInv(w)'
      BY <1>1, <1>2, <1>4, <1>5 DEF SeenInv
    <2> QED
      BY <1>3, <1>4, <1>5, <2>1 DEF ServingInv, Serving
  <1>8. SessionInv(w)'
    BY <1>0, <1>1, <1>5, <1>7 DEF SessionInv, RequestInv, AppendInv, UnderLock, AfterInsert
  <1>9. interrupted' \subseteq DOMAIN events
    BY <1>0, <1>1 DEF RecordsInv
  <1> QED
    BY <1>1, <1>5, <1>6, <1>8, <1>9, OneSessionReads DEF Promised

\* What the UPDATE of a redaction leaves of a row: the four columns it sets
\* are computed from the row seen, the others stay.
LEMMA RedactedColumns ==
  ASSUME NEW row, NEW seen, NEW fields, NEW now, DOMAIN row = Columns
  PROVE  /\ DOMAIN RedactedRow(row, seen, fields, now) = Columns
         /\ \A column \in FrozenColumns \cup {"archived_at"} :
              RedactedRow(row, seen, fields, now)[column] = row[column]
         /\ RedactedRow(row, seen, fields, now).payload = RedactedPayload(seen, fields)
         /\ RedactedRow(row, seen, fields, now).redacted_fields = seen.redacted_fields \cup fields
         /\ RedactedRow(row, seen, fields, now).redacted_field_hashes = RedactedHashes(seen, fields)
         /\ RedactedRow(row, seen, fields, now).redacted_at = now
  BY Zenon DEF RedactedRow, Columns, FrozenColumns

\* However old the row it was computed from, a redacted row accounts for all
\* of its fields.
LEMMA RedactedRowInv ==
  ASSUME NEW row, NEW seen, NEW fields, NEW now \in 0..MaxTime,
         RowInv(row), RowInv(seen), \A column \in FrozenColumns : seen[column] = row[column],
         fields # {}, fields \subseteq DOMAIN seen.payload \ seen.redacted_fields
  PROVE  RowInv(RedactedRow(row, seen, fields, now))
  <1> DEFINE first == FirstContent(row)
  <1>1. PICK n : n = RedactedRow(row, seen, fields, now)
    OBVIOUS
  <1>2. DOMAIN row = Columns
    BY DEF RowInv
  <1>3. /\ DOMAIN n = Columns
        /\ \A column \in FrozenColumns \cup {"archived_at"} : n[column] = row[column]
        /\ n.payload = RedactedPayload(seen, fields)
        /\ n.redacted_fields = seen.redacted_fields \cup fields
        /\ n.redacted_field_hashes = RedactedHashes(seen, fields)
        /\ n.redacted_at = now
    BY <1>1, <1>2, RedactedColumns
  <1>4. /\ n.tenant_id = row.tenant_id /\ n.event_type = row.event_type
        /\ n.subject = row.subject /\ n.timestamp = row.timestamp
        /\ n.previous_hash = row.previous_hash /\ n.event_hash = row.event_hash
        /\ n.archived_at = row.archived_at /\ seen.event_hash = row.event_hash
    BY <1>3 DEF FrozenColumns
  <1>5. FirstContent(n) = first /\ FirstContent(seen) = first
    BY <1>4 DEF FirstContent
  <1>6. now # NULL /\ seen.redacted_fields \cup fields # {}
    BY NullTimeAssumption, BoundsAssumption
  <1> HIDE DEF first
  <1>7. AccountsForFields(seen) /\ DOMAIN seen.redacted_field_hashes = seen.redacted_fields
    BY DEF RowInv
  <1>8. AccountsForFields(n)
    <2>1. DOMAIN n.payload = DOMAIN first.payload /\ n.redacted_fields \subseteq DOMAIN first.payload
      BY <1>3, <1>5, <1>7 DEF AccountsForFields, RedactedPayload, RedactedHashes
    <2>2. ASSUME NEW f \in DOMAIN first.payload, f \in fields
          PROVE  /\ n.payload[f] = Marker
                 /\ n.redacted_field_hashes[f] = hash_field_value(first.payload[f])
      BY <1>3, <1>5, <1>7, <2>2 DEF AccountsForFields, RedactedPayload, RedactedHashes
    <2>3. ASSUME NEW f \in DOMAIN first.payload, f \notin fields, f \in seen.redacted_fields
          PROVE  /\ n.payload[f] = Marker
                 /\ n.redacted_field_hashes[f] = hash_field_value(first.payload[f])
      BY <1>3, <1>5, <1>7, <2>3 DEF AccountsForFields, RedactedPayload, RedactedHashes
    <2>4. ASSUME NEW f \in DOMAIN first.payload, f \notin n.redacted_fields
          PROVE  n.payload[f] = first.payload[f]
      BY <1>3, <1>5, <1>7, <2>4 DEF AccountsForFields, RedactedPayload, RedactedHashes
    <2> QED
      BY <1>3, <1>5, <1>6, <2>1, <2>2, <2>3, <2>4 DEF AccountsForFields
  <1>9. RowInv(n)
    <2>1. /\ row.tenant_id \in Tenants /\ row.timestamp \in 0..MaxTime
          /\ row.archived_at \in (0..MaxTime) \cup {NULL}
          /\ row.event_hash = compute_event_hash(row.tenant_id,
                                [event_type |-> row.event_type, subject |-> row.subject,
                                 payload    |-> first.payload],
                                row.timestamp, row.previous_hash)
      BY DEF RowInv, first
    <2>2. DOMAIN n.redacted_field_hashes = n.redacted_fields
      BY <1>3, <1>7 DEF RedactedHashes
    <2> QED
      BY <1>3, <1>4, <1>5, <1>6, <1>8, <2>1, <2>2 DEF RowInv
  <1> QED
    BY <1>1, <1>9

\* The first transaction of a redaction.
LEMMA RewriteTargetStep ==
  ASSUME RedIInv, NEW w \in Workers, RewriteTarget(w)
  PROVE  RedIInv'
  <1> USE DEF Goto, table, session, history
  <1>0. Sessions /\ SessionInv(w) /\ RecordsInv /\ RoomInv /\ nextId \in Nat
    BY Before
  <1>1. PICK t, n :
          /\ t = red[w].target /\ n = RedactedRow(events[t], red[w].seen, red[w].fields, red[w].now)
          /\ pc[w] = "rewrite" /\ pc' = [pc EXCEPT ![w] = "companion"]
          /\ events' = [events EXCEPT ![t] = n]
          /\ UNCHANGED <<idem, nextId, lock, clock, session, history, red, interrupted>>
    BY DEF RewriteTarget
  <1>2. SeenInv(w) /\ Serving(w) /\ red[w].now \in 0..MaxTime
    BY <1>0, <1>1 DEF SessionInv, ServingInv, PastRead
  <1>3. t \in DOMAIN events /\ RowInv(events[t])
    BY <1>0, <1>1, <1>2 DEF SeenInv, RecordsInv
  <1>4. RowInv(n)
    BY <1>1, <1>2, <1>3, RedactedRowInv DEF SeenInv
  <1>5. \A column \in FrozenColumns : n[column] = events[t][column]
    BY <1>1, <1>3, RedactedColumns DEF RowInv
  <1>6. FrozenRows /\ \A id \in DOMAIN events : RowInv(events'[id])
    BY <1>0, <1>1, <1>3, <1>4, <1>5 DEF FrozenRows, RecordsInv
  <1>7. Sessions' /\ StepOf(w) /\ pc'[w] = "companion" /\ \A v \in Workers : pc'[v] \in Promised => pc[v] \in Promised
    BY <1>0, <1>1 DEF Sessions, StepOf, RedPcValues, PcValues, Promised
  <1>8. SessionInv(w)'
    <2>1. SeenInv(w)'
      BY <1>1, <1>2, <1>6 DEF SeenInv, FrozenRows
    <2>2. ServingInv(w)'
      BY <1>0, <1>1, <1>2, <1>7, <2>1 DEF SessionInv, ServingInv, Serving
    <2> QED
      BY <1>0, <1>1, <1>7, <2>2 DEF SessionInv, RequestInv, AppendInv, UnderLock, AfterInsert
  <1>9. RoomInv' /\ interrupted' \subseteq DOMAIN events
    BY <1>0, <1>1, <1>7, RoomKept DEF RecordsInv
  <1> QED
    BY <1>0, <1>1, <1>6, <1>7, <1>8, <1>9, OneSession

\* The companion's content is known; its append begins.
LEMMA BuildCompanionStep ==
  ASSUME RedIInv, NEW w \in Workers, BuildCompanion(w)
  PROVE  RedIInv'
  <1> USE DEF Goto, table, session, history
  <1>0. Sessions /\ SessionInv(w) /\ RecordsInv /\ RoomInv /\ nextId \in Nat
    BY Before
  <1>1. PICK r :
          /\ r = [username  |-> NULL, key |-> NULL,
                  tenant_id |-> red[w].seen.tenant_id, event_in |-> Companion(red[w])]
          /\ pc[w] = "companion" /\ pc' = [pc EXCEPT ![w] = "lock"]
          /\ req' = [req EXCEPT ![w] = r]
          /\ UNCHANGED <<table, lock, clock, staged, result, history, red, interrupted>>
    BY DEF BuildCompanion
  <1>2. Serving(w) /\ SeenInv(w) /\ red[w].seen.tenant_id \in Tenants
    BY <1>0, <1>1 DEF SessionInv, ServingInv, PastRead, SeenInv, RowInv
  <1>3. r.key = NULL /\ r.tenant_id \in Tenants /\ r.event_in = Companion(red[w])
    BY <1>1, <1>2
  <1>4. Sessions' /\ StepOf(w) /\ pc'[w] = "lock" /\ req'[w] = r /\ red'[w] = red[w]
    BY <1>0, <1>1 DEF Sessions, StepOf, RedPcValues, PcValues
  <1>5. SessionInv(w)'
    <2>1. ServingInv(w)'
      BY <1>0, <1>1, <1>2, <1>4 DEF SessionInv, ServingInv, Serving, SeenInv
    <2>2. RequestInv(w)'
      BY <1>1, <1>2, <1>3, <1>4 DEF RequestInv, Serving
    <2>3. AppendInv(w)'
      BY <1>0, <1>1, <1>4 DEF SessionInv, AppendInv, UnderLock, AfterInsert
    <2> QED
      BY <2>1, <2>2, <2>3 DEF SessionInv
  <1>6. interrupted' \subseteq DOMAIN events
    BY <1>0, <1>1 DEF RecordsInv
  <1> QED
    BY <1>1, <1>4, <1>5, <1>6, OneSessionReads DEF Promised

\* A session takes the append lock: no other session holds it.
LEMMA LockForAppendStep ==
  ASSUME RedIInv, NEW w \in Workers, LockForAppend(w), UNCHANGED <<red, interrupted>>
  PROVE  RedIInv'
  <1> USE DEF LockForAppend, Goto, table, session, history
  <1>0. Sessions /\ SessionInv(w) /\ RecordsInv
    BY Before
  <1>1. /\ pc[w] = "lock" /\ lock = NULL /\ lock' = w
        /\ pc'[w] = (IF req[w].key = NULL THEN "compute" ELSE "lookup")
        /\ UNCHANGED <<table, clock, session, history, red, interrupted>>
    BY <1>0 DEF Sessions
  <1>2. Sessions' /\ StepOf(w)
    BY <1>0, WorkersAssumption DEF Sessions, StepOf, RedPcValues, PcValues
  <1>3. ServingInv(w)' /\ RequestInv(w)'
    BY <1>0, <1>1 DEF SessionInv, ServingInv, Serving, RequestInv, SeenInv, PastRead, UnderLock
  <1>4. AppendInv(w)'
    BY <1>0, <1>1 DEF SessionInv, AppendInv, UnderLock, AfterInsert
  <1>5. interrupted' \subseteq DOMAIN events /\ pc[w] \in Promised
    BY <1>0, <1>1 DEF RecordsInv, Promised, BeforeInsert
  <1> QED
    BY <1>1, <1>2, <1>3, <1>4, <1>5, OneSessionReads DEF SessionInv

\* The key turns out new, and stays so: nobody else is under the lock.
LEMMA KeyUnusedStep ==
  ASSUME RedIInv, NEW w \in Workers, KeyUnused(w), UNCHANGED <<red, interrupted>>
  PROVE  RedIInv'
  <1> USE DEF KeyUnused, Goto, table, session, history
  <1>0. Sessions /\ SessionInv(w) /\ RecordsInv
    BY Before
  <1>1. /\ pc[w] = "lookup" /\ pc'[w] = "compute" /\ ~IdempotencyKeyTaken(req[w])
        /\ UNCHANGED <<table, lock, clock, session, history, red, interrupted>>
    BY <1>0 DEF Sessions, IdempotencyKeyTaken
  <1>2. Sessions' /\ StepOf(w)
    BY <1>0 DEF Sessions, StepOf, RedPcValues, PcValues
  <1>3. ServingInv(w)' /\ RequestInv(w)'
    BY <1>0, <1>1 DEF SessionInv, ServingInv, Serving, RequestInv, UnderLock
  <1>4. AppendInv(w)'
    BY <1>0, <1>1 DEF SessionInv, AppendInv, UnderLock, AfterInsert, IdempotencyKeyTaken,
      get_idempotency_record
  <1>5. interrupted' \subseteq DOMAIN events /\ pc[w] \in Promised
    BY <1>0, <1>1 DEF RecordsInv, Promised, BeforeInsert
  <1> QED
    BY <1>1, <1>2, <1>3, <1>4, <1>5, OneSessionReads DEF SessionInv

\* A replay: the key's row leads to a record whose first content is what is
\* asked for, whether it has been redacted or not.
LEMMA ReplayStep ==
  ASSUME RedIInv, NEW w \in Workers, Replay(w), UNCHANGED <<red, interrupted>>
  PROVE  RedIInv'
  <1> USE DEF Goto, table, session, history
  <1>0. Sessions /\ SessionInv(w) /\ RecordsInv
    BY Before
  <1>1. PICK k \in get_idempotency_record(req[w]) :
          /\ k.request_fingerprint = compute_request_fingerprint(req[w].tenant_id, req[w].event_in)
          /\ result' = [result EXCEPT ![w] = k.event_id]
          /\ pc[w] = "lookup" /\ pc' = [pc EXCEPT ![w] = "respond"]
          /\ UNCHANGED <<table, lock, clock, req, staged, history, red, interrupted>>
    BY DEF Replay
  <1>2. /\ k.event_id \in DOMAIN events
        /\ origin[k.event_id] = [username |-> req[w].username, key |-> req[w].key]
        /\ k.request_fingerprint = Sha256(Content(Original(k.event_id)))
    BY <1>0, <1>1 DEF RecordsInv, RedKeyInv, get_idempotency_record
  <1>3. Content(Original(k.event_id)) = RequestContent(req[w].tenant_id, req[w].event_in)
    BY <1>1, <1>2 DEF compute_request_fingerprint, Sha256
  <1>4. Sessions' /\ StepOf(w) /\ pc'[w] = "respond" /\ result'[w] = k.event_id
    BY <1>0, <1>1 DEF Sessions, StepOf, RedPcValues, PcValues
  <1>5. ServingInv(w)' /\ RequestInv(w)'
    BY <1>0, <1>1, <1>4 DEF SessionInv, ServingInv, Serving, RequestInv, UnderLock
  <1>6. AppendInv(w)'
    <2>1. /\ result'[w] \in DOMAIN events'
          /\ Content(Original(result[w])') = RequestContent(req'[w].tenant_id, req'[w].event_in)
          /\ origin'[result'[w]] = [username |-> req'[w].username, key |-> req'[w].key]
      BY <1>1, <1>2, <1>3, <1>4 DEF Original, FirstContent
    <2> QED
      BY <1>0, <1>1, <1>4, <2>1 DEF SessionInv, AppendInv, UnderLock, AfterInsert
  <1>7. interrupted' \subseteq DOMAIN events
    BY <1>0, <1>1 DEF RecordsInv
  <1> QED
    BY <1>1, <1>4, <1>5, <1>6, <1>7, OneSessionReads DEF SessionInv, Promised, BeforeInsert

\* A conflict changes nothing but where the session is.
LEMMA ConflictStep ==
  ASSUME RedIInv, NEW w \in Workers, Conflict(w), UNCHANGED <<red, interrupted>>
  PROVE  RedIInv'
  <1> USE DEF Conflict, Goto, table, session, history
  <1>0. Sessions /\ SessionInv(w) /\ RecordsInv
    BY Before
  <1>1. /\ pc[w] = "lookup" /\ pc'[w] = "close"
        /\ UNCHANGED <<table, lock, clock, session, history, red, interrupted>>
    BY <1>0 DEF Sessions
  <1>2. Sessions' /\ StepOf(w)
    BY <1>0 DEF Sessions, StepOf, RedPcValues, PcValues
  <1>3. SessionInv(w)'
    BY <1>0, <1>1 DEF SessionInv, ServingInv, Serving, PastRead, RequestInv, AppendInv, UnderLock, AfterInsert
  <1>4. interrupted' \subseteq DOMAIN events
    BY <1>0, <1>1 DEF RecordsInv
  <1> QED
    BY <1>1, <1>2, <1>3, <1>4, OneSessionReads DEF Promised, BeforeInsert

\* The new row extends the chain as it is now, with the latest timestamp.
LEMMA ComputeEventStep ==
  ASSUME RedIInv, NEW w \in Workers, ComputeEvent(w), UNCHANGED <<red, interrupted>>
  PROVE  RedIInv'
  <1> USE DEF Goto, table, history
  <1>0. Sessions /\ SessionInv(w) /\ RecordsInv
    BY Before
  <1>1. PICK previous_hash, row :
          /\ row = AuditEvent(req[w], clock, previous_hash)
          /\ IsPreviousHash(previous_hash) /\ staged' = [staged EXCEPT ![w] = row]
          /\ pc[w] = "compute" /\ pc' = [pc EXCEPT ![w] = "insert"]
          /\ UNCHANGED <<table, lock, clock, req, result, history, red, interrupted>>
    BY DEF ComputeEvent
  <1>2. row.previous_hash = previous_hash /\ row.timestamp = clock
    BY <1>1 DEF AuditEvent
  <1>3. Sessions' /\ StepOf(w) /\ pc'[w] = "insert" /\ staged'[w] = row
    BY <1>0, <1>1 DEF Sessions, StepOf, RedPcValues, PcValues
  <1>4. ServingInv(w)' /\ RequestInv(w)'
    BY <1>0, <1>1, <1>3 DEF SessionInv, ServingInv, Serving, RequestInv, SeenInv, PastRead, UnderLock
  <1>5. AppendInv(w)'
    <2>1. IsPreviousHash(row.previous_hash)'
      BY <1>1, <1>2 DEF IsPreviousHash, IsLastEvent
    <2>2. /\ row.timestamp \in 0..MaxTime /\ row.timestamp <= clock
          /\ \A id \in DOMAIN events : events[id].timestamp <= row.timestamp \/ ClockMayStepBack
      BY <1>0, <1>2, BoundsAssumption DEF RecordsInv, IdInv
    <2>3. row = AuditEvent(req'[w], row.timestamp, row.previous_hash)
      BY <1>1, <1>2
    <2>4. (req'[w].key # NULL) => ~IdempotencyKeyTaken(req[w])'
      BY <1>0, <1>1 DEF SessionInv, AppendInv, IdempotencyKeyTaken, get_idempotency_record
    <2> QED
      BY <1>0, <1>1, <1>3, <2>1, <2>2, <2>3, <2>4 DEF SessionInv, AppendInv, UnderLock, AfterInsert
  <1>6. interrupted' \subseteq DOMAIN events /\ pc[w] \in Promised
    BY <1>0, <1>1 DEF RecordsInv, Promised, BeforeInsert
  <1> QED
    BY <1>1, <1>3, <1>4, <1>5, <1>6, OneSessionReads DEF SessionInv

\* The id taken is behind every committed one.
LEMMA InsertEventStep ==
  ASSUME RedIInv, NEW w \in Workers, InsertEvent(w), UNCHANGED <<red, interrupted>>
  PROVE  RedIInv'
  <1> USE DEF InsertEvent, Goto, history
  <1>0. Sessions /\ SessionInv(w) /\ RecordsInv /\ RoomInv /\ nextId \in Nat \ {0}
    BY Before DEF RecordsInv
  <1>1. /\ pc[w] = "insert" /\ pc'[w] = (IF req[w].key = NULL THEN "commit" ELSE "record")
        /\ result'[w] = nextId /\ nextId' = nextId + 1 /\ ~EventHashTaken(staged[w])
        /\ UNCHANGED <<events, idem, lock, clock, req, staged, history, red, interrupted>>
    BY <1>0 DEF Sessions
  <1>2. Sessions' /\ StepOf(w)
    BY <1>0 DEF Sessions, StepOf, RedPcValues, PcValues
  <1>3. FrozenRows /\ \A id \in DOMAIN events : RowInv(events'[id])
    BY <1>0, <1>1 DEF FrozenRows, RecordsInv
  <1>4. ServingInv(w)' /\ RequestInv(w)'
    BY <1>0, <1>1 DEF SessionInv, ServingInv, Serving, RequestInv, SeenInv, PastRead, UnderLock
  <1>5. AppendInv(w)'
    <2>1. \A id \in DOMAIN events : id < result'[w]
      BY <1>0, <1>1 DEF RecordsInv, IdInv
    <2> QED
      BY <1>0, <1>1, <1>3, <2>1, FrozenReads DEF SessionInv, AppendInv, UnderLock, AfterInsert,
        IdempotencyKeyTaken, get_idempotency_record
  <1>6. RoomInv'
    BY <1>0, <1>1, <1>2, RoomUsed DEF StepOf, Promised, BeforeInsert
  <1>7. interrupted' \subseteq DOMAIN events /\ nextId' \in Nat /\ nextId' >= nextId
    BY <1>0, <1>1 DEF RecordsInv
  <1> QED
    BY <1>2, <1>3, <1>4, <1>5, <1>6, <1>7, OneSession DEF SessionInv

\* The flush of the key's row changes nothing that others see.
LEMMA RecordIdempotencyKeyStep ==
  ASSUME RedIInv, NEW w \in Workers, RecordIdempotencyKey(w), UNCHANGED <<red, interrupted>>
  PROVE  RedIInv'
  <1> USE DEF RecordIdempotencyKey, Goto, table, session, history
  <1>0. Sessions /\ SessionInv(w) /\ RecordsInv
    BY Before
  <1>1. /\ pc[w] = "record" /\ pc'[w] = "commit"
        /\ UNCHANGED <<table, lock, clock, session, history, red, interrupted>>
    BY <1>0 DEF Sessions
  <1>2. Sessions' /\ StepOf(w)
    BY <1>0 DEF Sessions, StepOf, RedPcValues, PcValues
  <1>3. ServingInv(w)' /\ RequestInv(w)'
    BY <1>0, <1>1 DEF SessionInv, ServingInv, Serving, RequestInv, SeenInv, PastRead, UnderLock
  <1>4. AppendInv(w)'
    BY <1>0, <1>1, FrozenReads DEF SessionInv, AppendInv, UnderLock, AfterInsert, FrozenRows,
      IdempotencyKeyTaken, get_idempotency_record
  <1>5. interrupted' \subseteq DOMAIN events
    BY <1>0, <1>1 DEF RecordsInv
  <1> QED
    BY <1>1, <1>2, <1>3, <1>4, <1>5, OneSessionReads DEF SessionInv, Promised, BeforeInsert

\* A row just built is untouched, and its first content is the request's.
LEMMA FreshRow ==
  ASSUME NEW r, NEW t \in 0..MaxTime, NEW h, r.tenant_id \in Tenants,
         NEW row, row = AuditEvent(r, t, h)
  PROVE  /\ RowInv(row) /\ row.redacted_at = NULL
         /\ Content(FirstContent(row)) = RequestContent(r.tenant_id, r.event_in)
  <1> DEFINE first == [tenant_id |-> r.tenant_id, event_type |-> r.event_in.event_type,
                       subject |-> r.event_in.subject, payload |-> r.event_in.payload,
                       timestamp |-> t, previous_hash |-> h]
  <1>1. /\ DOMAIN row = Columns
        /\ row.tenant_id = r.tenant_id /\ row.event_type = r.event_in.event_type
        /\ row.subject = r.event_in.subject /\ row.payload = r.event_in.payload
        /\ row.timestamp = t /\ row.previous_hash = h
        /\ row.event_hash = Sha256(first)
        /\ row.archived_at = NULL /\ row.redacted_at = NULL
        /\ row.redacted_fields = {} /\ DOMAIN row.redacted_field_hashes = {}
    <2>1. row = [tenant_id |-> r.tenant_id, event_type |-> r.event_in.event_type,
                 subject |-> r.event_in.subject, payload |-> r.event_in.payload,
                 timestamp |-> t, previous_hash |-> h, event_hash |-> Sha256(first),
                 archived_at |-> NULL, redacted_at |-> NULL, redacted_fields |-> {},
                 redacted_field_hashes |-> <<>>]
      BY DEF AuditEvent, compute_event_hash
    <2>2. DOMAIN <<>> = {}
      OBVIOUS
    <2> HIDE DEF first
    <2> QED
      BY <2>1, <2>2 DEF Columns, FrozenColumns
  <1>2. FirstContent(row) = first
    BY <1>1 DEF FirstContent, Hashed, Sha256
  <1>3. first.payload = row.payload
    BY <1>1
  <1>4. AccountsForFields(row)
    BY <1>1, <1>2, <1>3 DEF AccountsForFields
  <1>5. RowInv(row)
    BY <1>1, <1>2, <1>4 DEF RowInv, compute_event_hash
  <1> QED
    BY <1>1, <1>2, <1>5 DEF Content, RequestContent

\* The commit: the one step that adds to the records.
LEMMA CommitStep ==
  ASSUME RedIInv, NEW w \in Workers, CommitAppend(w)
  PROVE  RedIInv'
  <1>0. PICK id, row, key, who :
          /\ id = result[w] /\ row = staged[w] /\ key = req[w].key
          /\ who = [username |-> req[w].username, key |-> req[w].key]
    OBVIOUS
  <1>1. Sessions /\ SessionInv(w) /\ RecordsInv /\ RoomInv /\ nextId \in Nat
    BY Before
  <1>2. pc[w] = "commit" /\ Published(w, id) /\ UNCHANGED <<nextId, clock, session, replies, red>>
        /\ pc' = [pc EXCEPT ![w] = "respond"] /\ interrupted' \subseteq interrupted
    BY <1>0 DEF CommitAppend, Commit, Goto
  <1>3. /\ lock = w /\ id \in Nat \ {0} /\ id < nextId
        /\ \A j \in DOMAIN events : j < id
        /\ ~EventHashTaken(row) /\ IsPreviousHash(row.previous_hash)
        /\ row = AuditEvent(req[w], row.timestamp, row.previous_hash)
        /\ row.timestamp \in 0..MaxTime
        /\ row.timestamp <= clock \/ ClockMayStepBack
        /\ \A j \in DOMAIN events : events[j].timestamp <= row.timestamp \/ ClockMayStepBack
        /\ (key # NULL) => ~IdempotencyKeyTaken(req[w])
        /\ req[w].tenant_id \in Tenants
    BY <1>0, <1>1, <1>2 DEF SessionInv, AppendInv, RequestInv, UnderLock, AfterInsert
  <1>4. id \notin DOMAIN events /\ \A j \in DOMAIN events : j \in Nat \ {0}
    BY <1>1, <1>3 DEF RecordsInv
  <1>5. /\ DOMAIN events' = DOMAIN events \cup {id}
        /\ events'[id] = row
        /\ \A j \in DOMAIN events : events'[j] = events[j]
        /\ DOMAIN origin' = DOMAIN events \cup {id} /\ DOMAIN origin = DOMAIN events
        /\ origin'[id] = who
        /\ \A j \in DOMAIN events : origin'[j] = origin[j]
        /\ idem' = IF key = NULL THEN idem ELSE idem \cup {IdempotencyKey(req[w], id)}
        /\ lock' = NULL
    BY <1>0, <1>1, <1>2, <1>4 DEF Published, RecordsInv, RedKeyInv
  <1>6. /\ RowInv(row) /\ row.redacted_at = NULL
        /\ Content(FirstContent(row)) = RequestContent(req[w].tenant_id, req[w].event_in)
    BY <1>3, FreshRow
  <1>7. \A j \in DOMAIN events : Original(j)' = Original(j)
    BY <1>5 DEF Original, FirstContent
  <1>8. Original(id)' = FirstContent(row)
    BY <1>5 DEF Original, FirstContent
  <1>9. RecordsInv'
    <2>1. /\ DOMAIN events' \subseteq Nat \ {0} /\ nextId' \in Nat \ {0} /\ clock' \in 0..MaxTime
          /\ \A i \in DOMAIN events' : RowInv(events'[i])
          /\ interrupted' \subseteq DOMAIN events'
      BY <1>1, <1>2, <1>3, <1>4, <1>5, <1>6 DEF RecordsInv
    <2>2. IdInv'
      BY <1>1, <1>2, <1>3, <1>5 DEF RecordsInv, IdInv, EventHashTaken
    <2>3. RedKeyInv'
      <3>1. ASSUME NEW k \in idem'
            PROVE  /\ k.event_id \in DOMAIN events'
                   /\ origin'[k.event_id] = [username |-> k.username, key |-> k.idempotency_key]
                   /\ k.request_fingerprint = Sha256(Content(Original(k.event_id)'))
        <4>1. CASE k \in idem
          BY <1>1, <1>5, <1>7, <4>1 DEF RecordsInv, RedKeyInv
        <4>2. CASE k \notin idem
          <5>1. k = IdempotencyKey(req[w], id)
            BY <1>5, <4>2
          <5>2. /\ k.event_id = id /\ k.username = req[w].username /\ k.idempotency_key = req[w].key
                /\ k.request_fingerprint = Sha256(RequestContent(req[w].tenant_id, req[w].event_in))
            BY <5>1 DEF IdempotencyKey, compute_request_fingerprint
          <5> QED
            BY <1>0, <1>5, <1>6, <1>8, <5>2
        <4> QED
          BY <4>1, <4>2
      <3>2. ASSUME NEW i \in DOMAIN origin', origin'[i].key # NULL
            PROVE  \E k \in idem' : k.username = origin'[i].username /\ k.idempotency_key = origin'[i].key
        <4>1. CASE i \in DOMAIN origin
          BY <1>1, <1>5, <3>2, <4>1 DEF RecordsInv, RedKeyInv
        <4>2. CASE i \notin DOMAIN origin
          <5>1. i = id /\ origin'[i].key = req[w].key /\ key # NULL
            BY <1>0, <1>5, <3>2, <4>2
          <5>2. IdempotencyKey(req[w], id) \in idem'
            BY <1>5, <5>1
          <5>3. /\ IdempotencyKey(req[w], id).username = origin'[i].username
                /\ IdempotencyKey(req[w], id).idempotency_key = origin'[i].key
            BY <1>0, <1>5, <5>1 DEF IdempotencyKey
          <5> QED
            BY <5>2, <5>3
        <4> QED
          BY <4>1, <4>2
      <3>3. DOMAIN origin' = DOMAIN events'
        BY <1>5
      <3>4. \A k \in idem' : Sha256(Content(Original(k.event_id)')) = Sha256(Content(Original(k.event_id)))'
        BY DEF Content, RequestContent, Sha256
      <3> QED
        BY <3>1, <3>2, <3>3, <3>4 DEF RedKeyInv, Content, RequestContent, Sha256
    <2>4. LinearChain'
      <3>1. ASSUME NEW i \in DOMAIN events
            PROVE  \/ IsFirst(i)' /\ events'[i].previous_hash = GENESIS_HASH
                   \/ \E j \in DOMAIN events' :
                        Adjacent(j, i)' /\ events'[i].previous_hash = events'[j].event_hash
        BY <1>1, <1>3, <1>4, <1>5 DEF RecordsInv, LinearChain, IsFirst, Adjacent
      <3>2. \/ IsFirst(id)' /\ events'[id].previous_hash = GENESIS_HASH
            \/ \E j \in DOMAIN events' :
                 Adjacent(j, id)' /\ events'[id].previous_hash = events'[j].event_hash
        BY <1>3, <1>4, <1>5 DEF IsPreviousHash, IsLastEvent, IsFirst, Adjacent
      <3> QED
        BY <1>5, <3>1, <3>2 DEF LinearChain
    <2>5. OneEventPerKey'
      <3>1. \A i \in DOMAIN origin : (key # NULL) => (origin[i] # who)
        BY <1>0, <1>1, <1>3 DEF RecordsInv, RedKeyInv, IdempotencyKeyTaken, get_idempotency_record
      <3> QED
        BY <1>0, <1>1, <1>5, <3>1 DEF RecordsInv, OneEventPerKey
    <2>6. TimestampsFollowIds'
      BY <1>1, <1>3, <1>4, <1>5 DEF RecordsInv, TimestampsFollowIds
    <2> QED
      BY <2>1, <2>2, <2>3, <2>4, <2>5, <2>6 DEF RecordsInv
  <1>10. Sessions' /\ pc'[w] = "respond" /\ \A v \in Workers : v # w => pc'[v] = pc[v]
    BY <1>1, <1>2, <1>5 DEF Sessions, RedPcValues, PcValues, session
  <1>11. UNCHANGED <<req, staged, result, red>>
    BY <1>2 DEF session
  <1>12. ASSUME NEW v \in Workers, v # w PROVE SessionInv(v)'
    <2>1. SessionInv(v) /\ pc'[v] = pc[v] /\ pc[v] \notin UnderLock /\ lock # v
      BY <1>3, <1>10, <1>12 DEF RedIInv, SessionInv, AppendInv
    <2>2. ServingInv(v)'
      <3>1. SeenInv(v) => SeenInv(v)'
        BY <1>5, <1>11 DEF SeenInv
      <3> QED
        BY <1>11, <2>1, <3>1 DEF SessionInv, ServingInv, Serving
    <2>3. RequestInv(v)'
      BY <1>11, <2>1 DEF SessionInv, RequestInv, Serving
    <2>4. AppendInv(v)'
      <3>1. v # NULL
        BY WorkersAssumption
      <3>2. (pc[v] = "respond") =>
              /\ result[v] \in DOMAIN events
              /\ Content(Original(result[v])) = RequestContent(req[v].tenant_id, req[v].event_in)
              /\ (req[v].key # NULL) =>
                   (origin[result[v]] = [username |-> req[v].username, key |-> req[v].key])
        BY <2>1 DEF SessionInv, AppendInv
      <3>3. (pc[v] = "respond") =>
              /\ result'[v] \in DOMAIN events'
              /\ Content(Original(result[v])') = RequestContent(req'[v].tenant_id, req'[v].event_in)
              /\ (req'[v].key # NULL) =>
                   (origin'[result'[v]] = [username |-> req'[v].username, key |-> req'[v].key])
        BY <1>5, <1>7, <1>11, <3>2
      <3>4. Content(Original(result[v])') = Content(Original(result[v]))'
        BY DEF Content, RequestContent
      <3> QED
        BY <1>5, <1>11, <2>1, <3>1, <3>3 DEF AppendInv, UnderLock, AfterInsert, Content, RequestContent
    <2> QED
      BY <2>2, <2>3, <2>4 DEF SessionInv
  <1>13. SessionInv(w)'
    <2>1. ServingInv(w)' /\ RequestInv(w)'
      BY <1>1, <1>2, <1>10, <1>11 DEF SessionInv, ServingInv, Serving, PastRead, RequestInv, UnderLock
    <2>2. w # NULL
      BY WorkersAssumption
    <2>3. /\ result'[w] \in DOMAIN events'
          /\ Content(Original(result[w])') = RequestContent(req'[w].tenant_id, req'[w].event_in)
          /\ origin'[result'[w]] = [username |-> req'[w].username, key |-> req'[w].key]
      BY <1>0, <1>5, <1>6, <1>8, <1>11
    <2>4. AppendInv(w)'
      BY <1>5, <1>10, <1>11, <2>2, <2>3 DEF AppendInv, UnderLock, AfterInsert, Content, RequestContent
    <2> QED
      BY <2>1, <2>4 DEF SessionInv
  <1>14. RoomInv'
    BY <1>1, <1>2, <1>10, RoomKept DEF Promised, BeforeInsert
  <1> QED
    BY <1>9, <1>10, <1>12, <1>13, <1>14 DEF RedIInv, Sessions

\* An ordinary request is answered.
LEMMA RespondStep ==
  ASSUME RedIInv, NEW w \in Workers, RespondToAppend(w)
  PROVE  RedIInv'
  <1> USE DEF RespondToAppend, Respond, Goto, table, session
  <1>0. Sessions /\ SessionInv(w) /\ RecordsInv
    BY Before
  <1>1. /\ pc[w] = "respond" /\ pc'[w] = "close" /\ ~Serving(w)
        /\ UNCHANGED <<table, lock, clock, session, origin, red, interrupted>>
    BY <1>0 DEF Sessions
  <1>2. Sessions' /\ StepOf(w)
    BY <1>0 DEF Sessions, StepOf, RedPcValues, PcValues
  <1>3. SessionInv(w)'
    BY <1>0, <1>1 DEF SessionInv, ServingInv, Serving, PastRead, RequestInv, AppendInv, UnderLock, AfterInsert
  <1>4. interrupted' \subseteq DOMAIN events
    BY <1>0, <1>1 DEF RecordsInv
  <1> QED
    BY <1>1, <1>2, <1>3, <1>4, OneSessionReads DEF Promised, BeforeInsert

\* A session ends, by its close or by a crash, and keeps nothing.
LEMMA RollbackStep ==
  ASSUME RedIInv, NEW w \in Workers, Rollback(w), red' = [red EXCEPT ![w] = NoRedaction],
         UNCHANGED <<table, clock, history>>, interrupted' \subseteq DOMAIN events
  PROVE  RedIInv'
  <1> USE DEF Rollback, Goto, table, history
  <1>0. Sessions /\ SessionInv(w) /\ RecordsInv
    BY Before
  <1>1. /\ pc'[w] = "idle" /\ lock' # w
        /\ red'[w] = NoRedaction /\ UNCHANGED <<events, nextId>>
    BY <1>0, WorkersAssumption DEF Sessions
  <1>2. Sessions' /\ StepOf(w)
    <2>1. pc' \in [Workers -> RedPcValues] /\ lock' \in Workers \cup {NULL}
      BY <1>0 DEF Sessions, RedPcValues, PcValues
    <2>2. /\ req' = [v \in Workers |-> req'[v]] /\ staged' = [v \in Workers |-> staged'[v]]
          /\ result' = [v \in Workers |-> result'[v]] /\ red' = [v \in Workers |-> red'[v]]
      BY <1>0 DEF Sessions
    <2>3. StepOf(w)
      BY <1>0, WorkersAssumption DEF Sessions, StepOf
    <2> QED
      BY <2>1, <2>2, <2>3 DEF Sessions
  <1>3. ~Serving(w)' /\ DOMAIN red'[w] = DOMAIN NoRedaction
    BY <1>1 DEF Serving, NoRedaction
  <1>4. SessionInv(w)'
    BY <1>1, <1>3 DEF SessionInv, ServingInv, RequestInv, AppendInv, UnderLock, AfterInsert
  <1> QED
    BY <1>1, <1>2, <1>4, OneSessionReads DEF Promised, BeforeInsert

\* Retention, the passing of time, and steps of the environment.
LEMMA NoSessionStep ==
  ASSUME RedIInv, FrozenRows, ClockMoves, \A id \in DOMAIN events : RowInv(events'[id]),
         UNCHANGED <<idem, nextId, lock, pc, session, origin, red, interrupted>>
  PROVE  RedIInv'
  <1> USE DEF session
  <1>1. RecordsInv'
    BY FrozenRecords DEF RedIInv, RecordsInv
  <1>2. ASSUME NEW v \in Workers PROVE SessionInv(v)'
    BY SessionKeeps DEF RedIInv, RecordsInv
  <1>3. RoomInv'
    BY RoomKept DEF RedIInv, RecordsInv
  <1> QED
    BY <1>1, <1>2, <1>3 DEF RedIInv

\* An archived row is the row it was but for the time of its archiving.
LEMMA ArchivedRowInv ==
  ASSUME NEW row, RowInv(row), NEW t \in 0..MaxTime
  PROVE  /\ RowInv([row EXCEPT !.archived_at = t])
         /\ \A column \in Columns \ {"archived_at"} : [row EXCEPT !.archived_at = t][column] = row[column]
         /\ [row EXCEPT !.archived_at = t].archived_at = t
  <1>1. PICK n : n = [row EXCEPT !.archived_at = t]
    OBVIOUS
  <1>2. DOMAIN row = Columns
    BY DEF RowInv
  <1>3. /\ DOMAIN n = Columns /\ n.archived_at = t
        /\ \A column \in Columns \ {"archived_at"} : n[column] = row[column]
    BY <1>1, <1>2, Zenon DEF Columns
  <1>4. /\ n.tenant_id = row.tenant_id /\ n.event_type = row.event_type
        /\ n.subject = row.subject /\ n.timestamp = row.timestamp
        /\ n.previous_hash = row.previous_hash /\ n.event_hash = row.event_hash
        /\ n.payload = row.payload /\ n.redacted_at = row.redacted_at
        /\ n.redacted_fields = row.redacted_fields
        /\ n.redacted_field_hashes = row.redacted_field_hashes
    BY <1>3 DEF Columns, FrozenColumns
  <1>5. FirstContent(n) = FirstContent(row)
    BY <1>4 DEF FirstContent
  <1>6. AccountsForFields(n)
    BY <1>4, <1>5 DEF RowInv, AccountsForFields
  <1>7. RowInv(n)
    BY <1>3, <1>4, <1>5, <1>6 DEF RowInv
  <1> QED
    BY <1>1, <1>3, <1>7

\* One UPDATE statement of the retention service.
LEMMA RetentionStep ==
  ASSUME RedIInv, ApplyRetention
  PROVE  RedIInv' /\ FrozenRows
  <1>1. clock \in 0..MaxTime /\ \A id \in DOMAIN events : RowInv(events[id])
    BY DEF RedIInv, RecordsInv
  <1>2. /\ DOMAIN events' = DOMAIN events
        /\ \A id \in DOMAIN events : events'[id] \in {events[id], [events[id] EXCEPT !.archived_at = clock]}
    BY Zenon DEF ApplyRetention
  <1>3. ASSUME NEW id \in DOMAIN events
        PROVE  RowInv(events'[id]) /\ \A column \in FrozenColumns : events'[id][column] = events[id][column]
    <2>1. FrozenColumns \subseteq Columns \ {"archived_at"}
      BY DEF Columns, FrozenColumns
    <2>2. RowInv(events[id])
      BY <1>1
    <2>3. CASE events'[id] = events[id]
      BY <2>2, <2>3
    <2>4. CASE events'[id] = [events[id] EXCEPT !.archived_at = clock]
      BY <1>1, <2>1, <2>2, <2>4, ArchivedRowInv
    <2> QED
      BY <1>2, <2>3, <2>4
  <1>4. FrozenRows /\ \A id \in DOMAIN events : RowInv(events'[id])
    BY <1>2, <1>3 DEF FrozenRows
  <1>5. /\ ClockMoves
        /\ UNCHANGED <<idem, nextId, lock, pc, session, origin, red, interrupted>>
    BY <1>1, BoundsAssumption DEF ApplyRetention, ClockMoves, history
  <1> QED
    BY <1>4, <1>5, NoSessionStep

\* The clock.
LEMMA ClockStep ==
  ASSUME RedIInv, PassTime
  PROVE  RedIInv'
  <1>1. ClockMoves
    BY BoundsAssumption DEF RedIInv, RecordsInv, PassTime, Tick, StepClockBack, ClockMoves
  <1>2. UNCHANGED <<events, idem, nextId, lock, pc, session, origin, red, interrupted>>
    BY DEF PassTime, Tick, StepClockBack, table, history
  <1>3. FrozenRows /\ \A id \in DOMAIN events : RowInv(events'[id])
    BY <1>2 DEF RedIInv, RecordsInv, FrozenRows
  <1> QED
    BY <1>1, <1>2, <1>3, NoSessionStep
\* A request ends, normally or cut short.
LEMMA EndStep ==
  ASSUME RedIInv, NEW w \in Workers, CloseRequest(w) \/ AbortRequest(w)
  PROVE  RedIInv'
  <1>0. SessionInv(w) /\ RecordsInv
    BY Before
  <1>1. /\ Rollback(w) /\ red' = [red EXCEPT ![w] = NoRedaction]
        /\ UNCHANGED <<table, clock, history>>
    BY DEF CloseRequest, CloseSession, AbortRequest, Abort
  <1>2. interrupted' \subseteq DOMAIN events
    <2>1. HalfDone(w) => red[w].target \in DOMAIN events
      BY <1>0 DEF HalfDone, SessionInv, ServingInv, SeenInv, PastRead
    <2> QED
      BY <1>0, <2>1 DEF CloseRequest, AbortRequest, RecordsInv
  <1> QED
    BY <1>1, <1>2, RollbackStep

-----------------------------------------------------------------------------
(* The invariant.                                                          *)

\* The initial state satisfies the inductive invariant.
LEMMA RedInitially == RedInit => RedIInv
  <1> SUFFICES ASSUME RedInit PROVE RedIInv
    OBVIOUS
  <1> USE DEF RedInit, Init
  <1>1. RecordsInv
    BY BoundsAssumption DEF RecordsInv, IdInv, RedKeyInv, LinearChain, OneEventPerKey, TimestampsFollowIds
  <1>2. ASSUME NEW w \in Workers PROVE SessionInv(w)
    <2>1. ~Serving(w) /\ DOMAIN red[w] = DOMAIN NoRedaction
      BY DEF Serving, NoRedaction
    <2> QED
      BY <2>1, WorkersAssumption DEF SessionInv, ServingInv, RequestInv, AppendInv, UnderLock, AfterInsert
  <1>3. RoomInv
    <2>1. {w \in Workers : pc[w] \in Promised} = {}
      BY DEF Promised, BeforeInsert
    <2> QED
      BY <2>1, FS_EmptySet, BoundsAssumption DEF RoomInv
  <1> QED
    BY <1>1, <1>2, <1>3 DEF RedIInv, RedPcValues, PcValues

\* Every step of the system preserves RedIInv.
LEMMA RedInductive == RedIInv /\ [RedNext]_redVars => RedIInv'
  <1> SUFFICES ASSUME RedIInv, [RedNext]_redVars PROVE RedIInv'
    OBVIOUS
  <1>1. ASSUME NEW w \in Workers, BeginAppend(w) \/ BeginRedaction(w) PROVE RedIInv'
    BY <1>1, BeginAppendStep, BeginRedactionStep
  <1>2. ASSUME NEW w \in Workers, RequestStep(w) PROVE RedIInv'
    <2>1. CASE RedactionRefused(w) \/ CompanionRejected(w) \/ RespondToRedaction(w)
      BY <2>1, RedactionEndsStep
    <2>2. CASE ReadTarget(w) \/ RewriteTarget(w) \/ BuildCompanion(w)
      BY <2>2, ReadTargetStep, RewriteTargetStep, BuildCompanionStep
    <2>3. CASE AppendStep(w)
      BY <2>3, LockForAppendStep, KeyUnusedStep, ReplayStep, ConflictStep,
        ComputeEventStep, InsertEventStep, RecordIdempotencyKeyStep DEF AppendStep
    <2>4. CASE CommitAppend(w) \/ RespondToAppend(w) \/ CloseRequest(w)
      BY <2>4, CommitStep, RespondStep, EndStep
    <2> QED
      BY <1>2, <2>1, <2>2, <2>3, <2>4 DEF RequestStep
  <1>3. ASSUME NEW w \in Workers, AbortRequest(w) PROVE RedIInv'
    BY <1>3, EndStep
  <1>4. CASE ApplyRetention \/ PassTime
    BY <1>4, RetentionStep, ClockStep
  <1>5. CASE UNCHANGED redVars
    <2>1. UNCHANGED <<events, idem, nextId, lock, clock, pc, session, origin, red, interrupted>>
      BY <1>5 DEF redVars, vars, table, history
    <2>2. FrozenRows /\ ClockMoves /\ \A id \in DOMAIN events : RowInv(events'[id])
      BY <2>1, BoundsAssumption DEF FrozenRows, ClockMoves, RedIInv, RecordsInv
    <2> QED
      BY <2>1, <2>2, NoSessionStep
  <1> QED
    BY <1>1, <1>2, <1>3, <1>4, <1>5 DEF RedNext

\* The inductive invariant holds throughout every behaviour.
THEOREM RedInvariance == RedSpec => []RedIInv
  BY RedInitially, RedInductive, PTL DEF RedSpec

\* Type correctness: no request is stopped half way by the bound on ids, no
\* row loses its shape, and only redactions that read a row work on one.
THEOREM RedTypeCorrect == RedSpec => []RedTypeOK
  <1>1. ASSUME RedIInv PROVE RedTypeOK
    <2>1. nextId \in Nat \ {0} /\ nextId <= MaxId + 1
      <3>1. Cardinality(Waiting) \in Nat
        BY WaitingIsFinite
      <3>2. nextId + Cardinality(Waiting) <= MaxId + 1 /\ nextId \in Nat \ {0}
        BY <1>1 DEF RedIInv, RecordsInv, RoomInv, Waiting
      <3> QED
        BY <3>1, <3>2, BoundsAssumption
    <2>2. DOMAIN events \subseteq 1..MaxId
      BY <1>1, <2>1, BoundsAssumption DEF RedIInv, RecordsInv, IdInv
    <2>3. ASSUME NEW w \in Workers
          PROVE  /\ Serving(w) => (w \in Redactors)
                 /\ (pc[w] \in {"rewrite", "companion"}) => (red[w].target \in DOMAIN events)
      BY <1>1 DEF RedIInv, SessionInv, ServingInv, SeenInv, PastRead
    <2>4. ASSUME NEW id \in DOMAIN events
          PROVE  /\ events[id].tenant_id \in Tenants
                 /\ events[id].timestamp \in 0..MaxTime
                 /\ events[id].archived_at \in (0..MaxTime) \cup {NULL}
                 /\ events[id].redacted_at \in (0..MaxTime) \cup {NULL}
                 /\ DOMAIN events[id].redacted_field_hashes = events[id].redacted_fields
      <3>1. RowInv(events[id])
        BY <1>1 DEF RedIInv, RecordsInv
      <3> QED
        BY <3>1 DEF RowInv
    <2>5. /\ pc \in [Workers -> RedPcValues] /\ interrupted \subseteq DOMAIN events
          /\ nextId \in 1..(MaxId + 1)
      BY <1>1, <2>1, BoundsAssumption DEF RedIInv, RecordsInv
    <2> QED
      BY <2>2, <2>3, <2>4, <2>5 DEF RedTypeOK
  <1> QED
    BY <1>1, RedInvariance, PTL

\* Redaction, retention and companions leave the chain linear.
THEOREM RedChainIsLinear == RedSpec => []LinearChain
  <1>1. RedIInv => LinearChain
    BY DEF RedIInv, RecordsInv
  <1> QED
    BY <1>1, RedInvariance, PTL

\* An idempotency key still stands for at most one record.
THEOREM RedExactlyOnce == RedSpec => []OneEventPerKey
  <1>1. RedIInv => OneEventPerKey
    BY DEF RedIInv, RecordsInv
  <1> QED
    BY <1>1, RedInvariance, PTL

\* Companions get their timestamps in chain order too.
THEOREM RedTimestampsOrdered == RedSpec => []TimestampsFollowIds
  <1>1. RedIInv => TimestampsFollowIds
    BY DEF RedIInv, RecordsInv
  <1> QED
    BY <1>1, RedInvariance, PTL

\* However many redactions overlap, and whatever they aim at, every row
\* accounts for every field it was created with.
THEOREM FieldsAccountedFor == RedSpec => []RowsAccountForFields
  <1>1. RedIInv => RowsAccountForFields
    BY DEF RedIInv, RecordsInv, RowInv, RowsAccountForFields
  <1> QED
    BY <1>1, RedInvariance, PTL

-----------------------------------------------------------------------------
(* What a step may not do to a committed row.                              *)

\* A redaction keeps the time of archiving, and of a field redacted by it
\* and by others before it the hash of its first value.
LEMMA RedactedRowKeeps ==
  ASSUME NEW row, NEW n, RowInv(row), RowInv(n), row.event_hash = n.event_hash,
         NEW f \in DOMAIN row.redacted_field_hashes \cap DOMAIN n.redacted_field_hashes
  PROVE  n.redacted_field_hashes[f] = row.redacted_field_hashes[f]
  <1>1. FirstContent(row) = FirstContent(n)
    BY DEF FirstContent
  <1>2. /\ AccountsForFields(row) /\ f \in row.redacted_fields
        /\ AccountsForFields(n) /\ f \in n.redacted_fields
    BY DEF RowInv
  <1>3. /\ row.redacted_field_hashes[f] = hash_field_value(FirstContent(row).payload[f])
        /\ n.redacted_field_hashes[f] = hash_field_value(FirstContent(n).payload[f])
    BY <1>2 DEF AccountsForFields
  <1> QED
    BY <1>1, <1>3

\* What a commit does to the rows.
LEMMA CommittedRows ==
  ASSUME RedIInv, NEW w \in Workers, CommitAppend(w)
  PROVE  /\ result[w] \notin DOMAIN events
         /\ \A j \in DOMAIN events : j < result[w]
         /\ DOMAIN events' = DOMAIN events \cup {result[w]}
         /\ events'[result[w]] = staged[w]
         /\ \A j \in DOMAIN events : events'[j] = events[j]
  <1>1. pc[w] = "commit" /\ Published(w, result[w])
    BY DEF CommitAppend, Commit
  <1>2. result[w] \in Nat \ {0} /\ \A j \in DOMAIN events : j < result[w] /\ j \in Nat
    BY <1>1 DEF RedIInv, RecordsInv, SessionInv, AppendInv, AfterInsert
  <1>3. result[w] \notin DOMAIN events
    BY <1>2
  <1> QED
    BY <1>1, <1>2, <1>3 DEF Published

\* What the first transaction of a redaction does to the rows.
LEMMA RewrittenRows ==
  ASSUME RedIInv, NEW w \in Workers, RewriteTarget(w)
  PROVE  /\ red[w].target \in DOMAIN events /\ SeenInv(w)
         /\ DOMAIN events' = DOMAIN events
         /\ events'[red[w].target] =
              RedactedRow(events[red[w].target], red[w].seen, red[w].fields, red[w].now)
         /\ \A j \in DOMAIN events \ {red[w].target} : events'[j] = events[j]
  <1>1. SeenInv(w)
    BY DEF RedIInv, SessionInv, ServingInv, PastRead, RewriteTarget
  <1>2. PICK n : n = RedactedRow(events[red[w].target], red[w].seen, red[w].fields, red[w].now)
    OBVIOUS
  <1>3. events' = [events EXCEPT ![red[w].target] = n]
    BY <1>2 DEF RewriteTarget
  <1>4. red[w].target \in DOMAIN events
    BY <1>1 DEF SeenInv
  <1> QED
    BY <1>1, <1>2, <1>3, <1>4

\* No other step changes a committed row, or adds one, but retention.
LEMMA RowsChangedBy ==
  ASSUME [RedNext]_redVars
  PROVE  \/ UNCHANGED events
         \/ \E w \in Workers : CommitAppend(w)
         \/ \E w \in Workers : RewriteTarget(w)
         \/ ApplyRetention
  <1> USE DEF table
  <1>1. ASSUME NEW w \in Workers, AppendStep(w) PROVE UNCHANGED events
    BY <1>1 DEF AppendStep, LockForAppend, KeyUnused, Replay, Conflict, ComputeEvent, InsertEvent,
      RecordIdempotencyKey
  <1>2. ASSUME NEW w \in Workers,
               \/ RedactionRefused(w) \/ ReadTarget(w) \/ BuildCompanion(w) \/ CompanionRejected(w)
               \/ RespondToRedaction(w) \/ RespondToAppend(w) \/ CloseRequest(w)
        PROVE  UNCHANGED events
    BY <1>2 DEF RedactionRefused, ReadTarget, BuildCompanion, CompanionRejected, RespondToRedaction,
      RespondToAppend, Respond, CloseRequest, CloseSession
  <1>3. ASSUME NEW w \in Workers, BeginAppend(w) \/ BeginRedaction(w) \/ AbortRequest(w)
        PROVE  UNCHANGED events
    BY <1>3 DEF BeginAppend, Begin, BeginRedaction, AbortRequest, Abort
  <1>4. PassTime => UNCHANGED events
    BY DEF PassTime, Tick, StepClockBack
  <1>5. UNCHANGED redVars => UNCHANGED events
    BY DEF redVars, vars
  <1> QED
    BY <1>1, <1>2, <1>3, <1>4, <1>5 DEF RedNext, RequestStep

\* Retention sets archived_at where it is not set, and nothing else.
LEMMA ArchivedRows ==
  ASSUME RedIInv, ApplyRetention
  PROVE  /\ DOMAIN events' = DOMAIN events
         /\ \A id \in DOMAIN events :
              /\ \A column \in Columns \ {"archived_at"} : events'[id][column] = events[id][column]
              /\ events[id].archived_at \in {NULL, events'[id].archived_at}
              /\ RowInv(events'[id])
  <1>1. clock \in 0..MaxTime /\ \A id \in DOMAIN events : RowInv(events[id])
    BY DEF RedIInv, RecordsInv
  <1>2. /\ DOMAIN events' = DOMAIN events
        /\ \A id \in DOMAIN events :
             \/ events'[id] = events[id]
             \/ /\ events[id].archived_at = NULL
                /\ events'[id] = [events[id] EXCEPT !.archived_at = clock]
    BY Zenon DEF ApplyRetention
  <1>3. ASSUME NEW id \in DOMAIN events
        PROVE  /\ \A column \in Columns \ {"archived_at"} : events'[id][column] = events[id][column]
               /\ events[id].archived_at \in {NULL, events'[id].archived_at}
               /\ RowInv(events'[id])
    <2>1. RowInv(events[id])
      BY <1>1
    <2>2. CASE events'[id] = events[id]
      BY <2>1, <2>2
    <2>3. CASE events[id].archived_at = NULL /\ events'[id] = [events[id] EXCEPT !.archived_at = clock]
      BY <1>1, <2>1, <2>3, ArchivedRowInv
    <2> QED
      BY <1>2, <2>2, <2>3
  <1> QED
    BY <1>2, <1>3

\* Redaction and retention never touch what a hash or a link was computed
\* from, archiving is not undone, and the hash of a redacted value is kept.
THEOREM HistoryIsFrozen == RedSpec => HistoryFrozen
  <1> DEFINE Kept(id) ==
        /\ id \in DOMAIN events'
        /\ \A column \in FrozenColumns : events'[id][column] = events[id][column]
        /\ events[id].archived_at \in {NULL, events'[id].archived_at}
        /\ \A f \in DOMAIN events[id].redacted_field_hashes
                      \cap DOMAIN events'[id].redacted_field_hashes :
             events'[id].redacted_field_hashes[f] = events[id].redacted_field_hashes[f]
  <1>1. ASSUME RedIInv, [RedNext]_redVars, NEW id \in DOMAIN events PROVE Kept(id)
    <2>1. RedIInv' /\ RowInv(events[id])
      BY <1>1, RedInductive DEF RedIInv, RecordsInv
    <2>2. CASE id \in DOMAIN events' /\ events'[id] = events[id]
      BY <2>2
    <2>3. CASE ApplyRetention
      <3>1. /\ id \in DOMAIN events' /\ RowInv(events'[id])
            /\ \A column \in Columns \ {"archived_at"} : events'[id][column] = events[id][column]
            /\ events[id].archived_at \in {NULL, events'[id].archived_at}
        BY <1>1, <2>3, ArchivedRows
      <3>2. \A column \in FrozenColumns : events'[id][column] = events[id][column]
        BY <3>1 DEF Columns, FrozenColumns
      <3>3. events'[id].event_hash = events[id].event_hash
        BY <3>2 DEF FrozenColumns
      <3> QED
        BY <2>1, <3>1, <3>2, <3>3, RedactedRowKeeps
    <2>4. ASSUME NEW w \in Workers, RewriteTarget(w), id = red[w].target PROVE Kept(id)
      <3>1. PICK n : n = events'[id]
        OBVIOUS
      <3>2. /\ id \in DOMAIN events' /\ SeenInv(w)
            /\ n = RedactedRow(events[id], red[w].seen, red[w].fields, red[w].now)
        BY <1>1, <2>4, <3>1, RewrittenRows
      <3>3. /\ \A column \in FrozenColumns : n[column] = events[id][column]
            /\ n.archived_at = events[id].archived_at
        BY <2>1, <3>2, RedactedColumns DEF RowInv
      <3>4. red[w].now \in 0..MaxTime
        BY <1>1, <2>4 DEF RedIInv, SessionInv, ServingInv, RewriteTarget
      <3>5. RowInv(n)
        BY <2>1, <2>4, <3>2, <3>4, RedactedRowInv DEF SeenInv
      <3>6. n.event_hash = events[id].event_hash
        BY <3>3 DEF FrozenColumns
      <3>7. \A f \in DOMAIN events[id].redacted_field_hashes \cap DOMAIN n.redacted_field_hashes :
              n.redacted_field_hashes[f] = events[id].redacted_field_hashes[f]
        BY <2>1, <3>5, <3>6, RedactedRowKeeps
      <3> QED
        BY <3>1, <3>2, <3>3, <3>7
    <2> QED
      BY <1>1, <2>2, <2>3, <2>4, RowsChangedBy, CommittedRows, RewrittenRows
  <1>2. RedIInv /\ [RedNext]_redVars => [\A id \in DOMAIN events : Kept(id)]_redVars
    BY <1>1
  <1> QED
    BY <1>2, RedInvariance, PTL DEF RedSpec, HistoryFrozen

-----------------------------------------------------------------------------
(* What verification finds.                                                *)

\* The hash of an unredacted row's content is the hash it was created with.
LEMMA UntouchedHash ==
  ASSUME NEW row, RowInv(row), row.redacted_at = NULL
  PROVE  Verification!ContentHash(row) = row.event_hash
  BY DEF RowInv, compute_event_hash, Sha256,
    Verification!ContentHash, Verification!compute_event_hash, Verification!Sha256

\* The walk expects of every row the link that it has.
LEMMA LinksAsExpected ==
  ASSUME RecordsInv, NEW id \in DOMAIN events
  PROVE  events[id].previous_hash = Verification!ExpectedPreviousHash(events, id)
  <1> DEFINE before == {j \in DOMAIN events : j < id}
  <1>1. \A j \in DOMAIN events : j \in Nat
    BY DEF RecordsInv
  <1>2. CASE IsFirst(id) /\ events[id].previous_hash = GENESIS_HASH
    <2>1. before = {}
      BY <1>1, <1>2 DEF IsFirst
    <2> QED
      BY <1>2, <2>1 DEF Verification!ExpectedPreviousHash, Verification!GENESIS_HASH, GENESIS_HASH
  <1>3. ASSUME NEW j \in DOMAIN events, Adjacent(j, id), events[id].previous_hash = events[j].event_hash
        PROVE  events[id].previous_hash = Verification!ExpectedPreviousHash(events, id)
    <2>1. j \in before /\ \A k \in before : k <= j
      BY <1>1, <1>3 DEF Adjacent
    <2>2. \A i \in before : (\A k \in before : k <= i) => i = j
      BY <1>1, <2>1
    <2>3. (CHOOSE i \in before : \A k \in before : k <= i) = j
      BY <2>1, <2>2
    <2> QED
      BY <1>3, <2>1, <2>3 DEF Verification!ExpectedPreviousHash
  <1> QED
    BY <1>2, <1>3 DEF RecordsInv, LinearChain

\* Verification blames no link and no record that was never redacted.
LEMMA VerdictsAreAboutRedactions ==
  ASSUME RecordsInv, NEW id \in DOMAIN events
  PROVE  Verification!Verdict(events, id) \in
           {"ok", "REDACTION_COMMITMENT_MISSING", "REDACTED_CONTENT_MISMATCH"}
  <1>1. RowInv(events[id])
    BY DEF RecordsInv
  <1>2. Verification!ContentVerdict(events, id) \in
          {"ok", "REDACTION_COMMITMENT_MISSING", "REDACTED_CONTENT_MISMATCH"}
    BY <1>1, UntouchedHash DEF Verification!ContentVerdict
  <1> QED
    BY <1>2, LinksAsExpected DEF Verification!Verdict

\* Whatever redactions overlap or fail, verification never reports a broken
\* link, nor a changed record that no redaction touched.
THEOREM NoFalseBlame == RedSpec => []OnlyRedactionsAreBlamed
  <1>1. RedIInv => OnlyRedactionsAreBlamed
    BY VerdictsAreAboutRedactions DEF RedIInv, OnlyRedactionsAreBlamed
  <1> QED
    BY <1>1, RedInvariance, PTL

-----------------------------------------------------------------------------
(* Refinement.                                                             *)

\* The system with redaction starts where the abstract log does.
LEMMA RedLogInit == RedInit => RedLog!Init
  BY DEF RedInit, Init, RedLog!Init

\* First contents survive every step.
LEMMA ContentsKept ==
  ASSUME RedIInv, [RedNext]_redVars, NEW id \in DOMAIN events
  PROVE  id \in DOMAIN events' /\ Original(id)' = Original(id)
  <1>1. CASE UNCHANGED events
    BY <1>1 DEF Original
  <1>2. ASSUME NEW w \in Workers, CommitAppend(w) PROVE id \in DOMAIN events' /\ Original(id)' = Original(id)
    BY <1>2, CommittedRows DEF Original
  <1>3. ASSUME NEW w \in Workers, RewriteTarget(w) PROVE id \in DOMAIN events' /\ Original(id)' = Original(id)
    <2>1. CASE id # red[w].target
      BY <1>3, <2>1, RewrittenRows DEF Original
    <2>2. CASE id = red[w].target
      <3>1. PICK n : n = events'[id]
        OBVIOUS
      <3>2. DOMAIN events[id] = Columns
        BY DEF RedIInv, RecordsInv, RowInv
      <3>3. id \in DOMAIN events' /\ n = RedactedRow(events[id], red[w].seen, red[w].fields, red[w].now)
        BY <1>3, <2>2, <3>1, RewrittenRows
      <3>4. n.event_hash = events[id].event_hash
        BY <3>2, <3>3, RedactedColumns DEF FrozenColumns
      <3> QED
        BY <3>1, <3>3, <3>4 DEF Original, FirstContent
    <2> QED
      BY <2>1, <2>2
  <1>4. CASE ApplyRetention
    <2>1. FrozenRows
      BY <1>4, RetentionStep
    <2> QED
      BY <2>1, FrozenReads DEF FrozenRows
  <1> QED
    BY <1>1, <1>2, <1>3, <1>4, RowsChangedBy

\* A commit appends one record to the abstract log.
LEMMA RedCommitIsAccept ==
  ASSUME RedIInv, NEW w \in Workers, CommitAppend(w)
  PROVE  RedLog!Accept
  <1>0. PICK id, who : id = result[w] /\ who = [username |-> req[w].username, key |-> req[w].key]
    OBVIOUS
  <1>1. /\ pc[w] = "commit" /\ Published(w, id) /\ UNCHANGED replies
        /\ DOMAIN origin = DOMAIN events
        /\ (who.key # NULL) => ~IdempotencyKeyTaken(req[w])
    BY <1>0 DEF CommitAppend, Commit, RedIInv, RecordsInv, RedKeyInv, SessionInv, AppendInv
  <1>2. /\ id \notin DOMAIN events /\ \A j \in DOMAIN events : j < id
        /\ DOMAIN events' = DOMAIN events \cup {id}
        /\ \A j \in DOMAIN events : events'[j] = events[j]
    BY <1>0, CommittedRows
  <1>3. /\ DOMAIN origin' = DOMAIN origin \cup {id} /\ origin'[id] = who
        /\ \A j \in DOMAIN origin : origin'[j] = origin[j]
    BY <1>0, <1>1, <1>2 DEF Published
  <1>4. \A j \in DOMAIN origin : (who.key # NULL) => (origin[j] # who)
    BY <1>0, <1>1 DEF RedIInv, RecordsInv, RedKeyInv, IdempotencyKeyTaken, get_idempotency_record
  <1>5. \A j \in DOMAIN events : Original(j)' = Original(j)
    BY <1>2 DEF Original
  <1> DEFINE old == [i \in DOMAIN events |-> Content(Original(i))]
             new == [i \in DOMAIN events' |-> Content(Original(i)')]
  <1>6. RedLog!Extends(new, old, id)
    BY <1>2, <1>5 DEF RedLog!Extends
  <1>7. new = [i \in DOMAIN events |-> Content(Original(i))]'
    BY DEF Content, RequestContent
  <1> HIDE DEF new
  <1> QED
    BY <1>1, <1>2, <1>3, <1>4, <1>6, <1>7 DEF RedLog!Accept, RedLog!Extends
\* A step that changes no first content, no origin and no reply leaves the
\* abstract log alone.
LEMMA LogKept ==
  ASSUME RedIInv, [RedNext]_redVars, DOMAIN events' = DOMAIN events, UNCHANGED <<origin, replies>>
  PROVE  UNCHANGED (RedLog!vars)
  <1>1. \A id \in DOMAIN events : Content(Original(id)') = Content(Original(id))
    BY ContentsKept
  <1>2. [id \in DOMAIN events' |-> Content(Original(id)')] = [id \in DOMAIN events |-> Content(Original(id))]
    BY <1>1
  <1>3. [id \in DOMAIN events |-> Content(Original(id))]' = [id \in DOMAIN events' |-> Content(Original(id)')]
    BY DEF Content, RequestContent
  <1>4. [id \in DOMAIN events |-> Content(Original(id))]' = [id \in DOMAIN events |-> Content(Original(id))]
    BY <1>2, <1>3
  <1> QED
    BY <1>4 DEF RedLog!vars

\* An answer tells of one record of the abstract log.
LEMMA RedRespondIsAnswer ==
  ASSUME RedIInv, [RedNext]_redVars, NEW w \in Workers, RespondToAppend(w)
  PROVE  RedLog!Answer
  <1>1. /\ result[w] \in DOMAIN events
        /\ Content(Original(result[w])) = RequestContent(req[w].tenant_id, req[w].event_in)
        /\ (req[w].key # NULL) =>
             (origin[result[w]] = [username |-> req[w].username, key |-> req[w].key])
    BY DEF RedIInv, SessionInv, AppendInv, RespondToAppend, Respond
  <1> DEFINE said(r) == [origin   |-> [username |-> r.username, key |-> r.key],
                         content  |-> RequestContent(r.tenant_id, r.event_in),
                         event_id |-> r.event_id]
             r0 == [username  |-> req[w].username,
                    key       |-> req[w].key,
                    tenant_id |-> req[w].tenant_id,
                    event_in  |-> req[w].event_in,
                    event_id  |-> result[w]]
  <1>2. replies' = replies \cup {r0} /\ UNCHANGED <<events, origin>>
    BY DEF RespondToAppend, Respond, table
  <1>3. /\ said(r0).event_id = result[w]
        /\ said(r0).content = RequestContent(req[w].tenant_id, req[w].event_in)
        /\ said(r0).origin = [username |-> req[w].username, key |-> req[w].key]
    OBVIOUS
  <1> HIDE DEF r0
  <1>4. PICK a : a = said(r0)
    OBVIOUS
  <1>5. /\ a.event_id \in DOMAIN events
        /\ Content(Original(a.event_id)) = a.content
        /\ (a.origin.key # NULL) => (origin[a.event_id] = a.origin)
    BY <1>1, <1>3, <1>4
  <1>6. {said(r) : r \in replies'} = {said(r) : r \in replies} \cup {a}
    BY <1>2, <1>4
  <1>7. a \in {said(r) : r \in replies'}
    BY <1>6
  <1>8. [id \in DOMAIN events |-> Content(Original(id))]' = [id \in DOMAIN events |-> Content(Original(id))]
    BY <1>2 DEF Original, Content, RequestContent
  <1> QED
    BY <1>2, <1>5, <1>6, <1>7, <1>8 DEF RedLog!Answer

\* Only commits and answers concern the abstract log.
LEMMA LogChangedBy ==
  ASSUME [RedNext]_redVars
  PROVE  \/ UNCHANGED <<origin, replies>>
         \/ \E w \in Workers : CommitAppend(w)
         \/ \E w \in Workers : RespondToAppend(w)
  <1> USE DEF history
  <1>1. ASSUME NEW w \in Workers, AppendStep(w) PROVE UNCHANGED <<origin, replies>>
    BY <1>1 DEF AppendStep, LockForAppend, KeyUnused, Replay, Conflict, ComputeEvent, InsertEvent,
      RecordIdempotencyKey
  <1>2. ASSUME NEW w \in Workers,
               \/ RedactionRefused(w) \/ ReadTarget(w) \/ RewriteTarget(w) \/ BuildCompanion(w)
               \/ CompanionRejected(w) \/ RespondToRedaction(w) \/ CloseRequest(w)
        PROVE  UNCHANGED <<origin, replies>>
    BY <1>2 DEF RedactionRefused, ReadTarget, RewriteTarget, BuildCompanion, CompanionRejected,
      RespondToRedaction, CloseRequest, CloseSession
  <1>3. ASSUME NEW w \in Workers, BeginAppend(w) \/ BeginRedaction(w) \/ AbortRequest(w)
        PROVE  UNCHANGED <<origin, replies>>
    BY <1>3 DEF BeginAppend, Begin, BeginRedaction, AbortRequest, Abort
  <1>4. PassTime \/ ApplyRetention => UNCHANGED <<origin, replies>>
    BY DEF PassTime, Tick, StepClockBack, ApplyRetention
  <1>5. UNCHANGED redVars => UNCHANGED <<origin, replies>>
    BY DEF redVars, vars
  <1> QED
    BY <1>1, <1>2, <1>3, <1>4, <1>5 DEF RedNext, RequestStep

\* Every step is a step of the abstract log or leaves it alone: redaction
\* and retention are invisible there.
LEMMA RedLogStep == RedIInv /\ [RedNext]_redVars => [RedLog!Next]_(RedLog!vars)
  <1> SUFFICES ASSUME RedIInv, [RedNext]_redVars PROVE [RedLog!Next]_(RedLog!vars)
    OBVIOUS
  <1>1. CASE \E w \in Workers : CommitAppend(w)
    BY <1>1, RedCommitIsAccept DEF RedLog!Next
  <1>2. CASE \E w \in Workers : RespondToAppend(w)
    BY <1>2, RedRespondIsAnswer DEF RedLog!Next
  <1>3. CASE ~ \E w \in Workers : CommitAppend(w) \/ RespondToAppend(w)
    <2>1. UNCHANGED <<origin, replies>>
      BY <1>3, LogChangedBy
    <2>2. DOMAIN events' = DOMAIN events
      BY <1>3, RowsChangedBy, RewrittenRows, ArchivedRows
    <2> QED
      BY <2>1, <2>2, LogKept
  <1> QED
    BY <1>1, <1>2, <1>3

\* With redactions and retention at work, the system still implements the
\* append-only log of first contents.
THEOREM RedRefinement == RedSpec => RedImplementsLog
  <1> QED
    BY RedInvariance, RedLogInit, RedLogStep, PTL DEF RedSpec, RedLog!Spec, RedImplementsLog
=============================================================================
