--------------------------- MODULE AuditRedaction ---------------------------
(***************************************************************************)
(* The write path together with the two operations that change committed   *)
(* rows: redaction (POST /audit/events/{id}/redact, redaction_service) and *)
(* retention (POST /audit/retention/apply, retention_service).             *)
(*                                                                         *)
(* A redaction is two transactions of one session: the first rewrites the  *)
(* target row, without the append lock and from the row read before it;    *)
(* the second appends the companion event through create_audit_event.      *)
(* Between and around them run other requests, and a crash can come at any *)
(* point.  Retention is one UPDATE statement and its commit.               *)
(***************************************************************************)
EXTENDS AuditAppend

CONSTANTS
    Redactors,          \* the workers that may serve a redaction request
    CompanionTargets,   \* whether a redaction may aim at a companion event
    Fields,             \* sets of payload fields a request may name
    Reasons,            \* reasons a request may give: NULL, "fits", "overlong"
    Admin,              \* the acting administrator, actor of the companions
    Marker,             \* REDACTED_MARKER
    RetentionWindow     \* retention_window_days, in clock units

ASSUME RedactorsAssumption == Redactors \subseteq Workers
ASSUME RetentionAssumption == RetentionWindow \in Nat
ASSUME ReasonsAssumption   == Reasons \subseteq {NULL, "fits", "overlong"}
ASSUME NullTimeAssumption  == NULL \notin Nat
ASSUME ThreadsAssumption   == IsFiniteSet(Workers)

VARIABLE
    red           \* the redaction each worker is serving, or NoRedaction

VARIABLE
    interrupted   \* history: targets rewritten by a redaction that then failed

redVars == <<vars, red, interrupted>>

Verification == INSTANCE ChainVerification

-----------------------------------------------------------------------------
\* Mutant: a field may be redacted again.
FieldsToRedactAgain(row, fields) == fields \cap DOMAIN row.payload

\* The fields a request really redacts: present, and not redacted before.
FieldsToRedact(row, fields) ==
    {f \in fields : f \in DOMAIN row.payload /\ f \notin row.redacted_fields}

RedactedPayload(row, fields) ==
    [f \in DOMAIN row.payload |-> IF f \in fields THEN Marker ELSE row.payload[f]]

\* The hashes of the values that redactions have removed so far.
RedactedHashes(seen, fields) ==
    [f \in DOMAIN seen.redacted_field_hashes \cup fields |->
       IF f \in fields THEN hash_field_value(seen.payload[f])
                       ELSE seen.redacted_field_hashes[f]]

\* Mutants: the row read earlier is written back as a whole; the list of
\* redacted fields is replaced; the row is not marked as redacted.
RedactedRowWrittenBack(row, seen, fields, now) ==
    [seen EXCEPT
       !.payload = RedactedPayload(seen, fields),
       !.redacted_fields = @ \cup fields,
       !.redacted_field_hashes = RedactedHashes(seen, fields),
       !.redacted_at = now]

RedactedRowForgetting(row, seen, fields, now) ==
    [RedactedRowWrittenBack(row, seen, fields, now) EXCEPT
       !.archived_at = row.archived_at, !.redacted_fields = fields]

RedactedRowUnmarked(row, seen, fields, now) ==
    [RedactedRowWrittenBack(row, seen, fields, now) EXCEPT
       !.archived_at = row.archived_at, !.redacted_at = NULL]

\* repo.redact_event_fields: the four columns the UPDATE sets, computed from
\* the row the session read earlier.
RedactedRow(row, seen, fields, now) ==
    [row EXCEPT
       !.payload = RedactedPayload(seen, fields),
       !.redacted_fields = seen.redacted_fields \cup fields,
       !.redacted_field_hashes = RedactedHashes(seen, fields),
       !.redacted_at = now]

\* Mutant: the commitment to the row as it was before this redaction.
RedactedContentHashBefore(seen, fields) ==
    compute_event_hash(seen.tenant_id, seen, seen.timestamp, seen.previous_hash)

\* The commitment to everything the row is now allowed to contain.
RedactedContentHash(seen, fields) ==
    compute_event_hash(seen.tenant_id,
                       [seen EXCEPT !.payload = RedactedPayload(seen, fields)],
                       seen.timestamp, seen.previous_hash)

NoRedaction == [target |-> NULL, fields |-> {}, reason |-> NULL, seen |-> NULL, now |-> NULL]

Serving(w) == red[w].target # NULL

Companion(r) ==
    LET fixed == [targetEventId       |-> r.target,
                  redactedFields      |-> r.fields,
                  redactedContentHash |-> RedactedContentHash(r.seen, r.fields)]
    IN  [event_type |-> Verification!REDACTION_EVENT_TYPE,
         subject    |-> <<Admin, "AUDIT_EVENT", r.target>>,
         payload    |-> IF r.reason = NULL THEN fixed
                        ELSE [f \in DOMAIN fixed \cup {"reason"} |->
                                IF f = "reason" THEN r.reason ELSE fixed[f]]]

-----------------------------------------------------------------------------
RedInit ==
    /\ Init
    /\ red = [w \in Workers |-> NoRedaction]
    /\ interrupted = {}

\* pc values of the requests that have been promised an id.
Promised == BeforeInsert \cup {"read", "rewrite", "companion"}

\* RoomForId, with the ids promised to redactions that have none yet.
RoomForCompanion ==
    nextId + Cardinality({w \in Workers : pc[w] \in Promised}) <= MaxId

BeginAppend(w) ==
    /\ RoomForCompanion
    /\ Begin(w)
    /\ UNCHANGED <<red, interrupted>>

BeginRedaction(w) ==
    /\ w \in Redactors /\ pc[w] = "idle" /\ RoomForCompanion
    /\ \E target \in 1..MaxId, fields \in Fields, reason \in Reasons :
         /\ (/\ target \in DOMAIN events
             /\ events[target].event_type = Verification!REDACTION_EVENT_TYPE) => CompanionTargets
         /\ red' = [red EXCEPT ![w] = [target |-> target, fields |-> fields,
                                       reason |-> reason, seen |-> NULL,
                                       now |-> clock]]
    /\ Goto(w, "read")
    /\ UNCHANGED <<table, lock, clock, session, history, interrupted>>

\* EventNotFoundError (404) and NoRedactableFieldsError (422).
RedactionRefused(w) ==
    /\ pc[w] = "read"
    /\ \/ red[w].target \notin DOMAIN events
       \/ /\ red[w].target \in DOMAIN events
          /\ FieldsToRedact(events[red[w].target], red[w].fields) = {}
    /\ Goto(w, "close")
    /\ UNCHANGED <<table, lock, clock, session, history, red, interrupted>>

\* get_event, and the fields that this request is going to redact.
ReadTarget(w) ==
    /\ pc[w] = "read"
    /\ red[w].target \in DOMAIN events
    /\ LET row == events[red[w].target]
           fields == FieldsToRedact(row, red[w].fields)
       IN  /\ fields # {}
           /\ red' = [red EXCEPT ![w] = [@ EXCEPT !.fields = fields, !.seen = row]]
    /\ Goto(w, "rewrite")
    /\ UNCHANGED <<table, lock, clock, session, history, interrupted>>

\* The first transaction: UPDATE by primary key, commit, refresh.
RewriteTarget(w) ==
    /\ pc[w] = "rewrite"
    /\ events' = [events EXCEPT ![red[w].target] =
                    RedactedRow(@, red[w].seen, red[w].fields, red[w].now)]
    /\ Goto(w, "companion")
    /\ UNCHANGED <<idem, nextId, lock, clock, session, history, red, interrupted>>

\* Mutant: the companion is appended without the append lock.
BuildCompanionUnlocked(w) ==
    /\ pc[w] = "companion"
    /\ red[w].reason # "overlong"
    /\ req' = [req EXCEPT ![w] = [username  |-> NULL,
                                  key       |-> NULL,
                                  tenant_id |-> red[w].seen.tenant_id,
                                  event_in  |-> Companion(red[w])]]
    /\ Goto(w, "compute")
    /\ UNCHANGED <<table, lock, clock, staged, result, history, red, interrupted>>

\* The companion's content passes AuditEventCreate's validators, and the
\* second transaction begins, without an idempotency key and in the
\* target's tenant.
BuildCompanion(w) ==
    /\ pc[w] = "companion"
    /\ red[w].reason # "overlong"
    /\ req' = [req EXCEPT ![w] = [username  |-> NULL,
                                  key       |-> NULL,
                                  tenant_id |-> red[w].seen.tenant_id,
                                  event_in  |-> Companion(red[w])]]
    /\ Goto(w, "lock")
    /\ UNCHANGED <<table, lock, clock, staged, result, history, red, interrupted>>

\* AuditEventCreate's payload limits count the reason too: its ValidationError
\* leaves the service after the first transaction committed.
CompanionRejected(w) ==
    /\ pc[w] = "companion"
    /\ red[w].reason = "overlong"
    /\ interrupted' = interrupted \cup {red[w].target}
    /\ Goto(w, "close")
    /\ UNCHANGED <<table, lock, clock, session, history, red>>

\* The steps of create_audit_event serve a POST and a companion alike.  A
\* companion's commit repairs what an earlier failed redaction of the same
\* target left, because it commits to the row's whole content.
AppendStep(w) ==
    /\ \/ LockForAppend(w) \/ KeyUnused(w) \/ Replay(w) \/ Conflict(w)
       \/ ComputeEvent(w) \/ InsertEvent(w) \/ RecordIdempotencyKey(w)
    /\ UNCHANGED <<red, interrupted>>

CommitAppend(w) ==
    /\ Commit(w)
    /\ interrupted' = IF Serving(w) THEN interrupted \ {red[w].target} ELSE interrupted
    /\ UNCHANGED red

\* A redaction's own answer is not one of POST /audit/events.
RespondToRedaction(w) ==
    /\ pc[w] = "respond" /\ Serving(w)
    /\ Goto(w, "close")
    /\ UNCHANGED <<table, lock, clock, session, history, red, interrupted>>

RespondToAppend(w) ==
    /\ ~Serving(w)
    /\ Respond(w)
    /\ UNCHANGED <<red, interrupted>>

\* Mutant: the session is closed after an answer, not in a finally clause.
CloseAnsweredRequest(w) ==
    /\ result[w] # NULL
    /\ CloseSession(w)
    /\ red' = [red EXCEPT ![w] = NoRedaction]
    /\ UNCHANGED interrupted

CloseRequest(w) ==
    /\ CloseSession(w)
    /\ red' = [red EXCEPT ![w] = NoRedaction]
    /\ UNCHANGED interrupted

\* The target is rewritten and its companion not yet committed.
HalfDone(w) ==
    /\ Serving(w)
    /\ pc[w] \in {"companion", "lock", "compute", "insert", "commit"}

AbortRequest(w) ==
    /\ Abort(w)
    /\ red' = [red EXCEPT ![w] = NoRedaction]
    /\ interrupted' = interrupted \cup (IF HalfDone(w) THEN {red[w].target} ELSE {})

\* archive_events_older_than: one bulk UPDATE, committed at once.
ApplyRetention ==
    /\ \E id \in DOMAIN events :
         events[id].archived_at = NULL /\ events[id].timestamp < clock - RetentionWindow
    /\ events' = [id \in DOMAIN events |->
                    IF /\ events[id].archived_at = NULL
                       /\ events[id].timestamp < clock - RetentionWindow
                    THEN [events[id] EXCEPT !.archived_at = clock]
                    ELSE events[id]]
    /\ UNCHANGED <<idem, nextId, lock, clock, pc, session, history, red, interrupted>>

PassTime == (Tick \/ StepClockBack) /\ UNCHANGED <<red, interrupted>>

RequestStep(w) ==
    \/ RedactionRefused(w) \/ ReadTarget(w) \/ RewriteTarget(w)
    \/ BuildCompanion(w) \/ CompanionRejected(w)
    \/ AppendStep(w) \/ CommitAppend(w)
    \/ RespondToRedaction(w) \/ RespondToAppend(w) \/ CloseRequest(w)

RedNext ==
    \/ \E w \in Workers :
         BeginAppend(w) \/ BeginRedaction(w) \/ RequestStep(w) \/ AbortRequest(w)
    \/ ApplyRetention
    \/ PassTime

RedFairness ==
    \A w \in Workers : /\ WF_redVars(RequestStep(w))
                       /\ SF_redVars(LockForAppend(w) /\ UNCHANGED <<red, interrupted>>)

RedSpec == RedInit /\ [][RedNext]_redVars /\ RedFairness

-----------------------------------------------------------------------------
(* Correctness.                                                            *)

\* The columns a row's hash and link were computed from, and all of them.
FrozenColumns == {"tenant_id", "event_type", "subject", "timestamp", "previous_hash", "event_hash"}

Columns == FrozenColumns \cup {"payload", "archived_at", "redacted_at", "redacted_fields",
                               "redacted_field_hashes"}

\* The document a row's event_hash was computed from: its first content.
FirstContent(row) == Hashed(row.event_hash)
Original(id) == FirstContent(events[id])

RedPcValues == PcValues \cup {"read", "rewrite", "companion"}

\* Types: a row keeps its shape, whatever is done to it, and a session in a
\* redaction knows the row it read.
RedTypeOK ==
    /\ DOMAIN events \subseteq 1..MaxId /\ nextId \in 1..(MaxId + 1)
    /\ \A id \in DOMAIN events :
         /\ events[id].tenant_id \in Tenants
         /\ events[id].timestamp \in 0..MaxTime
         /\ events[id].archived_at \in (0..MaxTime) \cup {NULL}
         /\ events[id].redacted_at \in (0..MaxTime) \cup {NULL}
         /\ DOMAIN events[id].redacted_field_hashes = events[id].redacted_fields
    /\ pc \in [Workers -> RedPcValues]
    /\ \A w \in Workers :
         /\ Serving(w) => (w \in Redactors)
         /\ (pc[w] \in {"rewrite", "companion"}) => (red[w].target \in DOMAIN events)
    /\ interrupted \subseteq DOMAIN events

\* Redaction and retention change a committed row only as they should: what
\* its hash and link were computed from stays (redact_event_fields "never
\* touches event_hash, previous_hash, or timestamp"), an archived record
\* stays archived since the same time, even by a redaction that read it
\* before, and the hash kept of a redacted value is never replaced.
HistoryFrozen ==
    [][\A id \in DOMAIN events :
         /\ id \in DOMAIN events'
         /\ \A column \in FrozenColumns : events'[id][column] = events[id][column]
         /\ events[id].archived_at \in {NULL, events'[id].archived_at}
         /\ \A f \in DOMAIN events[id].redacted_field_hashes
                       \cap DOMAIN events'[id].redacted_field_hashes :
              events'[id].redacted_field_hashes[f] = events[id].redacted_field_hashes[f]]_redVars

AccountsForFields(row) ==
    LET first == FirstContent(row).payload
    IN  /\ DOMAIN row.payload = DOMAIN first
        /\ row.redacted_fields \subseteq DOMAIN first
        /\ (row.redacted_at = NULL) <=> (row.redacted_fields = {})
        /\ \A f \in DOMAIN first :
             IF f \in row.redacted_fields
             THEN /\ row.payload[f] = Marker
                  /\ row.redacted_field_hashes[f] = hash_field_value(first[f])
             ELSE row.payload[f] = first[f]

\* Whatever redactions overlap, a row accounts for every field it was
\* created with: still its first value, or the marker, listed as redacted
\* and with the hash of that first value, never the marker's hash.
RowsAccountForFields == \A id \in DOMAIN events : AccountsForFields(events[id])

\* No legal sequence of calls makes verification blame a link or a record
\* that was never redacted: what it may find wrong is a redaction.
OnlyRedactionsAreBlamed ==
    \A id \in DOMAIN events : Verification!Verdict(events, id) \in
        {"ok", "REDACTION_COMMITMENT_MISSING", "REDACTED_CONTENT_MISMATCH"}

Marked(row) == row.redacted_at # NULL

\* Records whose redaction is between its two transactions, or failed there.
HalfDoneTargets == interrupted \cup {red[w].target : w \in {v \in Workers : HalfDone(v)}}

\* Event c was created as a companion of record id, by the service or by a
\* client: AuditEventCreate.event_type is any text.
IsAbout(c, id) ==
    /\ events[c].event_type = Verification!REDACTION_EVENT_TYPE
    /\ "targetEventId" \in DOMAIN Original(c).payload
    /\ Original(c).payload["targetEventId"] = id

\* Records of which not only finished redactions decide what verification
\* says: a client posted an event of the companions' type about it, or one of
\* its companions was redacted itself, or it was posted with the marker in it.
Disputed ==
    {id \in DOMAIN events :
       \/ \E c \in DOMAIN events : IsAbout(c, id) /\ (origin[c].username # NULL \/ Marked(events[c]))
       \/ \E f \in DOMAIN Original(id).payload : Original(id).payload[f] = Marker}

\* With redactions one at a time, the records verification would blame are
\* exactly those whose redaction is between its two transactions or failed
\* there, and it stops at the first of them; disputed records excepted, which
\* redact_posted_companion shows to be blamed without cause.
BlameIsHalfDoneRedaction ==
    LET answer  == Verification!verify_chain(events)
        certain == HalfDoneTargets \ Disputed
    IN  /\ Verification!Violating(events) \ Disputed = certain
        /\ answer.intact => (certain = {})
        /\ ~answer.intact => /\ answer.record_id \in certain \cup Disputed
                             /\ \A id \in certain : answer.record_id <= id

\* What verification can tell of a record: all that its hash covers, the
\* hash itself, and whether it is marked as redacted.
VerifiedColumns == FrozenColumns \cup {"payload"}
SameRecord(row, other) == \A column \in VerifiedColumns : row[column] = other[column]

\* Table log is table rows after somebody wrote to some rows directly, not
\* through the service: the last record keeps its hash, and no mark of a
\* redaction is taken away, or given to a record that is changed besides.
ChangedDirectly(rows, log) ==
    /\ DOMAIN log = DOMAIN rows
    /\ \A id \in DOMAIN rows :
         /\ (\A j \in DOMAIN rows : j <= id) => (log[id].event_hash = rows[id].event_hash)
         /\ Marked(rows[id]) => Marked(log[id])
         /\ Marked(log[id]) => (Marked(rows[id]) \/ SameRecord(log[id], rows[id]))
    /\ \E id \in DOMAIN rows :
         ~SameRecord(log[id], rows[id]) \/ (Marked(log[id]) /\ ~Marked(rows[id]))

\* Some rows were deleted directly, but not the last.
DeletedDirectly(rows, log) ==
    /\ DOMAIN log \subseteq DOMAIN rows /\ DOMAIN log # DOMAIN rows
    /\ \A id \in DOMAIN rows \ DOMAIN log : \E j \in DOMAIN log : id < j
    /\ \A id \in DOMAIN log : log[id] = rows[id]

\* For TLC, some such tables: another value in one column of a record, or of
\* all but the last, perhaps with a hash that fits, and any records deleted.
\* (The columns left out are hashed, and nothing else asks for them.)
EditedColumns == {"event_type", "payload", "previous_hash", "event_hash", "redacted_at"}

Edited(row, column) ==
    CASE column = "payload"     -> [row EXCEPT !.payload = [f \in DOMAIN @ |-> NULL]]
      [] column = "redacted_at" -> [row EXCEPT !.redacted_at = 0]
      [] OTHER                  -> [row EXCEPT ![column] = NULL]

Rehashed(row) == [row EXCEPT !.event_hash = Verification!ContentHash(row)]

EditedIds(rows) == {{id} : id \in DOMAIN rows}
                     \cup {{id \in DOMAIN rows : \E j \in DOMAIN rows : id < j}}

TablesAfter(rows) ==
    {[id \in DOMAIN rows |-> IF id \in ids THEN Edited(rows[id], column) ELSE rows[id]] :
       ids \in EditedIds(rows), column \in EditedColumns}
    \cup {[id \in DOMAIN rows |-> IF id \in ids THEN Rehashed(Edited(rows[id], column)) ELSE rows[id]] :
       ids \in EditedIds(rows), column \in EditedColumns \ {"event_hash"}}
    \cup {[id \in ids |-> rows[id]] : ids \in SUBSET DOMAIN rows}

\* Whatever commits to a record comes after it, and after its redaction.
\* Companions do; an event of their type that a client posts need not.
CompanionsFollow ==
    \A c, id \in DOMAIN events :
      Verification!CommitsTo(events[c], id) => (id < c /\ Marked(events[id]))

\* While verification finds the log intact, it would find any change that was
\* made to it directly: an edited record, redacted or not, with or without a
\* hash that fits, a mark with no redaction behind it, an edited commitment,
\* a deleted record (requirements.md, 7: "verify the chain again (detects
\* the change)").  Unless a client vouched for a record in advance, with an
\* event of the companions' type: what that event commits to would pass.
DirectChangesAreFound ==
    (Verification!Violating(events) = {} /\ CompanionsFollow) =>
      \A log \in TablesAfter(events) :
        (ChangedDirectly(events, log) \/ DeletedDirectly(events, log))
          => Verification!Violating(log) # {}

\* Once redacted, a field stays redacted: its raw value is gone for good and
\* the list of redacted fields is cumulative (AuditEvent.redacted_fields:
\* "cumulative across repeated redaction calls").
RedactedStaysRedacted ==
    [][\A id \in DOMAIN events :
         /\ events[id].redacted_fields \subseteq events'[id].redacted_fields
         /\ \A f \in events[id].redacted_fields : events'[id].payload[f] = Marker]_redVars

AtRest == \A w \in Workers : pc[w] = "idle"

\* With no request in progress, every redacted record has its companion
\* event (redaction-design.md: a "mandatory companion audit event").
RedactedHasCompanion ==
    AtRest => \A id \in DOMAIN events :
      (events[id].redacted_at # NULL) => (Verification!LatestCommitment(events, id) # {})

\* With no request in progress, the last companion of a record commits to
\* the record's current content (_latest_redaction_commitments: "correctly
\* keeps only the commitment for a record's current content, even if it's
\* been redacted more than once").
LatestCommitmentIsCurrent ==
    AtRest => \A id \in DOMAIN events :
      Verification!LatestCommitment(events, id) \in
        {{}, {Verification!ContentHash(events[id])}}

\* With no request in progress, no record is reported as
\* REDACTED_CONTENT_MISMATCH: that would say that it was changed after its
\* redaction (ChainViolationType: "a non-redacted field was changed, or the
\* redacted field was changed to something other than the approved marker"),
\* which no request does.
MismatchMeansChanged ==
    AtRest => \A id \in DOMAIN events :
      Verification!Verdict(events, id) # "REDACTED_CONTENT_MISMATCH"

\* Every request ends here too, redactions included.
RedRequestsFinish == \A w \in Workers : (pc[w] # "idle") ~> (pc[w] = "idle")

\* Redaction and retention are invisible at the level of the abstract log:
\* its records are the contents the rows were created with.
RedLog == INSTANCE AppendOnlyLog WITH
    log     <- [id \in DOMAIN events |-> Content(Original(id))],
    origin  <- origin,
    answers <- {[origin   |-> [username |-> r.username, key |-> r.key],
                 content  |-> RequestContent(r.tenant_id, r.event_in),
                 event_id |-> r.event_id] : r \in replies}

\* The system with redaction and retention still implements the
\* append-only log.
RedImplementsLog == RedLog!Spec

-----------------------------------------------------------------------------
(* The inductive invariant behind the safety properties.                   *)

\* A row is what its append committed, but for archiving and redaction.
RowInv(row) ==
    LET first == FirstContent(row)
    IN  /\ DOMAIN row = Columns
        /\ row.tenant_id \in Tenants /\ row.timestamp \in 0..MaxTime
        /\ row.archived_at \in (0..MaxTime) \cup {NULL}
        /\ row.redacted_at \in (0..MaxTime) \cup {NULL}
        /\ row.event_hash = compute_event_hash(row.tenant_id,
                                [event_type |-> row.event_type, subject |-> row.subject,
                                 payload    |-> first.payload],
                                row.timestamp, row.previous_hash)
        /\ (row.redacted_at = NULL) => (row.payload = first.payload)
        /\ DOMAIN row.redacted_field_hashes = row.redacted_fields
        /\ AccountsForFields(row)

\* The committed keys and the records they stand for, by their first content.
RedKeyInv ==
    /\ DOMAIN origin = DOMAIN events
    /\ \A k \in idem :
         /\ k.event_id \in DOMAIN events
         /\ origin[k.event_id] = [username |-> k.username, key |-> k.idempotency_key]
         /\ k.request_fingerprint = Sha256(Content(Original(k.event_id)))
    /\ \A id \in DOMAIN origin : origin[id].key # NULL =>
         \E k \in idem : k.username = origin[id].username /\ k.idempotency_key = origin[id].key

\* What is committed.
RecordsInv ==
    /\ DOMAIN events \subseteq Nat \ {0} /\ nextId \in Nat \ {0} /\ clock \in 0..MaxTime
    /\ \A id \in DOMAIN events : RowInv(events[id])
    /\ IdInv /\ RedKeyInv
    /\ LinearChain /\ OneEventPerKey /\ TimestampsFollowIds
    /\ interrupted \subseteq DOMAIN events

\* The row a redaction works with may be outdated in what redaction and
\* retention change, and in nothing else.
SeenInv(w) ==
    LET r == red[w]
    IN  /\ r.target \in DOMAIN events
        /\ RowInv(r.seen)
        /\ \A column \in FrozenColumns : r.seen[column] = events[r.target][column]
        /\ r.fields # {}
        /\ r.fields \subseteq DOMAIN r.seen.payload \ r.seen.redacted_fields

\* pc values of a redaction that has read its target.
PastRead == {"rewrite", "companion", "lock", "compute", "insert", "commit"}

ServingInv(w) ==
    /\ DOMAIN red[w] = DOMAIN NoRedaction
    /\ (pc[w] \in {"read", "rewrite", "companion"}) => Serving(w)
    /\ Serving(w) =>
         /\ w \in Redactors /\ red[w].now \in 0..MaxTime
         /\ pc[w] \notin {"idle", "lookup", "record"}
         /\ (pc[w] \in PastRead) => SeenInv(w)

\* What create_audit_event was called with.
RequestInv(w) ==
    (pc[w] \in UnderLock \cup {"lock", "respond"}) =>
      /\ req[w].tenant_id \in Tenants
      /\ IF Serving(w) THEN req[w].key = NULL /\ req[w].event_in = Companion(red[w])
                       ELSE req[w].event_in \in Bodies
      /\ (pc[w] \in {"lookup", "record"}) => (req[w].key # NULL)

\* What it has read, staged and found, all of it under the lock.
AppendInv(w) ==
    /\ (pc[w] \in UnderLock) => (lock = w)
    /\ (lock = w) => (pc[w] \in UnderLock \cup {"respond", "close"})
    /\ (pc[w] \in {"insert", "record", "commit"}) =>
         /\ IsPreviousHash(staged[w].previous_hash)
         /\ staged[w] = AuditEvent(req[w], staged[w].timestamp, staged[w].previous_hash)
         /\ staged[w].timestamp \in 0..MaxTime
         /\ staged[w].timestamp <= clock \/ ClockMayStepBack
         /\ \A id \in DOMAIN events :
              events[id].timestamp <= staged[w].timestamp \/ ClockMayStepBack
    /\ (pc[w] \in AfterInsert) =>
         /\ result[w] \in Nat \ {0} /\ result[w] < nextId
         /\ \A id \in DOMAIN events : id < result[w]
         /\ ~EventHashTaken(staged[w])
    /\ (pc[w] \in {"compute", "insert", "record", "commit"} /\ req[w].key # NULL) =>
         ~IdempotencyKeyTaken(req[w])
    /\ (pc[w] = "respond") =>
         /\ result[w] \in DOMAIN events
         /\ Content(Original(result[w])) = RequestContent(req[w].tenant_id, req[w].event_in)
         /\ (req[w].key # NULL) =>
              (origin[result[w]] = [username |-> req[w].username, key |-> req[w].key])

SessionInv(w) == ServingInv(w) /\ RequestInv(w) /\ AppendInv(w)

\* Every request in progress still gets its id within the bound.
RoomInv == nextId + Cardinality({w \in Workers : pc[w] \in Promised}) <= MaxId + 1

\* Inductive.
RedIInv ==
    /\ pc \in [Workers -> RedPcValues] /\ lock \in Workers \cup {NULL}
    /\ req = [w \in Workers |-> req[w]] /\ staged = [w \in Workers |-> staged[w]]
    /\ result = [w \in Workers |-> result[w]] /\ red = [w \in Workers |-> red[w]]
    /\ RecordsInv
    /\ \A w \in Workers : SessionInv(w)
    /\ RoomInv

=============================================================================
