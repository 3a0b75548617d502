---------------------------- MODULE AuditAppend ----------------------------
(***************************************************************************)
(* The write path of the audit log: POST /audit/events, from the route     *)
(* through audit_event_service.create_audit_event and the repository down  *)
(* to the committed rows of audit_events and audit_event_idempotency_keys. *)
(*                                                                         *)
(* A worker is a thread serving one request in one database session.  The  *)
(* database is PostgreSQL at READ COMMITTED (external): what a session has *)
(* flushed is invisible to the others until it commits, an id comes from a *)
(* sequence that a rollback does not give back, and the advisory lock of   *)
(* lock_for_append is held until the transaction ends, by commit, rollback *)
(* or the session's close.                                                 *)
(*                                                                         *)
(* Each action is one statement of the session or one step of the handler  *)
(* between two statements, so every interleaving of sessions that the      *)
(* database allows is a behaviour.  Abort is a crash of the process, a     *)
(* dropped connection or any exception: the session rolls back.            *)
(*                                                                         *)
(* Authentication and the schema's checks come before Begin; the requests  *)
(* of Begin are those that passed them.                                    *)
(***************************************************************************)
EXTENDS Naturals, FiniteSets, Hashing

CONSTANTS
    Workers,          \* request threads, each with a session of its own
    Faulty,           \* the workers whose request may be cut short
    Users,            \* authenticated writers
    Tenants,
    TenantOf,         \* configured tenant of each user, NULL for none
    Keys,             \* values of the Idempotency-Key header
    Bodies,           \* request bodies [event_type, subject, payload]
    MaxId,            \* bound: ids the sequence may hand out
    MaxTime,          \* bound: latest wall-clock reading
    ClockMayStepBack, \* whether the wall clock may be set back
    NULL              \* Python None, SQL NULL

ASSUME WorkersAssumption == NULL \notin Workers /\ Faulty \subseteq Workers
ASSUME UsersAssumption   == TenantOf \in [Users -> Tenants \cup {NULL}]
ASSUME NullAssumption    == NULL \notin Users \cup Tenants \cup Keys
ASSUME BoundsAssumption  == MaxId \in Nat /\ MaxTime \in Nat
ASSUME ClockAssumption   == ClockMayStepBack \in BOOLEAN

VARIABLES
    events,   \* audit_events: committed rows, a function from id
    idem,     \* audit_event_idempotency_keys: set of committed rows
    nextId,   \* the id sequence of audit_events
    lock,     \* holder of the append lock, or NULL
    clock,    \* datetime.now(timezone.utc)
    pc,       \* what each worker does next
    req,      \* the arguments of each worker's create_audit_event
    staged,   \* the row each session is about to insert or has flushed
    result    \* id of the row the handler will return

VARIABLES
    origin,   \* history: who asked for each committed row
    replies   \* history: the successful answers of POST /audit/events

table   == <<events, idem, nextId>>
session == <<req, staged, result>>
history == <<origin, replies>>
vars    == <<table, lock, clock, pc, session, history>>

-----------------------------------------------------------------------------
(* Rows and lookups.                                                       *)

AuditEvent(r, timestamp, previous_hash) ==
    [tenant_id             |-> r.tenant_id,
     event_type            |-> r.event_in.event_type,
     subject               |-> r.event_in.subject,
     payload               |-> r.event_in.payload,
     timestamp             |-> timestamp,
     previous_hash         |-> previous_hash,
     event_hash            |-> compute_event_hash(r.tenant_id, r.event_in,
                                                  timestamp, previous_hash),
     archived_at           |-> NULL,
     redacted_at           |-> NULL,
     redacted_fields       |-> {},
     redacted_field_hashes |-> <<>>]

IdempotencyKey(r, event_id) ==
    [username            |-> r.username,
     idempotency_key     |-> r.key,
     request_fingerprint |-> compute_request_fingerprint(r.tenant_id, r.event_in),
     event_id            |-> event_id]

IsLastEvent(id) == id \in DOMAIN events /\ \A j \in DOMAIN events : j <= id

\* Mutant: archived records are not looked at.
IsPreviousHashOfActive(hash) ==
    LET active == {id \in DOMAIN events : events[id].archived_at = NULL}
    IN  \/ active = {} /\ hash = GENESIS_HASH
        \/ \E id \in active : (\A j \in active : j <= id) /\ hash = events[id].event_hash

\* get_last_event and the choice of previous_hash that follows it.
IsPreviousHash(hash) ==
    \/ DOMAIN events = {} /\ hash = GENESIS_HASH
    \/ \E id \in DOMAIN events : IsLastEvent(id) /\ hash = events[id].event_hash

\* Mutant: keys of all users in one namespace.
get_idempotency_record_of_any_user(r) == {k \in idem : k.idempotency_key = r.key}

get_idempotency_record(r) ==
    {k \in idem : k.username = r.username /\ k.idempotency_key = r.key}

\* The two unique constraints of the schema.
EventHashTaken(row)     == \E id \in DOMAIN events : events[id].event_hash = row.event_hash
IdempotencyKeyTaken(r) == get_idempotency_record(r) # {}

Goto(w, label) == pc' = [pc EXCEPT ![w] = label]

\* pc values between the append lock's acquisition and the insert, and
\* between the insert and the commit.
BeforeInsert == {"lock", "lookup", "compute", "insert"}
AfterInsert  == {"record", "commit"}

\* Ids not yet promised to a request in progress, so that the bound on ids
\* turns requests away and never stops one half way.
RoomForId == nextId + Cardinality({w \in Workers : pc[w] \in BeforeInsert}) <= MaxId

-----------------------------------------------------------------------------
Init ==
    /\ events = <<>> /\ idem = {} /\ nextId = 1
    /\ lock = NULL
    /\ clock = 0
    /\ pc = [w \in Workers |-> "idle"]
    /\ req    = [w \in Workers |-> NULL]
    /\ staged = [w \in Workers |-> NULL]
    /\ result = [w \in Workers |-> NULL]
    /\ origin = <<>> /\ replies = {}

\* A request reaches the route.  A user without a tenant is turned away
\* with 422 before the service is called.
Begin(w) ==
    /\ pc[w] = "idle" /\ RoomForId
    /\ \E user \in Users, key \in Keys \cup {NULL}, event_in \in Bodies :
         /\ TenantOf[user] # NULL
         /\ req' = [req EXCEPT ![w] = [username  |-> user,
                                       key       |-> key,
                                       tenant_id |-> TenantOf[user],
                                       event_in  |-> event_in]]
    /\ Goto(w, "lock")
    /\ UNCHANGED <<table, lock, clock, staged, result, history>>

\* Mutant: the lock is taken without waiting for its holder.
LockForAppendWithoutWaiting(w) ==
    /\ pc[w] = "lock"
    /\ lock' = w
    /\ Goto(w, IF req[w].key = NULL THEN "compute" ELSE "lookup")
    /\ UNCHANGED <<table, clock, session, history>>

LockForAppend(w) ==
    /\ pc[w] = "lock"
    /\ lock = NULL
    /\ lock' = w
    /\ Goto(w, IF req[w].key = NULL THEN "compute" ELSE "lookup")
    /\ UNCHANGED <<table, clock, session, history>>

\* _replay_or_conflict: the key is new to this user.
KeyUnused(w) ==
    /\ pc[w] = "lookup"
    /\ get_idempotency_record(req[w]) = {}
    /\ Goto(w, "compute")
    /\ UNCHANGED <<table, lock, clock, session, history>>

\* Mutant: a known key is answered with its event, whatever is asked for.
ReplayWithoutComparing(w) ==
    /\ pc[w] = "lookup"
    /\ \E existing \in get_idempotency_record(req[w]) :
         result' = [result EXCEPT ![w] = existing.event_id]
    /\ Goto(w, "respond")
    /\ UNCHANGED <<table, lock, clock, req, staged, history>>

\* _replay_or_conflict: the same request again; its event is the answer and
\* the transaction, with the lock, stays open until the session closes.
Replay(w) ==
    /\ pc[w] = "lookup"
    /\ \E existing \in get_idempotency_record(req[w]) :
         /\ existing.request_fingerprint =
              compute_request_fingerprint(req[w].tenant_id, req[w].event_in)
         /\ result' = [result EXCEPT ![w] = existing.event_id]
    /\ Goto(w, "respond")
    /\ UNCHANGED <<table, lock, clock, req, staged, history>>

\* _replay_or_conflict: the key was used for other content, 409.
Conflict(w) ==
    /\ pc[w] = "lookup"
    /\ \E existing \in get_idempotency_record(req[w]) :
         existing.request_fingerprint #
           compute_request_fingerprint(req[w].tenant_id, req[w].event_in)
    /\ Goto(w, "close")
    /\ UNCHANGED <<table, lock, clock, session, history>>

\* get_last_event, the timestamp, and the row with its hash.
ComputeEvent(w) ==
    /\ pc[w] = "compute"
    /\ \E previous_hash \in {GENESIS_HASH} \cup {events[id].event_hash : id \in DOMAIN events} :
         /\ IsPreviousHash(previous_hash)
         /\ staged' = [staged EXCEPT ![w] = AuditEvent(req[w], clock, previous_hash)]
    /\ Goto(w, "insert")
    /\ UNCHANGED <<table, lock, clock, req, result, history>>

\* insert_event: the flush takes an id from the sequence.
InsertEvent(w) ==
    /\ pc[w] = "insert"
    /\ ~EventHashTaken(staged[w])
    /\ result' = [result EXCEPT ![w] = nextId]
    /\ nextId' = nextId + 1
    /\ Goto(w, IF req[w].key = NULL THEN "commit" ELSE "record")
    /\ UNCHANGED <<events, idem, lock, clock, req, staged, history>>

\* record_idempotency_key: flushed, not committed.
RecordIdempotencyKey(w) ==
    /\ pc[w] = "record"
    /\ ~IdempotencyKeyTaken(req[w])
    /\ Goto(w, "commit")
    /\ UNCHANGED <<table, lock, clock, session, history>>

\* Mutant: the idempotency record is not part of the transaction.
PublishedWithoutKey(w, id) ==
    /\ events' = [i \in DOMAIN events \cup {id} |-> IF i = id THEN staged[w] ELSE events[i]]
    /\ idem' = idem
    /\ origin' = [i \in DOMAIN origin \cup {id} |->
                    IF i = id THEN [username |-> req[w].username, key |-> req[w].key]
                              ELSE origin[i]]
    /\ lock' = NULL

\* What db.commit() publishes, and the lock it lets go.
Published(w, id) ==
    /\ events' = [i \in DOMAIN events \cup {id} |-> IF i = id THEN staged[w] ELSE events[i]]
    /\ idem' = IF req[w].key = NULL THEN idem ELSE idem \cup {IdempotencyKey(req[w], id)}
    /\ origin' = [i \in DOMAIN origin \cup {id} |->
                    IF i = id THEN [username |-> req[w].username, key |-> req[w].key]
                              ELSE origin[i]]
    /\ lock' = NULL

Commit(w) ==
    /\ pc[w] = "commit"
    /\ Published(w, result[w])
    /\ Goto(w, "respond")
    /\ UNCHANGED <<nextId, clock, session, replies>>

\* refresh (after a commit) and the serialised answer.  The session is
\* still open.
Respond(w) ==
    /\ pc[w] = "respond"
    /\ replies' = replies \cup {[username  |-> req[w].username,
                                 key       |-> req[w].key,
                                 tenant_id |-> req[w].tenant_id,
                                 event_in  |-> req[w].event_in,
                                 event_id  |-> result[w]]}
    /\ Goto(w, "close")
    /\ UNCHANGED <<table, lock, clock, session, origin>>

\* Mutants: the lock outlives the session; a session frees a lock it does
\* not hold.
RollbackKeepingLock(w) ==
    /\ lock'   = lock
    /\ req'    = [req    EXCEPT ![w] = NULL]
    /\ staged' = [staged EXCEPT ![w] = NULL]
    /\ result' = [result EXCEPT ![w] = NULL]
    /\ Goto(w, "idle")

RollbackFreeingAnyLock(w) ==
    /\ lock'   = NULL
    /\ req'    = [req    EXCEPT ![w] = NULL]
    /\ staged' = [staged EXCEPT ![w] = NULL]
    /\ result' = [result EXCEPT ![w] = NULL]
    /\ Goto(w, "idle")

\* The session ends, with whatever transaction it still has.
Rollback(w) ==
    /\ lock'   = IF lock = w THEN NULL ELSE lock
    /\ req'    = [req    EXCEPT ![w] = NULL]
    /\ staged' = [staged EXCEPT ![w] = NULL]
    /\ result' = [result EXCEPT ![w] = NULL]
    /\ Goto(w, "idle")

\* db.close() in get_db's finally clause.
CloseSession(w) ==
    /\ pc[w] = "close"
    /\ Rollback(w)
    /\ UNCHANGED <<table, clock, history>>

Abort(w) ==
    /\ w \in Faulty /\ pc[w] \notin {"idle", "close"}
    /\ Rollback(w)
    /\ UNCHANGED <<table, clock, history>>

Tick ==
    /\ clock < MaxTime
    /\ clock' = clock + 1
    /\ UNCHANGED <<table, lock, pc, session, history>>

StepClockBack ==
    /\ ClockMayStepBack /\ clock > 0
    /\ clock' = clock - 1
    /\ UNCHANGED <<table, lock, pc, session, history>>

-----------------------------------------------------------------------------
\* The steps of create_audit_event, and of the route once it returned.
CreateStep(w) ==
    \/ LockForAppend(w) \/ KeyUnused(w) \/ Replay(w) \/ Conflict(w)
    \/ ComputeEvent(w) \/ InsertEvent(w) \/ RecordIdempotencyKey(w)
    \/ Commit(w) \/ Respond(w) \/ CloseSession(w)

Next ==
    \/ \E w \in Workers : Begin(w) \/ CreateStep(w) \/ Abort(w)
    \/ Tick \/ StepClockBack

\* A thread that can run does; the advisory lock's queue is first come,
\* first served, so a waiter cannot be passed over for ever.
Fairness ==
    \A w \in Workers : /\ WF_vars(CreateStep(w))
                       /\ SF_vars(LockForAppend(w))

Spec == Init /\ [][Next]_vars /\ Fairness

-----------------------------------------------------------------------------
(* Correctness.                                                            *)

PcValues == {"idle", "lock", "lookup", "compute", "insert", "record",
             "commit", "respond", "close"}

Request == [username : Users, key : Keys \cup {NULL},
            tenant_id : Tenants, event_in : Bodies]

\* A committed or staged row is exactly what the service builds for a
\* request, its hash included.
IsRow(row) == \E tenant \in Tenants, body \in Bodies, t \in 0..MaxTime :
    row = AuditEvent([tenant_id |-> tenant, event_in |-> body], t, row.previous_hash)

\* Types: rows are well formed and every session holds what its place in
\* the handler needs.
TypeOK ==
    /\ events = [id \in DOMAIN events |-> events[id]]
    /\ DOMAIN events \subseteq Nat \ {0}
    /\ \A id \in DOMAIN events : IsRow(events[id])
    /\ nextId \in Nat \ {0}
    /\ lock \in Workers \cup {NULL}
    /\ clock \in 0..MaxTime
    /\ pc \in [Workers -> PcValues]
    /\ req \in [Workers -> Request \cup {NULL}]
    /\ staged = [w \in Workers |-> staged[w]]
    /\ result \in [Workers -> (Nat \ {0}) \cup {NULL}]
    /\ \A w \in Workers :
         /\ (pc[w] # "idle") => (req[w] \in Request)
         /\ (pc[w] \in {"lookup", "record"}) => (req[w].key # NULL)
         /\ (pc[w] \in AfterInsert \cup {"insert"}) => IsRow(staged[w])
         /\ (pc[w] \in AfterInsert \cup {"respond"}) => (result[w] \in Nat \ {0})
    /\ origin = [id \in DOMAIN origin |-> origin[id]]
    /\ \A id \in DOMAIN origin : origin[id] \in [username : Users, key : Keys \cup {NULL}]

IsFirst(id) == id \in DOMAIN events /\ \A j \in DOMAIN events : id <= j

Adjacent(i, j) ==
    /\ {i, j} \subseteq DOMAIN events /\ i < j
    /\ \A k \in DOMAIN events : k <= i \/ k >= j

\* The committed records form one unforked chain in id order, over the gaps
\* that aborted requests leave (lock_for_append's docstring: without the
\* lock two writes could both read the same last event and fork it).
LinearChain ==
    \A id \in DOMAIN events :
      \/ IsFirst(id) /\ events[id].previous_hash = GENESIS_HASH
      \/ \E j \in DOMAIN events :
           Adjacent(j, id) /\ events[id].previous_hash = events[j].event_hash

\* Neither unique constraint is ever about to be violated: they are a
\* backstop "expected to never actually fire" (IdempotencyKey's docstring).
ConstraintsNeverFire ==
    \A w \in Workers :
      /\ (pc[w] = "insert") => ~EventHashTaken(staged[w])
      /\ (pc[w] = "record") => ~IdempotencyKeyTaken(req[w])

\* However often a request is retried, before or after its answer is lost,
\* a user's idempotency key stands for at most one committed record.
OneEventPerKey ==
    \A i, j \in DOMAIN origin : (origin[i].key # NULL /\ origin[i] = origin[j]) => i = j

\* A successful answer names a committed record with the content that was
\* asked for and, if it carries a key, the record that key stands for:
\* neither a rolled back insert nor another request's event is ever shown.
AnswersMatchRequests ==
    \A r \in replies :
      /\ r.event_id \in DOMAIN events
      /\ RequestContent(events[r.event_id].tenant_id, events[r.event_id])
           = RequestContent(r.tenant_id, r.event_in)
      /\ (r.key # NULL) => (origin[r.event_id] = [username |-> r.username, key |-> r.key])

\* While the wall clock is not set back, timestamps follow chain order: the
\* timestamp is read under the lock, not when the request arrives.
TimestampsFollowIds ==
    ClockMayStepBack \/ \A i, j \in DOMAIN events :
                          (i < j) => (events[i].timestamp <= events[j].timestamp)

\* A record becomes visible only behind every record already visible, so a
\* reader who has seen an id never later sees a smaller new one (list_events
\* relies on it: "assignment order is serialized by lock_for_append").
CommitsInIdOrder ==
    [][\A id \in DOMAIN events' :
         IF id \in DOMAIN events THEN events'[id] = events[id]
                                 ELSE \A j \in DOMAIN events : j < id]_vars

\* Every request in progress ends, in an answer, a conflict or a crash,
\* whatever the other sessions do: nobody keeps the append lock.
RequestsFinish == \A w \in Workers : (pc[w] # "idle") ~> (pc[w] = "idle")

-----------------------------------------------------------------------------
(* The inductive invariant behind the safety properties.                   *)

UnderLock == {"lookup", "compute", "insert", "record", "commit"}

LockInv == \A w \in Workers :
    /\ (pc[w] \in UnderLock) => (lock = w)
    /\ (lock = w) => (pc[w] \in UnderLock \cup {"respond", "close"})

\* What a session holds between get_last_event and its commit still extends
\* the chain, and its id is behind every committed one.
StagedInv == \A w \in Workers :
    /\ (pc[w] \in {"insert", "record", "commit"}) =>
         /\ IsPreviousHash(staged[w].previous_hash)
         /\ staged[w] = AuditEvent(req[w], staged[w].timestamp, staged[w].previous_hash)
         /\ staged[w].timestamp <= clock \/ ClockMayStepBack
         /\ \A id \in DOMAIN events :
              events[id].timestamp <= staged[w].timestamp \/ ClockMayStepBack
    /\ (pc[w] \in AfterInsert) =>
         /\ result[w] < nextId
         /\ \A id \in DOMAIN events : id < result[w]
         /\ ~EventHashTaken(staged[w])

IdInv ==
    /\ \A id \in DOMAIN events : id < nextId
    /\ \A id \in DOMAIN events : events[id].timestamp <= clock \/ ClockMayStepBack
    /\ \A i, j \in DOMAIN events : events[i].event_hash = events[j].event_hash => i = j

KeyInv ==
    /\ DOMAIN origin = DOMAIN events
    /\ \A k \in idem :
         /\ k.event_id \in DOMAIN events
         /\ origin[k.event_id] = [username |-> k.username, key |-> k.idempotency_key]
         /\ k.request_fingerprint =
              compute_request_fingerprint(events[k.event_id].tenant_id, events[k.event_id])
    /\ \A id \in DOMAIN origin : origin[id].key # NULL =>
         \E k \in idem : k.username = origin[id].username /\ k.idempotency_key = origin[id].key
    /\ \A w \in Workers :
         (pc[w] \in {"compute", "insert", "record", "commit"} /\ req[w].key # NULL) =>
           ~IdempotencyKeyTaken(req[w])

\* What a session is about to answer, and what was answered, is committed.
AnswerInv ==
    /\ \A w \in Workers : (pc[w] = "respond") =>
         /\ result[w] \in DOMAIN events
         /\ RequestContent(events[result[w]].tenant_id, events[result[w]])
              = RequestContent(req[w].tenant_id, req[w].event_in)
         /\ (req[w].key # NULL) =>
              (origin[result[w]] = [username |-> req[w].username, key |-> req[w].key])
    /\ AnswersMatchRequests

\* Inductive: each part of the write path relies on the lock (LockInv), on
\* what its session read under it (StagedInv, KeyInv) and on the committed
\* rows (IdInv, LinearChain, OneEventPerKey).
IInv == TypeOK /\ LockInv /\ StagedInv /\ IdInv /\ KeyInv /\ AnswerInv
        /\ LinearChain /\ OneEventPerKey /\ TimestampsFollowIds

-----------------------------------------------------------------------------
(* What the write path promises, with sessions, lock and hashes hidden.    *)

Content(r) == RequestContent(r.tenant_id, r)

Log == INSTANCE AppendOnlyLog WITH
    log     <- [id \in DOMAIN events |-> Content(events[id])],
    origin  <- origin,
    answers <- {[origin   |-> [username |-> r.username, key |-> r.key],
                 content  |-> RequestContent(r.tenant_id, r.event_in),
                 event_id |-> r.event_id] : r \in replies}

\* The write path implements an append-only log with exactly-once keys.
ImplementsLog == Log!Spec

=============================================================================
