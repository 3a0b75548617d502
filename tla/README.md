# Formal models of the audit log service

TLA+ modules of the tamper-evident audit log service in `src/app`, the TLC
configurations that check them on small instances, and proofs, for instances of
every size, of the safety of the write path, of redaction, retention and
verification, of the reads, of the rate limiter and of what surrounds a request.

## The system

The service is a FastAPI application over PostgreSQL. A request passes through
middleware and the dependencies of its route, then its handler runs in a thread
with a database session of its own. Requests meet in the database (rows, one
advisory lock), in the process's threads and pool of connections, and in the
in-memory rate limiters.

| Component | State | Operations | Meets | What makes it correct |
|---|---|---|---|---|
| Append (`services/audit_event_service.py`, `repositories/`) | `audit_events`, `audit_event_idempotency_keys`, id sequence, advisory lock | `POST /audit/events`: lock, look up the key, replay or conflict, read the last event, hash, insert, record the key, commit | every other append, through the lock | one unforked hash chain in id order; one record per key; answers that are true; nobody waits for ever |
| Hashing (`services/hashing.py`) | none | event hash, request fingerprint, field hash, manifest hash | all | equal documents and only they have equal digests |
| Redaction (`services/redaction_service.py`) | four columns of a row | read the row, rewrite it (first transaction), append a companion event (second) | appends, other redactions, retention, verification | redacted stays redacted, the rest of a row stays, each redacted row has a current commitment |
| Retention (`services/retention_service.py`) | `archived_at` | one UPDATE | redaction, listing | hides old records, changes no hash, loses no history |
| Verification (`services/chain_verification_service.py`) | none | walk all rows in id order | redaction | blames nothing that legal calls do, misses no change made behind the service's back |
| Listing, export, compliance (`routes/`, `services/`) | none | one SELECT each | appends, retention | pages in order and without repetition, tenants kept apart, reports that later ones extend |
| Rate limiter (`core/rate_limit.py`) | a deque per key, a lock | `check` | threads of the process | the limit, and no denial without cause |
| Authentication (`core/security.py`, `routes/auth.py`) | none: user, role and tenant travel in the token | log in, decode a token | configuration, restarts | nobody has rights that nobody configured |
| Authorization (`core/authorization.py`) | none | require a role | all routes | a denial costs nothing and leaves a line |
| Pipeline (`main.py`, `core/correlation.py`, `core/error_handling.py`, `core/body_size_limit.py`) | correlation id of the request, in its state and in its context | middleware, dependencies, exception handler | all routes | answer and log lines carry the request's id |
| Session and pool (`db/session.py`) | the connections of the process | connect, commit, close | threads, append lock | who holds a shared thing can go on; every request ends |
| Health (`routes/health.py`) | none | liveness, readiness | pool, threads | liveness answers while the database does not |
| Logging (`core/logging_config.py`, `core/log_sanitizer.py`, `core/security_logging.py`) | handlers of one logger | configure, log an event | all routes | each event once, complete but for secrets |
| Payload limits (`core/payload_limits.py`, `schemas/audit_event.py`) | none | size, depth, string length | append, redaction | no node of a payload escapes a limit |
| Configuration, migrations | settings, tables | read at start | authentication, limits | |
| Response schemas | none | output | - | - |

What is hard here: sessions that interleave between any two statements; a
redaction that is two transactions; crashes and lost answers followed by
retries; a clock that is set back; rows that change under a client paging
through them; threads that read a clock before taking a lock; threads,
connections and a lock that wait for each other; tokens that outlive the
configuration they were issued under; errors that arrive after the context of
their request is gone. PROJECT.json lists each such place under `hazards`.

## The modules

    Hashing                         symbolic digests
      |
    AuditAppend ---- implements --> AppendOnlyLog
      |      \
      |       AuditAppendProofs     theorems
      |
    AuditRedaction -- implements -> AppendOnlyLog
      |  uses ChainVerification
      |\
      | RedactionProofs             theorems, any redactors
      |   |
      | SequentialRedactionProofs   theorems about what verification says
      |
    MCAuditAppend, MCAuditRedaction constants for TLC

      |
    AuditService -- implements ---> AuditQuery
      |                             the write path and its readers, one system
    MCAuditService, AuditServiceProofs

    AuditQuery, MCAuditQuery, AuditQueryProofs
                                    reads; what readers can tell of the append path
    RateLimiter, RateLimiterProofs

    RequestPipeline, MCRequestPipeline, RequestPipelineProofs   around every handler
    ServerPool, MCServerPool, ServerPoolProofs                  under every handler

    JsonValues                      values, grown from the inside out
      |      \
    PayloadLimits  Logging
      |      /
    MCProcess                       both, and RateLimiter: what a process does
                                    without the database

- **Hashing**: a digest is a tagged copy of the document it is taken of, so
  digests collide exactly when documents are equal. `canonicalize` is the
  absence of key order in a TLA+ function. `subject` stands for the triple
  (`actor_id`, `resource_type`, `resource_id`), which the code copies and hashes
  together and never takes apart on these paths.
- **AuditAppend**: `create_audit_event` from the route to the closed session.
  `events` and `idem` are committed rows, `staged` is what a session holds,
  `lock` the holder of `pg_advisory_xact_lock`, `pc[w]` the next statement.

  | Action | Code |
  |---|---|
  | `Begin` | the route: tenant check, arguments |
  | `LockForAppend` | `lock_for_append` |
  | `KeyUnused`, `Replay`, `Conflict` | the three outcomes of `_replay_or_conflict` |
  | `ComputeEvent` | `get_last_event`, timestamp, hash, row |
  | `InsertEvent`, `RecordIdempotencyKey` | the two flushes |
  | `Commit` (`Published`) | `db.commit()`, which also lets the lock go |
  | `Respond`, `CloseSession` | refresh and answer; `get_db`'s `finally` |
  | `Abort` | crash, lost connection, any exception: rollback |
  | `Tick`, `StepClockBack` | the wall clock |

  A replay or a conflict leaves the transaction, and so the lock, open until
  `CloseSession`, as the code does. `origin` and `replies` are history: who asked
  for each row, and what callers were told.
- **AppendOnlyLog**: what the write path promises, without session, lock, hash
  or transaction: records are only added behind all others, a user's key stands
  for one record, an answer names a record with the content asked for.
- **ChainVerification**: `verify_chain` as a function of a set of rows: the
  verdict at each row, and the first violating row at which the walk stops.
- **AuditRedaction** extends AuditAppend with redaction and retention. A
  redaction goes through `read` (`ReadTarget` or `RedactionRefused`), `rewrite`
  (`RewriteTarget`, committed at once, computed from the row it read), and
  `companion` (`BuildCompanion`, or `CompanionRejected` when the payload limits
  refuse the companion), and then through the same actions as an append.
  `ApplyRetention` is one UPDATE. `interrupted` is history: targets of redactions
  that failed between their transactions.
- **AuditQuery**: the reads. The append path is reduced to what a reader can
  tell, which AuditService establishes: one row at a time is timestamped under the
  lock (`StageRow`), then visible behind all others (`CommitRow`) or dropped,
  perhaps with a gap in the ids (`DropRow`). `walk` is a client that asks for
  offset 0, limit, 2 * limit, ... until a page is short (external: clients are not
  part of the repository). A page is the set of ids whose rank lies between offset
  and offset + limit. `reports` are the exports and compliance reports taken so
  far, as their manifest entries.
- **AuditService** puts the two together: the steps of AuditRedaction and, on the
  rows they commit, the reads of AuditQuery. `Query` is AuditQuery with its
  variables read off the write path: `ReadableEvents` are the committed rows with
  the columns a read filters, orders or dates by (its `event_hash` stands for what
  the row was appended with), `StagedRow` the row of the one session that has built
  and not committed one, `NextVisibleId` the id that row has or will have: the
  sequence less the id that an uncommitted insert has already taken.
  `ImplementsQuery` says that this is a behaviour of AuditQuery. `walk`, `reports`
  and `setBack` are AuditQuery's own variables. `WritesSpec` is the system without
  readers, `ServiceSpec` with them.
- **RateLimiter**: `check` in two steps, because `time.monotonic()` is read
  before the lock is taken: `ReadClock`, then `Allow` or `Deny`, each with the
  pruning at the head of the deque. `Deny` records nothing, as the code does
  (`rate_limit.py:56-58`), although the docstring (`rate_limit.py:45-48`) says that
  every call counts. `Restart` is a new process: the deques are
  gone, the machine's monotonic clock goes on.
- **RequestPipeline**: one request per task through everything around its
  handler. `pc[t]` is the next thing that may refuse it, `req[t].id` the id it
  came in with or was given, `state_id` and `context` the two places the code
  keeps it, `lines[t]` what was logged for it. What a request carries (its size,
  its body, its token, its parameters) is chosen where the code first looks at it.

  | Action | Code |
  |---|---|
  | `Arrive` | `CorrelationIdMiddleware` up to `call_next` |
  | `RefuseBySize`, `RefuseMalformed` | `MaxBodySizeMiddleware`; the framework's JSON parser |
  | `RefuseToken`, `Authenticate` | `get_current_user` |
  | `RefuseRole`, `Authorize` | `require_roles` |
  | `Charge`, `RefuseByLimit` | `enforce_*_rate_limit` (what they decide: `RateLimiter`) |
  | `RefuseParameters`, `RefuseTenantlessReader`, `Validate` | validation, and what handlers refuse before they do anything |
  | `Login`, `LoginFails` | `login` |
  | `RefuseInHandler` | 404, 409 and 422 that handlers decide after looking at the database |
  | `Handle`, `SendResponse` | the other handlers: work, log line, response |
  | `Raise`, `HandleUnexpected` | an exception unwinds through the middleware; `handle_unexpected_exception` |
  | `Start`, `Stop` | the process, with validated settings |

  `runs` is history: the settings of each run of the process and when it was up.
- **ServerPool**: what requests share below their handlers. A request is reduced
  to the statements it makes (`Statements`: lock, commit, query); `conns` are the
  sessions that have a connection, `queue` the requests that wait for a thread,
  `lock` the append lock. `PoolTimeout` is the pool's `TimeoutError`,
  `DatabaseError` a statement that fails; a database that is out may also just
  not answer. `ReturnResult` is there because what a handler returns is
  serialised in a thread again, while its session, and a replay's lock, are still
  open; `Close` is `get_db`'s `finally`.
- **JsonValues**: JSON values as records, and two actions, `Wrap` and `Widen`, by
  which TLC reaches every value within the bounds. `Nodes` is the reference: the
  nodes of a value by the paths that lead to them. A string is what the code asks
  of it: length, characters that are not ASCII, the secrets in it, whether it is
  shaped like a JWT or names a credential.
- **PayloadLimits**: the three recursions of `payload_limits.py`, compared with
  `Nodes`.
- **Logging**: `configure_logging`, `log_security_event`, `JSONLogFormatter` and
  the sanitizer; `handlers` is the logger's list, `lines` what they wrote of the
  last record.

Operators announced by a comment "Mutant" are variants of the definition after
them, each with one plausible mistake. No specification uses them; PROJECT.json
names, for each property of each run, the one that makes TLC report it violated.

## The runs

Deadlock checking is off in every run: ids, time, calls and reports are bounded,
so each instance stops when they are used up. That the system itself does not
get stuck is what the liveness runs check.

| Run | Instance | Question |
|---|---|---|
| `append_safety` | 2 writers that may both crash, 2 users of one tenant and 1 of none, 2 ids, 2 bodies, 2 keys, clock may be set back | chain, keys, answers, constraints, inductive invariant, id order, refinement; every request ends |
| `redact_safety` | one redactor that may crash, one writer, 1 key, ordinary events and one of the companions' type, companions as targets, one field or all, overlong reasons, 2 clock readings; at most one of keys, overlong reasons and posted companions at a time, and keys without crashes half way (`FewAtATime`) | the inductive invariant (chain, keys, rows, sessions); what verification blames, and what it would miss of a change made directly to the tables; timestamps; frozen columns, redacted stays redacted; refinement of `AppendOnlyLog` |
| `redact_overlap` | two redactors, one of which may crash, companions as targets, 2 clock readings | rows account for their fields; only redactions are blamed; every request ends; refinement, as far as readers can tell, of `AuditQuery` (no reader runs here: reads change nothing, and `query` has them) |
| `query` | callers of all kinds, periods valid and not, 3 ids, page sizes 1 and 2, two reports with filters and periods, retention, clock may be set back | order, tenants, bounded misses; later reports extend earlier ones; closed periods |
| `process` | every value nested up to 3 deep and 2 wide over 4 strings and 3 keys; 3 threads, 1 key, 1 restart, a window of one clock unit in a run of four | limits reach every node; a line says all but secrets, once; overrun of at most one call per further thread and run; denials justified |
| `pool` | a replay, a redaction, two readiness reports and a liveness report on 3 threads and 2 connections | who holds the lock or a connection can go on; every request ends once the database stays up; liveness always answers |
| `requests` | 2 requests, 6 endpoints, 1 user under 6 configurations, 2 runs of the process | ids, log lines, charges, rights |

`process` holds two halves that share nothing: a behaviour grows and checks a
value, or lets threads call the limiter.

Five runs end in a violation. Each checks a sentence of the repository that
the code does not keep; PROJECT.json quotes it under `findings`.

| Run | What TLC shows |
|---|---|
| `redact_overlong` | an overlong reason leaves a redacted record without its companion |
| `redact_lost_update` | of two overlapping redactions the second brings back the value the first removed |
| `redact_companion_order` | two overlapping redactions leave a last commitment that is not the current content |
| `redact_posted_companion` | an event that a client posts with the companions' type, about a redacted record, makes verification report that record as changed, which it was not |
| `auth_removed_user` | a user removed at a restart is still served with a token from before |

Some properties are weaker than a reader of the code's comments may expect, and
as strong as the code allows:

- `MissesAreBounded`: retention between two pages does make a listing skip
  records, at most as many as it archived of those shown.
- `OverrunBounded`: a stale clock reading can let a call through, at most one per
  thread but the first (none if the limit is one), and each run of the process
  within a window counts afresh. Once a call with a later reading has pruned a
  window's calls, each further thread may add its one call to that window, also
  when the limit is smaller than their number: the deque can be pruned again
  between two of them. The class comment (`rate_limit.py:27`) promises at most
  max_requests in any window (`LimitIsExact`): `OneThreadKeepsTheLimit` proves it
  where it is true.
- `DenialsAreJustified`, and the 429 in `ChargedWhenAdmitted`: the docstring of
  `check` (`rate_limit.py:45-48`) says "Records this attempt" and "Every call
  counts against the limit". The code returns before it records a denied call
  (`rate_limit.py:56-58`), so denied calls do not keep a key out, and that is what
  these properties state and what is proved. Under the docstring's reading,
  whoever keeps calling at that rate would stay denied.
- `OnlyRedactionsAreBlamed` in `redact_overlap`: a companion event can itself be
  redacted, and then the record it vouches for is blamed.
- `BlameIsHalfDoneRedaction` leaves `Disputed` records open: those that a posted
  event of the companions' type or a redacted companion is about, which may be
  blamed without cause (`redact_posted_companion`), and those posted with a value
  that already is the marker, whose redaction changes nothing that verification
  could tell. All others are covered, also while such events are in the log.
- `DirectChangesAreFound` speaks of logs in which what commits to a record comes
  behind it and behind its redaction (`CompanionsFollow`). The service's companions
  do (`CommitmentsFollow`). A client's event of their type may come before either, and then what it
  commits to would pass for the record's content after a redaction.
- `BlameIsHalfDoneRedaction` for the others: a record is blamed between the two transactions of
  its redaction. With `RedRequestsFinish` it follows that the blame of a redaction
  that is not interrupted clears; that of one that crashed in between stays,
  although docs/redaction-design.md:131 says the chain stays consistent either way.
- `LogAccountsForAnswers`: the line of an operation is written before its response
  is built, so a 500 may follow it; the 403 of a reader without a tenant has no
  line, unlike every other 403.
- `RightsWereConfigured`: rights that were taken away are still served until the
  token expires.
- `LinesSayAllButSecrets`: a correlation id that is shaped like a JWT is hidden in
  the log although the response repeats it.

`LimitsReachEveryNode` counts bytes as the code does, in the escaped form.
`payload_limits.py:24` calls this a lower bound on what a client's raw body could
be; for text that is not ASCII it is not (six bytes for the two of UTF-8), which
makes the limit stricter, never weaker.

### Bounds

- Two sessions are enough for every race of two statements; the lock serialises
  the rest, and the proofs cover any number. Where a holder and two waiters
  matter, `process` has three threads and `pool` five requests.
- Three ids (`MaxId`) give a first, an inner and a last record, with gaps that
  aborted appends leave; a redaction with its companion takes two, so a second
  redaction of the same record is reached. `append_safety` has two ids for the
  sake of its users, keys and bodies: enough for a retry of what was committed, of
  what was rolled back and of what is still in progress, and for a record that
  points to another; chains of three are in `redact_safety`, and the proofs cover
  any length. A request is only accepted while ids are left for all requests in
  progress (`RoomForId`, `RoomForCompanion`), so the bound never cuts one short.
- Two clock readings (`MaxTime` 1) tell equal and later timestamps apart; with
  `ClockMayStepBack` also earlier ones. `RetentionWindow` 0 is a window shorter
  than one clock unit (the configuration requires it to be positive), so records
  of an earlier reading are outdated.
- `query` keeps listings and reports in separate behaviours (`OneKindOfRead`).
  Both only read, so no behaviour with both shows either of them anything new.
- `MaxAllowed` of the limiter exceeds what the bound on overruns gives a run of
  the process (4 calls in a window), so that the bound could be violated.
  `MaxTime` is four times the window, so that a deque can be pruned empty more
  than once while a thread keeps its old reading: with half of that, one call
  fewer is ever let through, and a bound that is too small would pass.
- `pool` keeps the order 2 connections < 3 threads < 5 requests of the defaults
  (15, 40, any number): waiting for a connection, waiting for a thread, and a free
  thread that holds no connection all occur.
- `requests`: each request is made of steps that touch its own variables, so two
  show every interference through the shared ones; three clock readings and tokens
  that live for one cover a token used, about to expire and expired, before and
  after a restart under each other configuration.
- `process`: limits of 36 bytes, depth 2 and length 3 lie within the values' range,
  so each is met, missed by one, and exceeded alone and together.

### Fairness

Only the liveness properties use it. Each thread's own steps are weakly fair: a
runnable thread of the server runs. `LockForAppend` is strongly fair because the
lock is free again and again while others use it: PostgreSQL queues the waiters
of an advisory lock first come, first served. No request has to arrive, no clock
has to tick, no crash has to happen.

In `ServerPool` a request that can make a step makes one, and a wait for a
connection ends one way or the other, because the pool's wait has a timeout.
Nothing is assumed of a database that is out, neither that statements on it
return nor that they fail; so `RequestsEnd` speaks of behaviours in which it stays
up in the end, and `LiveAnswers` of all. `RequestsEnd` needs the timeout: a replay
can hold the append lock while its result waits for a thread, with every thread
taken by requests that wait for that lock or for a connection.

## The proofs

`AuditAppendProofs` proves, for every value of the constants that satisfies the
ASSUMEs of `AuditAppend`:

| Theorem | Property |
|---|---|
| `Invariance` | `IInv`, the inductive invariant |
| `TypeCorrect` | `TypeOK`, the first part of `IInv` |
| `ChainIsLinear` | `LinearChain` |
| `ExactlyOnce` | `OneEventPerKey` |
| `AnswersAreTrue` | `AnswersMatchRequests` |
| `TimestampsOrdered` | `TimestampsFollowIds` |
| `NoConstraintFires` | `ConstraintsNeverFire` |
| `CommitOrder` | `CommitsInIdOrder` |
| `Refinement` | `ImplementsLog`: the write path implements `AppendOnlyLog` |

None of these properties is inductive by itself. That a commit extends the chain
depends on what the session read statements earlier, so `IInv` adds: whoever is
between the lock's acquisition and the commit holds the lock (`LockInv`); the row
a session holds still points to the last committed record, is not older than it,
and its id is behind all committed ones (`StagedInv`); ids and hashes of committed
rows are below the sequence and distinct (`IdInv`); a recorded key matches the
row it names, every keyed row has its key recorded, and a session past the lookup
has a key nobody recorded (`KeyInv`); what a session is about to answer is
committed (`AnswerInv`). There is one lemma per action, and in it one step per
part. `CommitStep` is the heart: only there do the committed rows change, and
`LinearChain` survives because the new row is adjacent to the one it points to.
`LinearChain` says that each record's predecessor exists instead of naming it, so
that the proof needs no induction over ids.

### Redaction, retention, verification

`RedactionProofs`, for every value of the constants of `AuditRedaction`, any
number of redactors among the workers:

| Theorem | Property |
|---|---|
| `RedInvariance` | `RedIInv`, the inductive invariant |
| `RedTypeCorrect` | `RedTypeOK`, which the runs check as a consequence of `RedIInv` |
| `RedChainIsLinear`, `RedExactlyOnce`, `RedTimestampsOrdered` | `LinearChain`, `OneEventPerKey`, `TimestampsFollowIds` |
| `FieldsAccountedFor` | `RowsAccountForFields` |
| `HistoryIsFrozen` | `HistoryFrozen` |
| `NoFalseBlame` | `OnlyRedactionsAreBlamed` |
| `RedRefinement` | `RedImplementsLog`: still an `AppendOnlyLog` |

`IInv` does not survive redaction: a row is no longer what its append committed,
so a fingerprint or a hash computed from the row as it stands need not match.
`RedIInv` says instead what a row was when it was appended: in the model a digest
carries its document, so a row's first content can be read off its hash
(`Original`), and keys, answers and the refinement are stated of that
(`RowInv`, `RedKeyInv`). What a redaction computes depends on a row read in an
earlier transaction; `SeenInv` says how outdated that row may be: in the columns
that redaction and retention write, and in no other. `RoomInv` is the bound on ids
made inductive: there is one left for every request in progress.

`SequentialRedactionProofs`:

| Theorem | Property | Assumes |
|---|---|---|
| `RedactionIsPermanent` | `RedactedStaysRedacted` | `OneRedactor` |
| `SequentialInvariance` | `SequentialInv`, inductive together with `RedIInv` | `OneRedactor` |
| `BlameIsExact` | `BlameIsHalfDoneRedaction` | `OneRedactor` |
| `EveryDirectChangeIsFound`, `DirectChangesFound` | every direct change, and those of `DirectChangesAreFound` | nothing |
| `CommitmentsFollow` | `CompanionsFollow` | `NoPostedCompanions` |

`OneRedactor`: redactions come one at a time; `redact_lost_update` and
`redact_companion_order` show what two do. The code does not enforce it. What
clients post, and which records are redacted, is free. `BlameIsHalfDoneRedaction`
excepts the records that are `Disputed`, by an event of the companions' type that a
client posted, a redacted companion or a marker posted as a value; it says what
verification answers of all others even then. The two theorems about direct changes
assume nothing; their formula speaks of logs that are intact and in which
commitments follow what they are about (`CompanionsFollow`). `CommitmentsFollow`
says when that is so: as long as nobody posts an event of the companions' type
(`NoPostedCompanions`), which the API does not enforce either, and however
redactions overlap. `redact_safety` has such events in its instance.

With one redactor the row it read is current but for archiving (`SeenIsCurrent`).
Companions and nothing else are appended for nobody (`AskerInv`), which is how a
service's companion is told from an event that only looks like one.
`CommitmentsInv` then says of each record that is not disputed that it is untouched,
or vouched for by its last companion (`Committed`), or, while its redaction is half
done, by none (`Uncommitted`). The last is not inductive alone: that no older
companion happens to vouch for the new content follows because what older companions
committed to had no marker yet in the fields redacted now (`CommitmentsPrecede`).

`EveryDirectChangeIsFound` is about tables that somebody wrote to directly, while
verification found them intact: any rows changed to anything (`ChangedDirectly`), or
any deleted (`DeletedDirectly`). TLC tries some of these at each state
(`TablesAfter`: columns overwritten in one record or in all but the last, with or
without a hash that fits, and every set of deleted records); the theorem is about
all. Its heart is `IntactTablesAgree`. Were the changed tables intact too, then,
from the last record back, each link names the hash of the record before, and that
hash names the record's content, or, for a redacted record, the hash its last
companion commits to does. The companion stands behind the record
(`CompanionsFollow`) and so is already known to be the same. A deletion shows at the
record behind it. The premises of `ChangedDirectly` and `DeletedDirectly` say what
verification cannot see, and no more is claimed: a change whose new hashes are
carried through to the last record, the removal of the last records, a redaction
undone completely (value, mark and all), and the columns no hash covers
(`archived_at`, `redacted_fields`, `redacted_field_hashes`, and the ids as long as
they keep their order).

### Reads

`AuditQueryProofs`, for every set of callers, filters, periods and page sizes:

| Theorem | Property |
|---|---|
| `QueryInvariance` | `QueryIInv`, the inductive invariant |
| `QueryTypeCorrect` | `TypeOK` |
| `PagesInOrder` | `PagesAscend` |
| `ReadersStayInTheirTenant` | `TenantScope`: listings of a `READER`; others cross tenants by design |
| `MissesBounded` | `MissesAreBounded` |
| `LaterReportsAgree` | `LaterReportsExtend` |
| `ClosedPeriodsFinal` | `ClosedPeriodsAreFinal`: at most one more record |

A page is cut out by rank, and ranks change while a client pages. `ShownInv` is
what stays true of a record shown on page n: as long as it is listed, fewer than
n * limit records are listed before it, since new records come in behind and
retention only takes away. Pages therefore never go back. A record that is missed
lost as many places as there were hidden ones before it, so the count of those
bounds the misses. For reports, `ReportInv` says that what matches a report and is
not in it (`Late`) lies behind all it has, and that after its period at most one
such record can appear, the row whose timestamp was taken before the report and
which was committed after it. The lemmas about `Page` and `Rank` (a page has at
most limit records, a short page is the last, a later page is behind an earlier
one) hold of any finite set of ids.

### The running system

`AuditServiceProofs`, for every number of workers, redactors and users:

| Theorem | Property |
|---|---|
| `IdsAreCommittedInOrder` | `IdsInv`, inductive together with `RedIInv` |
| `WritesRefinement` | `ImplementsQuery`, of the write path alone: what `redact_overlap` checks |
| `ServiceRefinement` | `ImplementsQuery`, with readers |
| `ServiceReads` | `PagesAscend`, `TenantScope`, `MissesAreBounded`, `LaterReportsExtend`, `ClosedPeriodsAreFinal` of the running system |

AuditQuery takes for granted that rows are timestamped and become visible one at a
time; these theorems replace that by a proof. Each step of the system maps to one
of AuditQuery or to none: building the row (`ComputeEvent`) is `StageRow`, the commit
`CommitRow`, a rollback from there `DropRow`, a retention run `ApplyRetention`, a
clock step itself; everything else, the insert, a redaction's rewrite and all that
happens around the lock included, is a stutter (`QuietStep`, `InsertIsInvisible`,
`RewriteIsInvisible`). Two facts carry it. Whoever has built a row holds the append
lock, so there is never a second one (`OneStages`). And an id that was taken is the
last that was taken until its row is committed or gone (`IdsInv`), so a commit
shows the row with the id that comes next, although the code took it from the
sequence statements earlier. `ServiceReads` instantiates the theorems of
`AuditQueryProofs`, after `QueryAssumptions` has shown that what they assume of
AuditQuery's constants is so here. TLC checks `ImplementsQuery` of the write path
(`redact_overlap`); with readers, or a clock set back during redactions, it is proved
only.

### What surrounds a request

Three further modules, again for every value of the constants:

| Theorem | Module | Property |
|---|---|---|
| `PipelineTypeCorrect` | `RequestPipelineProofs` | `TypeOK` |
| `OneIdPerRequest` | `RequestPipelineProofs` | `IdsNameTheRequest` |
| `LogAccounts` | `RequestPipelineProofs` | `LogAccountsForAnswers` |
| `ChargesAreDue` | `RequestPipelineProofs` | `ChargedWhenAdmitted` |
| `RightsAreConfigured` | `RequestPipelineProofs` | `RightsWereConfigured` |
| `PoolTypeCorrect`, `NobodyWaitsHolding` | `ServerPoolProofs` | `TypeOK` and its limits, `HoldersCanGoOn` |
| `DequesAreBounded` | `RateLimiterProofs` | `TypeOK` and its bound |
| `DenialsHaveCause` | `RateLimiterProofs` | `DenialsAreJustified`: only calls let through count |
| `OverrunsBounded` | `RateLimiterProofs` | `OverrunBounded` |
| `OneThreadKeepsTheLimit` | `RateLimiterProofs` | `LimitIsExact`, for one thread or a limit of one, without restarts |

`RightsWereConfigured` speaks of users, but what carries rights from one run of
the process to the next is tokens. `PipelineInv` therefore says of every token
that some run configured what it says and that it does not outlive that run by
more than `ExpireTime` (`TokenInv`); of the process, that while it is down nobody
is served (`ProcessInv`), so that the settings never change under a request; and
of each request where its id is kept (`IdInv`: in the context until the middleware
is left, in the request's state until the end) and between which steps it is
charged (`ChargeInv`). `OneRequest` reduces each step to the request that makes
it. `LogAccounts` needs to know at each place which lines can have been written
(`TraceInv`): none up to the handler, a line of success between the handler's work
and the response, and after an exception either, which is why a 500 may follow
a line of success. For the pool `TypeOK` and `HoldersCanGoOn` are inductive
together.

For the limiter, `PruningShortens` and `PrunedIsSuffix` are what pruning does to
any deque, ordered or not. `HistoryInv` relates the deques to what the process did:
a deque holds the readings of the last calls let through, in that order, and a
denial prunes nothing. From it follows `DenialsAreJustified`: the calls behind the
first unexpired one were let through after it. For `OverrunBounded` the calls of a
window are split by the run of the process that let them through. In the current
run (`WindowInv`) they are all still in the deque, so at most the limit; or a call
with a later reading came first, and then the calls of the window and the threads
that still may add to it are together at most the limit and one per further
thread. At a restart the current run becomes a past one, which has had its share.
An earlier bound counted at most as many stale calls as the limit less one. It
could not be shown inductive, because the deque can be pruned between two stale
calls; TLC had not found it too small only because the instance's clock stopped
before the second pruning.

Assumed: distinct documents have distinct digests (`Hashing`); at READ COMMITTED
a session sees what others have committed, and an advisory lock of a transaction
is held until its end (external, modelled from how the code uses it); all
sessions use one time zone, so that a timestamp reads back as it was hashed. The
ASSUMEs say besides that NULL (None) is no time, id, user or answer; that workers
and threads are finitely many, and threads at least one; that rows have every
column a filter can name; that NULL is no row; and that the bounds of a period are
times or NULL.

Only model-checked: payload limits and logging, because their recursive operators
are out of the prover's reach; all liveness (`RequestsFinish`, `RedRequestsFinish`,
`RequestsEnd`, `LiveAnswers`), for which the proof system has no rules; and
the violations, which are counterexamples.

## Not modelled, and the plan

Not modelled:

- response schemas: field names and lengths, nothing that changes state;
- the time zone in which PostgreSQL returns timestamps (they are numbers here),
  and the width of ids (`MaxId` bounds them): the two hazards without a property;
- formatting and wording; the level filter of the logger;
- password hashing and JWT encoding, library calls: credentials match or not, a
  token decodes or not;
- how settings are read from the environment, and how Alembic runs migrations:
  the models start from settings that passed their validation, and empty tables;
- CORS, which adds headers, and the manifest's digest, which is represented by
  the entries it is computed from.

Order of the work, most important first:

1. (done) `Hashing`, `AppendOnlyLog`, `AuditAppend`, its runs and proofs.
2. (done) `ChainVerification`, `AuditRedaction` and its runs.
3. (done) `RateLimiter`, `AuditQuery` and their runs.
4. (done) `ServerPool`, `RequestPipeline`, `PayloadLimits`, `Logging` and their runs.
5. (done) `RedactionProofs`, `SequentialRedactionProofs`, `AuditQueryProofs`,
   `LogAccountsForAnswers`, the limiter's bound on overruns.
6. (done) `AuditService`: the write path with redaction and retention shown to
   implement the append part of `AuditQuery`, so that the reads rest on the proved
   write path.
