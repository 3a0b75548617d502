----------------------------- MODULE ServerPool -----------------------------
(***************************************************************************)
(* What requests share inside one server process: its threads, the         *)
(* connections of the pool in db/session.py, and the append lock.          *)
(*                                                                         *)
(* External, modelled from how the code uses it: handlers and dependencies *)
(* are plain functions, so each runs in a thread of a bounded pool whose   *)
(* queue is first come, first served; what a handler returns is validated  *)
(* and serialised in a thread again, unless it is a Response already; a    *)
(* session takes a connection from the pool with its first statement,      *)
(* gives it back at commit and takes one again with the next statement,    *)
(* and waits for it up to the pool's timeout, which raises a               *)
(* SQLAlchemyError.  get_db's finally clause needs none of these threads.  *)
(* Nothing limits how long a statement or the append lock may take.        *)
(*                                                                         *)
(* The database answers, or it is out: then a statement fails or does not  *)
(* return.  It changes between the two at any time.  Before the handler a  *)
(* request holds nothing, so the threads its dependencies pass through are *)
(* one wait with the handler's.                                            *)
(***************************************************************************)
EXTENDS Naturals, Sequences, FiniteSets

CONSTANTS
    Requests,   \* requests the process may be serving at a time
    KindOf,     \* what each of them asks for
    Threads,    \* number of worker threads
    PoolSize,   \* pool_size + max_overflow
    NULL

Kinds == {"append", "replay", "redact", "read", "ready", "live"}

\* The defaults are 15 connections and 40 threads: a process whose
\* connections are all in use still has a thread that holds none.
ASSUME PoolAssumption ==
    Threads \in Nat /\ PoolSize \in Nat /\ 0 < PoolSize /\ PoolSize < Threads
ASSUME RequestsAssumption ==
    IsFiniteSet(Requests) /\ KindOf \in [Requests -> Kinds] /\ NULL \notin Requests

VARIABLES
    db,      \* the database: "up" or "out"
    queue,   \* requests that wait for a thread, in order
    pc,      \* where each request is
    todo,    \* the statements its handler has left
    conns,   \* requests whose session has a connection
    lock,    \* the request whose transaction has the append lock, or NULL
    status   \* HTTP status each request is answered with, or NULL

vars == <<db, queue, pc, todo, conns, lock, status>>

-----------------------------------------------------------------------------
\* Mutant: the liveness report asks the database too.
StatementsWithLiveQuery(kind) ==
    CASE kind = "append" -> <<"lock", "commit", "query">>
      [] kind = "replay" -> <<"lock", "query">>
      [] kind = "redact" -> <<"query", "commit", "query", "lock", "commit", "query">>
      [] OTHER           -> <<"query">>

\* What the handlers ask of the database, as far as connection and lock go:
\* an append locks, commits and refreshes the row; a replay finds its record
\* under the lock and returns with the transaction open; a redaction reads
\* and rewrites its target, commits, refreshes it and appends a companion;
\* the readiness report runs one query, the liveness report none.
Statements(kind) ==
    CASE kind = "append" -> <<"lock", "commit", "query">>
      [] kind = "replay" -> <<"lock", "query">>
      [] kind = "redact" -> <<"query", "commit", "query", "lock", "commit", "query">>
      [] kind = "live"   -> <<>>
      [] OTHER           -> <<"query">>

Appenders == {r \in Requests : KindOf[r] \in {"append", "replay", "redact"}}

\* The requests whose handler has a thread, blocked or not.
Running == {r \in Requests : pc[r] = "handler"}

ThreadFree == Cardinality(Running) < Threads

Next1st(r) == queue # <<>> /\ Head(queue) = r

Statement(r) == IF todo[r] = <<>> THEN "return" ELSE Head(todo[r])

Goto(r, label) == pc' = [pc EXCEPT ![r] = label]

-----------------------------------------------------------------------------
Init ==
    /\ db = "up"
    /\ queue = <<>> /\ conns = {} /\ lock = NULL
    /\ pc     = [r \in Requests |-> "idle"]
    /\ todo   = [r \in Requests |-> <<>>]
    /\ status = [r \in Requests |-> NULL]

Arrive(r) ==
    /\ pc[r] = "idle"
    /\ queue' = Append(queue, r)
    /\ todo' = [todo EXCEPT ![r] = Statements(KindOf[r])]
    /\ Goto(r, "waiting")
    /\ UNCHANGED <<db, conns, lock, status>>

StartHandler(r) ==
    /\ pc[r] = "waiting" /\ Next1st(r) /\ ThreadFree
    /\ queue' = Tail(queue)
    /\ Goto(r, "handler")
    /\ UNCHANGED <<db, todo, conns, lock, status>>

\* Mutant: connections without a limit.
ConnectUnbounded(r) ==
    /\ pc[r] = "handler" /\ Statement(r) # "return" /\ r \notin conns
    /\ conns' = conns \cup {r}
    /\ UNCHANGED <<db, queue, pc, todo, lock, status>>

\* The first statement of a transaction takes a connection.
Connect(r) ==
    /\ pc[r] = "handler" /\ Statement(r) # "return" /\ r \notin conns
    /\ Cardinality(conns) < PoolSize
    /\ conns' = conns \cup {r}
    /\ UNCHANGED <<db, queue, pc, todo, lock, status>>

\* The handler ends with a SQLAlchemyError: 503 from the readiness report,
\* which catches it, and 500 from handle_unexpected_exception otherwise.
\* Neither answer is serialised in a thread.
Fail(r) ==
    /\ status' = [status EXCEPT ![r] = IF KindOf[r] = "ready" THEN 503 ELSE 500]
    /\ todo' = [todo EXCEPT ![r] = <<>>]
    /\ Goto(r, "close")

\* Mutant: the pool waits for ever.
PoolTimeoutNever(r) == FALSE /\ UNCHANGED vars

\* The pool gave no connection in time.
PoolTimeout(r) ==
    /\ pc[r] = "handler" /\ Statement(r) # "return" /\ r \notin conns
    /\ Cardinality(conns) = PoolSize
    /\ Fail(r)
    /\ UNCHANGED <<db, queue, conns, lock>>

\* lock_for_append.
TakeAppendLock(r) ==
    /\ pc[r] = "handler" /\ Statement(r) = "lock" /\ r \in conns
    /\ db = "up" /\ lock = NULL
    /\ lock' = r
    /\ todo' = [todo EXCEPT ![r] = Tail(@)]
    /\ UNCHANGED <<db, queue, pc, conns, status>>

Query(r) ==
    /\ pc[r] = "handler" /\ Statement(r) = "query" /\ r \in conns
    /\ db = "up"
    /\ todo' = [todo EXCEPT ![r] = Tail(@)]
    /\ UNCHANGED <<db, queue, pc, conns, lock, status>>

\* Mutant: the lock outlives its transaction.
CommitKeepingLock(r) ==
    /\ pc[r] = "handler" /\ Statement(r) = "commit" /\ r \in conns
    /\ db = "up"
    /\ conns' = conns \ {r}
    /\ todo' = [todo EXCEPT ![r] = Tail(@)]
    /\ UNCHANGED <<db, queue, pc, lock, status>>

\* db.commit(): the transaction's lock and the connection go back.
Commit(r) ==
    /\ pc[r] = "handler" /\ Statement(r) = "commit" /\ r \in conns
    /\ db = "up"
    /\ lock' = IF lock = r THEN NULL ELSE lock
    /\ conns' = conns \ {r}
    /\ todo' = [todo EXCEPT ![r] = Tail(@)]
    /\ UNCHANGED <<db, queue, pc, status>>

\* A statement fails, when the database is out.
DatabaseError(r) ==
    /\ pc[r] = "handler" /\ Statement(r) # "return" /\ r \in conns
    /\ db = "out"
    /\ Fail(r)
    /\ UNCHANGED <<db, queue, conns, lock>>

\* The handler returns and its thread is free.  The readiness report is a
\* Response; other results wait for a thread to be serialised in.
ReturnResponse(r) ==
    /\ pc[r] = "handler" /\ Statement(r) = "return" /\ KindOf[r] = "ready"
    /\ status' = [status EXCEPT ![r] = 200]
    /\ Goto(r, "close")
    /\ UNCHANGED <<db, queue, todo, conns, lock>>

ReturnResult(r) ==
    /\ pc[r] = "handler" /\ Statement(r) = "return" /\ KindOf[r] # "ready"
    /\ queue' = Append(queue, r)
    /\ Goto(r, "result")
    /\ UNCHANGED <<db, todo, conns, lock, status>>

Serialise(r) ==
    /\ pc[r] = "result" /\ Next1st(r) /\ ThreadFree
    /\ queue' = Tail(queue)
    /\ status' = [status EXCEPT ![r] = 200]
    /\ Goto(r, "close")
    /\ UNCHANGED <<db, todo, conns, lock>>

\* get_db's finally clause: an open transaction is rolled back, for which a
\* database that is out may keep it waiting, and connection and lock go back.
Close(r) ==
    /\ pc[r] = "close"
    /\ conns' = conns \ {r}
    /\ lock' = IF lock = r THEN NULL ELSE lock
    /\ status' = [status EXCEPT ![r] = NULL]
    /\ Goto(r, "idle")
    /\ UNCHANGED <<db, queue, todo>>

DatabaseChanges ==
    /\ db' \in {"up", "out"} \ {db}
    /\ UNCHANGED <<queue, pc, todo, conns, lock, status>>

-----------------------------------------------------------------------------
ServerStep(r) ==
    \/ StartHandler(r) \/ Connect(r) \/ PoolTimeout(r)
    \/ TakeAppendLock(r) \/ Query(r) \/ Commit(r)
    \/ ReturnResponse(r) \/ ReturnResult(r) \/ Serialise(r)

Next ==
    \/ \E r \in Requests : Arrive(r) \/ ServerStep(r) \/ DatabaseError(r) \/ Close(r)
    \/ DatabaseChanges

\* A thread that can go on does, a wait in the pool ends one way or the
\* other, and the lock's queue in the database is first come, first served.
\* Nothing is assumed of a database that is out: neither that statements on
\* it return nor that they fail.
Fairness ==
    /\ \A r \in Requests : WF_vars(ServerStep(r) \/ (Close(r) /\ (r \in conns => db = "up")))
    /\ \A r \in Appenders : SF_vars(TakeAppendLock(r))

Spec == Init /\ [][Next]_vars /\ Fairness

-----------------------------------------------------------------------------
(* Correctness.                                                            *)

PcValues == {"idle", "waiting", "handler", "result", "close"}

\* Types, and the two limits: no more handlers than threads, no more
\* sessions with a connection than the pool has.
TypeOK ==
    /\ db \in {"up", "out"}
    /\ pc \in [Requests -> PcValues]
    /\ todo \in [Requests -> Seq({"lock", "query", "commit"})]
    /\ conns \subseteq Requests /\ Cardinality(conns) <= PoolSize
    /\ Cardinality(Running) <= Threads
    /\ lock \in Requests \cup {NULL}
    /\ status \in [Requests -> {NULL, 200, 500, 503}]
    /\ queue \in Seq(Requests)

\* Whoever has the append lock also has the connection it needs to go on, so
\* the lock is never held by a request that waits for the pool; and whoever
\* holds a connection is still being served, so no answer leaves one behind.
HoldersCanGoOn ==
    /\ (lock # NULL) => (lock \in conns)
    /\ \A r \in conns : pc[r] \in {"handler", "result", "close"}

\* Once the database stays up, every request ends, although a replay may
\* keep the append lock while it waits for a thread, and all threads may be
\* waiting for that lock or for the connections of those who do: the pool's
\* timeout breaks the circle.
RequestsEnd ==
    (<>[](db = "up")) => \A r \in Requests : (pc[r] # "idle") ~> (pc[r] = "idle")

\* GET /health/live is answered whatever the database does, statements that
\* do not return included (health.py: "a database outage must not make this
\* report unhealthy").
LiveAnswers ==
    \A r \in Requests : (KindOf[r] = "live") => (pc[r] = "waiting") ~> (status[r] = 200)
=============================================================================
