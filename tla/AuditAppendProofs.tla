------------------------- MODULE AuditAppendProofs -------------------------
(***************************************************************************)
(* Proofs about the write path, for every number of workers, users, keys,  *)
(* bodies and ids: IInv is inductive, and the safety properties follow.    *)
(***************************************************************************)
EXTENDS AuditAppend, TLAPS

\* The initial state satisfies the inductive invariant.
LEMMA Initially == Init => IInv
  <1> SUFFICES ASSUME Init PROVE IInv
    OBVIOUS
  <1> USE DEF Init
  <1>1. TypeOK
    BY BoundsAssumption DEF TypeOK, PcValues, AfterInsert
  <1>2. LockInv
    BY WorkersAssumption DEF LockInv, UnderLock
  <1>3. StagedInv
    BY DEF StagedInv, AfterInsert
  <1>4. IdInv /\ KeyInv /\ AnswerInv
    BY DEF IdInv, KeyInv, AnswerInv, AnswersMatchRequests
  <1>5. LinearChain /\ OneEventPerKey /\ TimestampsFollowIds
    BY DEF LinearChain, OneEventPerKey, TimestampsFollowIds
  <1> QED
    BY <1>1, <1>2, <1>3, <1>4, <1>5 DEF IInv

-----------------------------------------------------------------------------
(* One lemma per action, and in it one step per part of IInv.              *)

\* An action that leaves the committed records alone keeps what IInv says of
\* the records themselves.
LEMMA SameRecords ==
  ASSUME IInv, UNCHANGED <<events, idem, origin>>
  PROVE  LinearChain' /\ OneEventPerKey' /\ TimestampsFollowIds'
  <1>1. LinearChain'
    BY DEF IInv, LinearChain, IsFirst, Adjacent
  <1>2. OneEventPerKey' /\ TimestampsFollowIds'
    BY DEF IInv, OneEventPerKey, TimestampsFollowIds
  <1> QED
    BY <1>1, <1>2

\* Nor does it change what a session would read of them.
LEMMA SameReads ==
  ASSUME UNCHANGED events
  PROVE  /\ \A h : IsPreviousHash(h)' <=> IsPreviousHash(h)
         /\ \A r : EventHashTaken(r)' <=> EventHashTaken(r)
  BY DEF IsPreviousHash, IsLastEvent, EventHashTaken

\* A row has the content of the request it was built from.
LEMMA RowContent ==
  ASSUME NEW r, NEW t, NEW h
  PROVE  LET row == AuditEvent(r, t, h)
         IN  RequestContent(row.tenant_id, row) = RequestContent(r.tenant_id, r.event_in)
  BY DEF AuditEvent, RequestContent

\* A request arrives: nothing is read or written yet.
LEMMA BeginStep ==
  ASSUME IInv, NEW w \in Workers, Begin(w)
  PROVE  IInv'
  <1> USE DEF Begin, Goto, table, session, history
  <1>1. TypeOK'
    BY UsersAssumption DEF IInv, TypeOK, PcValues, AfterInsert, Request
  <1>2. LockInv'
    BY DEF IInv, LockInv, UnderLock
  <1>3. StagedInv'
    BY SameReads DEF IInv, StagedInv, AfterInsert
  <1>4. IdInv'
    BY DEF IInv, IdInv
  <1>5. KeyInv'
    BY DEF IInv, KeyInv, IdempotencyKeyTaken, get_idempotency_record
  <1>6. AnswerInv'
    BY DEF IInv, AnswerInv, AnswersMatchRequests
  <1> QED
    BY <1>1, <1>2, <1>3, <1>4, <1>5, <1>6, SameRecords DEF IInv

\* A session takes the append lock: no other session holds it.
LEMMA LockForAppendStep ==
  ASSUME IInv, NEW w \in Workers, LockForAppend(w)
  PROVE  IInv'
  <1> USE DEF LockForAppend, Goto, table, session, history
  <1>1. TypeOK'
    BY DEF IInv, TypeOK, PcValues, AfterInsert
  <1>2. LockInv'
    BY WorkersAssumption DEF IInv, TypeOK, LockInv, UnderLock
  <1>3. StagedInv'
    BY SameReads DEF IInv, StagedInv, AfterInsert
  <1>4. IdInv'
    BY DEF IInv, IdInv
  <1>5. KeyInv'
    BY DEF IInv, KeyInv, IdempotencyKeyTaken, get_idempotency_record
  <1>6. AnswerInv'
    BY DEF IInv, AnswerInv, AnswersMatchRequests
  <1> QED
    BY <1>1, <1>2, <1>3, <1>4, <1>5, <1>6, SameRecords DEF IInv

\* The key turns out new, and stays so: nobody else is under the lock.
LEMMA KeyUnusedStep ==
  ASSUME IInv, NEW w \in Workers, KeyUnused(w)
  PROVE  IInv'
  <1> USE DEF KeyUnused, Goto, table, session, history
  <1>1. TypeOK'
    BY DEF IInv, TypeOK, PcValues, AfterInsert
  <1>2. LockInv'
    BY DEF IInv, LockInv, UnderLock
  <1>3. StagedInv'
    BY DEF IInv, StagedInv, LockInv, UnderLock, AfterInsert
  <1>4. IdInv'
    BY DEF IInv, IdInv
  <1>5. KeyInv'
    BY DEF IInv, KeyInv, IdempotencyKeyTaken, get_idempotency_record
  <1>6. AnswerInv'
    BY DEF IInv, AnswerInv, AnswersMatchRequests
  <1> QED
    BY <1>1, <1>2, <1>3, <1>4, <1>5, <1>6, SameRecords DEF IInv

\* A replay: the key's row leads to a committed record with the content asked
\* for, because equal fingerprints mean equal contents.
LEMMA ReplayStep ==
  ASSUME IInv, NEW w \in Workers, Replay(w)
  PROVE  IInv'
  <1> USE DEF Replay, Goto, table, session, history
  <1>0. PICK existing \in get_idempotency_record(req[w]) :
          /\ existing.request_fingerprint =
               compute_request_fingerprint(req[w].tenant_id, req[w].event_in)
          /\ result' = [result EXCEPT ![w] = existing.event_id]
    OBVIOUS
  <1>A. /\ existing.event_id \in DOMAIN events
        /\ origin[existing.event_id] = [username |-> req[w].username, key |-> req[w].key]
        /\ existing.request_fingerprint =
              compute_request_fingerprint(events[existing.event_id].tenant_id, events[existing.event_id])
    BY DEF IInv, KeyInv, get_idempotency_record
  <1>B. RequestContent(events[existing.event_id].tenant_id, events[existing.event_id])
           = RequestContent(req[w].tenant_id, req[w].event_in)
    BY <1>0, <1>A DEF compute_request_fingerprint, Sha256
  <1>1. TypeOK'
    BY <1>0, <1>A DEF IInv, TypeOK, PcValues, AfterInsert
  <1>2. LockInv'
    BY DEF IInv, LockInv, UnderLock
  <1>3. StagedInv'
    BY SameReads DEF IInv, StagedInv, AfterInsert
  <1>4. IdInv'
    BY DEF IInv, IdInv
  <1>5. KeyInv'
    BY DEF IInv, KeyInv, IdempotencyKeyTaken, get_idempotency_record
  <1>6. AnswerInv'
    BY <1>0, <1>A, <1>B DEF IInv, TypeOK, AnswerInv, AnswersMatchRequests
  <1> QED
    BY <1>1, <1>2, <1>3, <1>4, <1>5, <1>6, SameRecords DEF IInv

\* A conflict changes nothing but where the session is.
LEMMA ConflictStep ==
  ASSUME IInv, NEW w \in Workers, Conflict(w)
  PROVE  IInv'
  <1> USE DEF Conflict, Goto, table, session, history
  <1>1. TypeOK'
    BY DEF IInv, TypeOK, PcValues, AfterInsert
  <1>2. LockInv'
    BY DEF IInv, LockInv, UnderLock
  <1>3. StagedInv'
    BY DEF IInv, StagedInv, LockInv, UnderLock, AfterInsert
  <1>4. IdInv'
    BY DEF IInv, IdInv
  <1>5. KeyInv'
    BY DEF IInv, KeyInv, LockInv, UnderLock
  <1>6. AnswerInv'
    BY DEF IInv, AnswerInv, AnswersMatchRequests
  <1> QED
    BY <1>1, <1>2, <1>3, <1>4, <1>5, <1>6, SameRecords DEF IInv

\* The new row extends the chain as it is now, with the latest timestamp.
LEMMA ComputeEventStep ==
  ASSUME IInv, NEW w \in Workers, ComputeEvent(w)
  PROVE  IInv'
  <1> USE DEF ComputeEvent, Goto, table, history
  <1>0. PICK previous_hash :
          /\ IsPreviousHash(previous_hash)
          /\ staged' = [staged EXCEPT ![w] = AuditEvent(req[w], clock, previous_hash)]
    OBVIOUS
  <1> DEFINE row == AuditEvent(req[w], clock, previous_hash)
  <1>A. /\ row.previous_hash = previous_hash /\ row.timestamp = clock
        /\ req[w].tenant_id \in Tenants /\ req[w].event_in \in Bodies
        /\ row = AuditEvent([tenant_id |-> req[w].tenant_id, event_in |-> req[w].event_in],
                            clock, row.previous_hash)
    BY DEF IInv, TypeOK, Request, AuditEvent
  <1>B. IsRow(row) /\ staged'[w] = row
    BY <1>0, <1>A DEF IInv, TypeOK, IsRow
  <1> HIDE DEF row
  <1>1. TypeOK'
    <2>1. ASSUME NEW v \in Workers
          PROVE  /\ (pc'[v] # "idle") => (req'[v] \in Request)
                 /\ (pc'[v] \in {"lookup", "record"}) => (req'[v].key # NULL)
                 /\ (pc'[v] \in AfterInsert \cup {"insert"}) => IsRow(staged'[v])
                 /\ (pc'[v] \in AfterInsert \cup {"respond"}) => (result'[v] \in Nat \ {0})
      BY <1>B DEF IInv, TypeOK, AfterInsert
    <2>2. staged' = [v \in Workers |-> staged'[v]] /\ pc' \in [Workers -> PcValues]
      BY DEF IInv, TypeOK, PcValues
    <2> QED
      BY <2>1, <2>2 DEF IInv, TypeOK
  <1>2. LockInv'
    BY DEF IInv, LockInv, UnderLock
  <1>3. StagedInv'
    <2>1. ASSUME NEW v \in Workers, v # w PROVE StagedInv!(v)'
      BY <2>1, SameReads DEF IInv, StagedInv
    <2>2. StagedInv!(w)'
      BY <1>0, <1>A, SameReads DEF IInv, TypeOK, AfterInsert, IdInv, row
    <2> QED
      BY <2>1, <2>2 DEF StagedInv
  <1>4. IdInv'
    BY DEF IInv, IdInv
  <1>5. KeyInv'
    BY DEF IInv, KeyInv, IdempotencyKeyTaken, get_idempotency_record
  <1>6. AnswerInv'
    BY DEF IInv, AnswerInv, AnswersMatchRequests
  <1> QED
    BY <1>1, <1>2, <1>3, <1>4, <1>5, <1>6, SameRecords DEF IInv

\* The id taken is behind every committed one.
LEMMA InsertEventStep ==
  ASSUME IInv, NEW w \in Workers, InsertEvent(w)
  PROVE  IInv'
  <1> USE DEF InsertEvent, Goto, table, session, history
  <1>1. TypeOK'
    BY DEF IInv, TypeOK, PcValues
  <1>2. LockInv'
    BY DEF IInv, LockInv, UnderLock
  <1>3. StagedInv'
    BY SameReads DEF IInv, TypeOK, StagedInv, IdInv
  <1>4. IdInv'
    BY DEF IInv, TypeOK, IdInv
  <1>5. KeyInv'
    BY DEF IInv, KeyInv, IdempotencyKeyTaken, get_idempotency_record
  <1>6. AnswerInv'
    BY DEF IInv, AnswerInv, AnswersMatchRequests
  <1> QED
    BY <1>1, <1>2, <1>3, <1>4, <1>5, <1>6, SameRecords DEF IInv

\* The flush of the key's row changes nothing that others see.
LEMMA RecordIdempotencyKeyStep ==
  ASSUME IInv, NEW w \in Workers, RecordIdempotencyKey(w)
  PROVE  IInv'
  <1> USE DEF RecordIdempotencyKey, Goto, table, session, history
  <1>1. TypeOK'
    BY DEF IInv, TypeOK, PcValues, AfterInsert
  <1>2. LockInv'
    BY DEF IInv, LockInv, UnderLock
  <1>3. StagedInv'
    BY SameReads DEF IInv, StagedInv, AfterInsert
  <1>4. IdInv'
    BY DEF IInv, IdInv
  <1>5. KeyInv'
    BY DEF IInv, KeyInv, IdempotencyKeyTaken, get_idempotency_record
  <1>6. AnswerInv'
    BY DEF IInv, AnswerInv, AnswersMatchRequests
  <1> QED
    BY <1>1, <1>2, <1>3, <1>4, <1>5, <1>6, SameRecords DEF IInv

\* The commit: the one step that adds to the records.
LEMMA CommitStep ==
  ASSUME IInv, NEW w \in Workers, Commit(w)
  PROVE  IInv'
  <1>0. PICK id, row, key, who :
          /\ id = result[w] /\ row = staged[w] /\ key = req[w].key
          /\ who = [username |-> req[w].username, key |-> req[w].key]
    OBVIOUS
  <1>1. /\ pc[w] = "commit" /\ lock = w
        /\ id \in Nat \ {0} /\ id < nextId /\ id \notin DOMAIN events
        /\ \A j \in DOMAIN events : j < id /\ j \in Nat \ {0}
        /\ req[w] \in Request /\ IsRow(row) /\ ~EventHashTaken(row)
        /\ IsPreviousHash(row.previous_hash)
        /\ row = AuditEvent(req[w], row.timestamp, row.previous_hash)
        /\ row.timestamp <= clock \/ ClockMayStepBack
        /\ \A j \in DOMAIN events : events[j].timestamp <= row.timestamp \/ ClockMayStepBack
        /\ key # NULL => ~IdempotencyKeyTaken(req[w])
    <2>1. pc[w] = "commit"
      BY DEF Commit
    <2>2. /\ id \in Nat \ {0} /\ req[w] \in Request /\ IsRow(row)
          /\ \A j \in DOMAIN events : j \in Nat \ {0}
      BY <1>0, <2>1 DEF IInv, TypeOK, AfterInsert
    <2>3. lock = w /\ (key # NULL => ~IdempotencyKeyTaken(req[w]))
      BY <1>0, <2>1 DEF IInv, LockInv, UnderLock, KeyInv
    <2>4. /\ id < nextId /\ ~EventHashTaken(row)
          /\ \A j \in DOMAIN events : j < id
          /\ IsPreviousHash(row.previous_hash)
          /\ row = AuditEvent(req[w], row.timestamp, row.previous_hash)
          /\ row.timestamp <= clock \/ ClockMayStepBack
          /\ \A j \in DOMAIN events : events[j].timestamp <= row.timestamp \/ ClockMayStepBack
      BY <1>0, <2>1 DEF IInv, StagedInv, AfterInsert
    <2> QED
      BY <2>1, <2>2, <2>3, <2>4
  <1>2. /\ DOMAIN events' = DOMAIN events \cup {id}
        /\ events'[id] = row
        /\ \A j \in DOMAIN events : events'[j] = events[j]
        /\ DOMAIN origin' = DOMAIN origin \cup {id}
        /\ origin'[id] = who
        /\ \A j \in DOMAIN origin : origin'[j] = origin[j]
    BY <1>0, <1>1 DEF Commit, Published, IInv, KeyInv
  <1>3. /\ lock' = NULL /\ pc' = [pc EXCEPT ![w] = "respond"]
        /\ idem' = IF key = NULL THEN idem ELSE idem \cup {IdempotencyKey(req[w], id)}
        /\ UNCHANGED <<nextId, clock, req, staged, result, replies>>
    BY <1>0 DEF Commit, Published, Goto, session
  <1>4. \A v \in Workers : v # w => pc'[v] = pc[v] /\ pc[v] \notin UnderLock
    BY <1>1, <1>3 DEF IInv, LockInv
  <1>5. TypeOK'
    <2>1. events' = [i \in DOMAIN events' |-> events'[i]] /\ origin' = [i \in DOMAIN origin' |-> origin'[i]]
      BY DEF Commit, Published
    <2>2. /\ \A i \in DOMAIN events' : IsRow(events'[i])
          /\ DOMAIN events' \subseteq Nat \ {0}
          /\ \A i \in DOMAIN origin' : origin'[i] \in [username : Users, key : Keys \cup {NULL}]
      BY <1>0, <1>1, <1>2 DEF IInv, TypeOK, Request
    <2>3. /\ pc' \in [Workers -> PcValues]
          /\ \A v \in Workers :
               /\ (pc'[v] # "idle") => (req'[v] \in Request)
               /\ (pc'[v] \in {"lookup", "record"}) => (req'[v].key # NULL)
               /\ (pc'[v] \in AfterInsert \cup {"insert"}) => IsRow(staged'[v])
               /\ (pc'[v] \in AfterInsert \cup {"respond"}) => (result'[v] \in Nat \ {0})
      BY <1>1, <1>3 DEF IInv, TypeOK, PcValues, AfterInsert
    <2> QED
      BY <1>3, <2>1, <2>2, <2>3 DEF IInv, TypeOK
  <1>6. LockInv'
    BY <1>3, <1>4, WorkersAssumption DEF IInv, TypeOK, LockInv, UnderLock
  <1>7. StagedInv'
    BY <1>3, <1>4 DEF IInv, TypeOK, StagedInv, UnderLock, AfterInsert
  <1>8. IdInv'
    BY <1>1, <1>2, <1>3 DEF IInv, IdInv, EventHashTaken
  <1>9. KeyInv'
    <2>1. ASSUME NEW k \in idem'
          PROVE  /\ k.event_id \in DOMAIN events'
                 /\ origin'[k.event_id] = [username |-> k.username, key |-> k.idempotency_key]
                 /\ k.request_fingerprint =
                      compute_request_fingerprint(events'[k.event_id].tenant_id, events'[k.event_id])
      <3>1. CASE k \in idem
        BY <1>2, <3>1 DEF IInv, KeyInv
      <3>2. CASE k \notin idem
        <4>1. k = IdempotencyKey(req[w], id)
          BY <1>3, <3>2
        <4>2. RequestContent(row.tenant_id, row) = RequestContent(req[w].tenant_id, req[w].event_in)
          BY <1>1, RowContent
        <4> QED
          BY <1>0, <1>2, <4>1, <4>2 DEF IdempotencyKey, compute_request_fingerprint
      <3> QED
        BY <3>1, <3>2
    <2>2. ASSUME NEW i \in DOMAIN origin', origin'[i].key # NULL
          PROVE  \E k \in idem' : k.username = origin'[i].username /\ k.idempotency_key = origin'[i].key
      <3>1. CASE i \in DOMAIN origin
        BY <1>2, <1>3, <2>2, <3>1 DEF IInv, KeyInv
      <3>2. CASE i \notin DOMAIN origin
        <4>1. i = id /\ origin'[i].key = req[w].key /\ key # NULL
          BY <1>0, <1>2, <2>2, <3>2
        <4>2. IdempotencyKey(req[w], id) \in idem'
          BY <1>3, <4>1
        <4>3. /\ IdempotencyKey(req[w], id).username = origin'[i].username
              /\ IdempotencyKey(req[w], id).idempotency_key = origin'[i].key
          BY <1>0, <1>2, <4>1 DEF IdempotencyKey
        <4> QED
          BY <4>2, <4>3
      <3> QED
        BY <3>1, <3>2
    <2>3. \A v \in Workers : pc'[v] \notin {"compute", "insert", "record", "commit"}
      BY <1>3, <1>4 DEF IInv, TypeOK, UnderLock
    <2> QED
      BY <1>2, <2>1, <2>2, <2>3 DEF IInv, KeyInv
  <1>10. AnswerInv'
    <2>1. AnswersMatchRequests'
      BY <1>2, <1>3 DEF IInv, KeyInv, AnswerInv, AnswersMatchRequests
    <2>2. RequestContent(row.tenant_id, row) = RequestContent(req[w].tenant_id, req[w].event_in)
      BY <1>1, RowContent
    <2>3. ASSUME NEW v \in Workers, pc'[v] = "respond"
          PROVE  /\ result'[v] \in DOMAIN events'
                 /\ RequestContent(events'[result'[v]].tenant_id, events'[result'[v]])
                      = RequestContent(req'[v].tenant_id, req'[v].event_in)
                 /\ (req'[v].key # NULL) =>
                      (origin'[result'[v]] = [username |-> req'[v].username, key |-> req'[v].key])
      <3>1. CASE v = w
        BY <1>0, <1>2, <1>3, <2>2, <3>1
      <3>2. CASE v # w
        BY <1>2, <1>3, <2>3, <3>2 DEF IInv, AnswerInv, KeyInv
      <3> QED
        BY <3>1, <3>2
    <2> QED
      BY <2>1, <2>3 DEF AnswerInv
  <1>11. LinearChain'
    <2>1. ASSUME NEW i \in DOMAIN events
          PROVE  \/ IsFirst(i)' /\ events'[i].previous_hash = GENESIS_HASH
                 \/ \E j \in DOMAIN events' :
                      Adjacent(j, i)' /\ events'[i].previous_hash = events'[j].event_hash
      BY <1>1, <1>2 DEF IInv, LinearChain, IsFirst, Adjacent
    <2>2. \/ IsFirst(id)' /\ events'[id].previous_hash = GENESIS_HASH
          \/ \E j \in DOMAIN events' :
               Adjacent(j, id)' /\ events'[id].previous_hash = events'[j].event_hash
      BY <1>1, <1>2 DEF IsPreviousHash, IsLastEvent, IsFirst, Adjacent
    <2> QED
      BY <1>2, <2>1, <2>2 DEF LinearChain
  <1>12. OneEventPerKey'
    <2>1. \A i \in DOMAIN origin : key # NULL => origin[i] # who
      BY <1>0, <1>1 DEF IInv, KeyInv, IdempotencyKeyTaken, get_idempotency_record
    <2> QED
      BY <1>0, <1>2, <2>1 DEF IInv, OneEventPerKey
  <1>13. TimestampsFollowIds'
    BY <1>1, <1>2 DEF IInv, TimestampsFollowIds
  <1> QED
    BY <1>5, <1>6, <1>7, <1>8, <1>9, <1>10, <1>11, <1>12, <1>13 DEF IInv

\* An answer is that of a committed record.
LEMMA RespondStep ==
  ASSUME IInv, NEW w \in Workers, Respond(w)
  PROVE  IInv'
  <1> USE DEF Respond, Goto, table, session, history
  <1>1. TypeOK'
    BY DEF IInv, TypeOK, PcValues, AfterInsert
  <1>2. LockInv'
    BY DEF IInv, LockInv, UnderLock
  <1>3. StagedInv'
    BY SameReads DEF IInv, StagedInv, AfterInsert
  <1>4. IdInv'
    BY DEF IInv, IdInv
  <1>5. KeyInv'
    BY DEF IInv, KeyInv, IdempotencyKeyTaken, get_idempotency_record
  <1>6. AnswerInv'
    BY DEF IInv, AnswerInv, AnswersMatchRequests
  <1> QED
    BY <1>1, <1>2, <1>3, <1>4, <1>5, <1>6, SameRecords DEF IInv

\* A session ends, by its close or by a crash, and keeps nothing.
LEMMA RollbackStep ==
  ASSUME IInv, NEW w \in Workers, Rollback(w), UNCHANGED <<table, clock, history>>
  PROVE  IInv'
  <1> USE DEF Rollback, Goto, table, history
  <1>1. TypeOK'
    <2>1. /\ pc' = [pc EXCEPT ![w] = "idle"] /\ pc \in [Workers -> PcValues]
          /\ req' = [req EXCEPT ![w] = NULL] /\ staged' = [staged EXCEPT ![w] = NULL]
          /\ result' = [result EXCEPT ![w] = NULL]
          /\ staged = [v \in Workers |-> staged[v]]
      BY DEF IInv, TypeOK
    <2>2. pc' \in [Workers -> PcValues]
      BY <2>1 DEF PcValues
    <2>3. /\ req' \in [Workers -> Request \cup {NULL}]
          /\ result' \in [Workers -> (Nat \ {0}) \cup {NULL}]
          /\ staged' = [v \in Workers |-> staged'[v]]
      BY DEF IInv, TypeOK
    <2>4. ASSUME NEW v \in Workers
          PROVE  /\ pc'[v] # "idle" => req'[v] \in Request
                 /\ (pc'[v] \in {"lookup", "record"}) => (req'[v].key # NULL)
                 /\ pc'[v] \in AfterInsert \cup {"insert"} => IsRow(staged'[v])
                 /\ pc'[v] \in AfterInsert \cup {"respond"} => result'[v] \in Nat \ {0}
      BY DEF IInv, TypeOK, AfterInsert
    <2> QED
      BY <2>2, <2>4 DEF IInv, TypeOK
  <1>2. LockInv'
    BY WorkersAssumption DEF IInv, TypeOK, LockInv, UnderLock
  <1>3. StagedInv'
    <2> SUFFICES ASSUME NEW v \in Workers, v # w, pc'[v] \in {"insert", "record", "commit"}
                 PROVE  StagedInv!(v)'
      BY DEF IInv, TypeOK, StagedInv, AfterInsert
    <2> QED
      BY SameReads DEF IInv, StagedInv
  <1>4. IdInv' /\ KeyInv'
    BY DEF IInv, TypeOK, IdInv, KeyInv, IdempotencyKeyTaken, get_idempotency_record
  <1>6. AnswerInv'
    BY DEF IInv, TypeOK, AnswerInv, AnswersMatchRequests
  <1> QED
    BY <1>1, <1>2, <1>3, <1>4, <1>6, SameRecords DEF IInv

\* Time passes: a later clock keeps every comparison with it, and nothing is
\* claimed of timestamps when it may be set back.
LEMMA ClockStep ==
  ASSUME IInv, Tick \/ StepClockBack
  PROVE  IInv'
  <1> USE DEF Tick, StepClockBack, table, session, history
  <1>1. TypeOK'
    BY BoundsAssumption DEF IInv, TypeOK
  <1>2. LockInv' /\ KeyInv' /\ AnswerInv'
    BY DEF IInv, LockInv, KeyInv, IdempotencyKeyTaken, get_idempotency_record, AnswerInv, AnswersMatchRequests
  <1>3. StagedInv'
    <2>1. clock' >= clock \/ ClockMayStepBack
      BY DEF IInv, TypeOK
    <2>2. ASSUME NEW v \in Workers, pc[v] \in {"insert", "record", "commit"}
          PROVE  staged[v].timestamp \in Nat
      BY <2>2 DEF IInv, TypeOK, IsRow, AuditEvent, AfterInsert
    <2>4. ASSUME NEW v \in Workers PROVE StagedInv!(v)'
      BY <2>2, SameReads DEF IInv, TypeOK, StagedInv
    <2> QED
      BY <2>4 DEF StagedInv
  <1>4. IdInv'
    BY DEF IInv, TypeOK, IdInv, IsRow, AuditEvent
  <1> QED
    BY <1>1, <1>2, <1>3, <1>4, SameRecords DEF IInv

\* Every step of the system preserves IInv.
LEMMA Inductive == IInv /\ [Next]_vars => IInv'
  <1> SUFFICES ASSUME IInv, [Next]_vars PROVE IInv'
    OBVIOUS
  <1>1. ASSUME NEW w \in Workers, Begin(w) PROVE IInv'
    BY <1>1, BeginStep
  <1>2. ASSUME NEW w \in Workers, CreateStep(w) PROVE IInv'
    <2>1. CASE LockForAppend(w) \/ KeyUnused(w) \/ Replay(w) \/ Conflict(w)
      BY <2>1, LockForAppendStep, KeyUnusedStep, ReplayStep, ConflictStep
    <2>2. CASE ComputeEvent(w) \/ InsertEvent(w) \/ RecordIdempotencyKey(w) \/ Commit(w)
      BY <2>2, ComputeEventStep, InsertEventStep, RecordIdempotencyKeyStep, CommitStep
    <2>3. CASE Respond(w)
      BY <2>3, RespondStep
    <2>4. CASE CloseSession(w)
      BY <2>4, RollbackStep DEF CloseSession
    <2> QED
      BY <1>2, <2>1, <2>2, <2>3, <2>4 DEF CreateStep
  <1>3. ASSUME NEW w \in Workers, Abort(w) PROVE IInv'
    BY <1>3, RollbackStep DEF Abort
  <1>4. CASE Tick \/ StepClockBack
    BY <1>4, ClockStep
  <1>5. CASE UNCHANGED vars
    <2> USE <1>5 DEF vars, table, session, history
    <2>1. TypeOK' /\ LockInv' /\ IdInv'
      BY DEF IInv, TypeOK, LockInv, IdInv
    <2>2. StagedInv'
      BY SameReads DEF IInv, StagedInv
    <2>3. KeyInv' /\ AnswerInv'
      BY DEF IInv, KeyInv, IdempotencyKeyTaken, get_idempotency_record, AnswerInv, AnswersMatchRequests
    <2> QED
      BY <2>1, <2>2, <2>3, SameRecords DEF IInv
  <1> QED
    BY <1>1, <1>2, <1>3, <1>4, <1>5 DEF Next

-----------------------------------------------------------------------------
(* Theorems.                                                               *)

\* The inductive invariant holds throughout every behaviour.
THEOREM Invariance == Spec => []IInv
  BY Initially, Inductive, PTL DEF Spec

\* Type correctness of the write path.
THEOREM TypeCorrect == Spec => []TypeOK
  <1>1. IInv => TypeOK
    BY DEF IInv
  <1> QED
    BY <1>1, Invariance, PTL

\* The committed records form one unforked chain, whatever the number of
\* concurrent writers, crashes and retries.
THEOREM ChainIsLinear == Spec => []LinearChain
  <1>1. IInv => LinearChain
    BY DEF IInv
  <1> QED
    BY <1>1, Invariance, PTL

\* An idempotency key stands for at most one committed record.
THEOREM ExactlyOnce == Spec => []OneEventPerKey
  <1>1. IInv => OneEventPerKey
    BY DEF IInv
  <1> QED
    BY <1>1, Invariance, PTL

\* Successful answers name committed records with the content asked for.
THEOREM AnswersAreTrue == Spec => []AnswersMatchRequests
  <1>1. IInv => AnswersMatchRequests
    BY DEF IInv, AnswerInv
  <1> QED
    BY <1>1, Invariance, PTL

\* Timestamps follow chain order while the clock is not set back.
THEOREM TimestampsOrdered == Spec => []TimestampsFollowIds
  <1>1. IInv => TimestampsFollowIds
    BY DEF IInv
  <1> QED
    BY <1>1, Invariance, PTL

\* No unique constraint fires.  A row with the hash of a committed record
\* would have the same previous_hash, so it would follow the record that one
\* follows; but it extends the last one.
THEOREM NoConstraintFires == Spec => []ConstraintsNeverFire
  <1>1. ASSUME IInv PROVE ConstraintsNeverFire
    <2>1. ASSUME NEW w \in Workers, pc[w] = "insert" PROVE ~EventHashTaken(staged[w])
      <3> SUFFICES ASSUME NEW id \in DOMAIN events,
                          events[id].event_hash = staged[w].event_hash
                   PROVE  FALSE
        BY DEF EventHashTaken
      <3>1. /\ IsPreviousHash(staged[w].previous_hash)
            /\ IsRow(staged[w]) /\ IsRow(events[id])
        BY <1>1, <2>1 DEF IInv, TypeOK, StagedInv
      <3>2. events[id].previous_hash = staged[w].previous_hash
        BY <3>1 DEF IsRow, AuditEvent, compute_event_hash, Sha256
      <3>3. PICK t \in DOMAIN events : /\ IsLastEvent(t)
                                       /\ staged[w].previous_hash = events[t].event_hash
        BY <3>1 DEF IsPreviousHash
      <3>4. events[t].event_hash # GENESIS_HASH
        BY <1>1 DEF IInv, TypeOK, IsRow, AuditEvent, compute_event_hash, Sha256, GENESIS_HASH
      <3>5. PICK j \in DOMAIN events : /\ Adjacent(j, id)
                                       /\ events[id].previous_hash = events[j].event_hash
        BY <1>1, <3>2, <3>3, <3>4 DEF IInv, LinearChain
      <3>6. j = t
        BY <1>1, <3>2, <3>3, <3>5 DEF IInv, IdInv
      <3> QED
        BY <1>1, <3>3, <3>5, <3>6 DEF Adjacent, IsLastEvent, IInv, TypeOK
    <2>2. ASSUME NEW w \in Workers, pc[w] = "record" PROVE ~IdempotencyKeyTaken(req[w])
      BY <1>1, <2>2 DEF IInv, TypeOK, KeyInv
    <2> QED
      BY <2>1, <2>2 DEF ConstraintsNeverFire
  <1> QED
    BY <1>1, Invariance, PTL

\* Commits happen in id order, and a committed record is never changed.
THEOREM CommitOrder == Spec => CommitsInIdOrder
  <1> DEFINE Ordered == \A id \in DOMAIN events' :
                          IF id \in DOMAIN events THEN events'[id] = events[id]
                                                  ELSE \A j \in DOMAIN events : j < id
  <1>1. ASSUME IInv, [Next]_vars PROVE Ordered
    <2>1. CASE \E w \in Workers : Commit(w)
      <3>1. PICK w \in Workers : Commit(w)
        BY <2>1
      <3>2. \A j \in DOMAIN events : j < result[w]
        BY <1>1, <3>1 DEF IInv, StagedInv, AfterInsert, Commit
      <3>3. result[w] \notin DOMAIN events
        BY <1>1, <3>2 DEF IInv, TypeOK
      <3> QED
        BY <3>1, <3>2, <3>3 DEF Commit, Published
    <2>2. CASE ~ \E w \in Workers : Commit(w)
      <3>1. UNCHANGED events
        BY <1>1, <2>2 DEF Next, vars, table, session, history, CreateStep, Begin,
          LockForAppend, KeyUnused, Replay, Conflict, ComputeEvent, InsertEvent,
          RecordIdempotencyKey, Respond, CloseSession, Abort, Tick, StepClockBack
      <3> QED
        BY <3>1
    <2> QED
      BY <2>1, <2>2
  <1>2. IInv /\ [Next]_vars => [Ordered]_vars
    BY <1>1
  <1> QED
    BY <1>2, Invariance, PTL DEF Spec, CommitsInIdOrder

-----------------------------------------------------------------------------
(* Refinement.                                                             *)

\* The write path starts where the abstract log does.
LEMMA LogInit == Init => Log!Init
  BY DEF Init, Log!Init

\* A commit appends one record to the abstract log.
LEMMA CommitIsAccept ==
  ASSUME IInv, NEW w \in Workers, Commit(w)
  PROVE  Log!Accept
  <1>0. PICK id, who : id = result[w] /\ who = [username |-> req[w].username, key |-> req[w].key]
    OBVIOUS
  <1>1. /\ pc[w] = "commit" /\ \A j \in DOMAIN events : j < id
        /\ who.key # NULL => ~IdempotencyKeyTaken(req[w])
    BY <1>0 DEF IInv, StagedInv, KeyInv, AfterInsert, Commit
  <1>2. /\ DOMAIN events' = DOMAIN events \cup {id}
        /\ \A j \in DOMAIN events : events'[j] = events[j]
        /\ DOMAIN origin' = DOMAIN origin \cup {id} /\ origin'[id] = who
        /\ \A j \in DOMAIN origin : origin'[j] = origin[j]
        /\ DOMAIN origin = DOMAIN events
        /\ UNCHANGED replies
    <2>1. id \notin DOMAIN events /\ DOMAIN origin = DOMAIN events
      BY <1>1 DEF IInv, TypeOK, KeyInv
    <2> QED
      BY <1>0, <2>1 DEF Commit, Published
  <1>3. \A j \in DOMAIN origin : who.key # NULL => origin[j] # who
    BY <1>0, <1>1 DEF IInv, KeyInv, IdempotencyKeyTaken, get_idempotency_record
  <1> QED
    BY <1>1, <1>2, <1>3 DEF Log!Accept, Log!Extends

\* Every step of the write path is a step of the abstract log or leaves it
\* alone.
LEMMA LogStep == IInv /\ [Next]_vars => [Log!Next]_(Log!vars)
  <1> SUFFICES ASSUME IInv, [Next]_vars PROVE [Log!Next]_(Log!vars)
    OBVIOUS
  <1>1. CASE \E w \in Workers : Commit(w)
    BY <1>1, CommitIsAccept DEF Log!Next
  <1>2. CASE \E w \in Workers : Respond(w)
    <2>1. PICK w \in Workers : Respond(w)
      BY <1>2
    <2>2. /\ result[w] \in DOMAIN events
          /\ Content(events[result[w]]) = RequestContent(req[w].tenant_id, req[w].event_in)
          /\ (req[w].key # NULL) =>
               (origin[result[w]] = [username |-> req[w].username, key |-> req[w].key])
      BY <2>1 DEF IInv, AnswerInv, Respond, Content
    <2> DEFINE said(r) == [origin   |-> [username |-> r.username, key |-> r.key],
                           content  |-> RequestContent(r.tenant_id, r.event_in),
                           event_id |-> r.event_id]
               r0 == [username  |-> req[w].username,
                      key       |-> req[w].key,
                      tenant_id |-> req[w].tenant_id,
                      event_in  |-> req[w].event_in,
                      event_id  |-> result[w]]
    <2>3. replies' = replies \cup {r0} /\ UNCHANGED <<events, origin>>
      BY <2>1 DEF Respond, table
    <2>4. /\ said(r0).event_id = result[w]
          /\ said(r0).content = RequestContent(req[w].tenant_id, req[w].event_in)
          /\ said(r0).origin = [username |-> req[w].username, key |-> req[w].key]
      OBVIOUS
    <2> HIDE DEF r0
    <2>5. {said(r) : r \in replies'} = {said(r) : r \in replies} \cup {said(r0)}
      BY <2>3
    <2>6. PICK a : a = said(r0)
      OBVIOUS
    <2>7. /\ a.event_id \in DOMAIN events
          /\ Content(events[a.event_id]) = a.content
          /\ (a.origin.key # NULL) => (origin[a.event_id] = a.origin)
      BY <2>2, <2>4, <2>6
    <2>8. {said(r) : r \in replies'} = {said(r) : r \in replies} \cup {a}
      BY <2>5, <2>6
    <2>9. Log!Answer
      <3>1. a \in {said(r) : r \in replies'}
        BY <2>8
      <3> QED
        BY <2>3, <2>7, <2>8 DEF Log!Answer
    <2> QED
      BY <2>9 DEF Log!Next
  <1>3. CASE ~ \E w \in Workers : Commit(w) \/ Respond(w)
    <2>1. UNCHANGED <<events, origin, replies>>
      BY <1>3 DEF Next, vars, table, session, history, CreateStep, Begin,
        LockForAppend, KeyUnused, Replay, Conflict, ComputeEvent, InsertEvent,
        RecordIdempotencyKey, CloseSession, Abort, Tick, StepClockBack
    <2> QED
      BY <2>1 DEF Log!vars
  <1> QED
    BY <1>1, <1>2, <1>3

\* The write path implements the append-only log.
THEOREM Refinement == Spec => ImplementsLog
  <1> QED
    BY Invariance, LogInit, LogStep, PTL DEF Spec, Log!Spec, ImplementsLog
=============================================================================
