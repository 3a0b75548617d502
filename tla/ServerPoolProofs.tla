-------------------------- MODULE ServerPoolProofs --------------------------
(***************************************************************************)
(* Proofs about what requests share, for any number of requests, threads   *)
(* and connections: the limits are kept, and who holds something can go on.*)
(***************************************************************************)
EXTENDS ServerPool, FiniteSetTheorems, SequenceTheorems, TLAPS

\* Together they are inductive.
PoolInv == TypeOK /\ HoldersCanGoOn

-----------------------------------------------------------------------------
(* Sets and queues.                                                        *)

\* A handler takes at most one more thread than are in use.
LEMMA OneMore ==
  ASSUME NEW S \in SUBSET Requests, NEW r \in Requests, NEW n \in Nat, Cardinality(S) < n
  PROVE  Cardinality(S \cup {r}) <= n
  <1>1. IsFiniteSet(S) /\ Cardinality(S) \in Nat
    BY RequestsAssumption, FS_Subset, FS_CardinalityType
  <1>2. Cardinality(S \cup {r}) = IF r \in S THEN Cardinality(S) ELSE Cardinality(S) + 1
    BY <1>1, FS_AddElement
  <1> QED
    BY <1>1, <1>2

\* Fewer requests use no more.
LEMMA NoMore ==
  ASSUME NEW S \in SUBSET Requests, NEW T \in SUBSET S, NEW n \in Nat, Cardinality(S) <= n
  PROVE  Cardinality(T) <= n
  <1>1. IsFiniteSet(S)
    BY RequestsAssumption, FS_Subset
  <1>2. Cardinality(T) <= Cardinality(S) /\ Cardinality(T) \in Nat /\ Cardinality(S) \in Nat
    BY <1>1, FS_Subset, FS_CardinalityType
  <1> QED
    BY <1>2

-----------------------------------------------------------------------------
\* The threads and connections are free at first.
LEMMA Initially == Init => PoolInv
  <1> SUFFICES ASSUME Init PROVE PoolInv
    OBVIOUS
  <1> USE DEF Init
  <1>1. Cardinality(conns) <= PoolSize /\ Cardinality(Running) <= Threads
    <2>1. conns = {} /\ Running = {}
      BY DEF Running
    <2> QED
      BY <2>1, FS_EmptySet, PoolAssumption
  <1>2. TypeOK
    BY <1>1, EmptySeq DEF TypeOK, PcValues
  <1>3. HoldersCanGoOn
    BY DEF HoldersCanGoOn
  <1> QED
    BY <1>2, <1>3 DEF PoolInv

\* Tuples of as many elements as there are statements are sequences.
LEMMA Tuples ==
  ASSUME NEW S, NEW a \in S, NEW b \in S, NEW c \in S
  PROVE  {<<>>, <<a>>, <<b, a>>, <<b, c, a>>, <<a, c, a, b, c, a>>} \subseteq Seq(S)
  OBVIOUS

\* What a handler asks for are statements.
LEMMA StatementsTyped ==
  ASSUME NEW kind
  PROVE  Statements(kind) \in Seq({"lock", "query", "commit"})
  <1>1. Statements(kind) \in {<<"lock", "commit", "query">>, <<"lock", "query">>,
          <<"query", "commit", "query", "lock", "commit", "query">>, <<>>, <<"query">>}
    BY DEF Statements
  <1> QED
    BY <1>1, Tuples
-----------------------------------------------------------------------------
(* The steps.                                                              *)

\* A step after which no more requests have a thread or a connection keeps
\* both limits.
LEMMA WithinLimits ==
  ASSUME PoolInv, Running' \subseteq Running, conns' \subseteq conns
  PROVE  Cardinality(conns') <= PoolSize /\ Cardinality(Running') <= Threads
  BY NoMore, PoolAssumption DEF PoolInv, TypeOK, Running

\* A request asks for a thread.
LEMMA ArriveStep ==
  ASSUME PoolInv, NEW r \in Requests, Arrive(r)
  PROVE  PoolInv'
  <1> USE DEF Arrive, Goto
  <1>1. Running' \subseteq Running /\ conns' = conns
    BY DEF PoolInv, TypeOK, Running
  <1>2. queue' \in Seq(Requests)
    BY AppendProperties DEF PoolInv, TypeOK
  <1>3. TypeOK'
    BY <1>1, <1>2, WithinLimits, StatementsTyped DEF PoolInv, TypeOK, PcValues
  <1>4. HoldersCanGoOn'
    BY DEF PoolInv, TypeOK, HoldersCanGoOn
  <1> QED
    BY <1>3, <1>4 DEF PoolInv

\* A thread is taken, if one is free.
LEMMA StartHandlerStep ==
  ASSUME PoolInv, NEW r \in Requests, StartHandler(r)
  PROVE  PoolInv'
  <1> USE DEF StartHandler, Goto
  <1>1. Running' = Running \cup {r}
    BY DEF PoolInv, TypeOK, Running
  <1>2. Cardinality(Running') <= Threads
    BY <1>1, OneMore, PoolAssumption DEF ThreadFree, Running
  <1>3. queue' \in Seq(Requests)
    BY HeadTailProperties DEF PoolInv, TypeOK, Next1st
  <1>4. TypeOK'
    BY <1>2, <1>3 DEF PoolInv, TypeOK, PcValues
  <1>5. HoldersCanGoOn'
    BY DEF PoolInv, TypeOK, HoldersCanGoOn
  <1> QED
    BY <1>4, <1>5 DEF PoolInv

\* A connection is taken, if one is free.
LEMMA ConnectStep ==
  ASSUME PoolInv, NEW r \in Requests, Connect(r)
  PROVE  PoolInv'
  <1> USE DEF Connect
  <1>1. Cardinality(conns') <= PoolSize
    BY OneMore, PoolAssumption DEF PoolInv, TypeOK
  <1>2. Running' = Running
    BY DEF Running
  <1>3. TypeOK'
    BY <1>1, <1>2 DEF PoolInv, TypeOK
  <1>4. HoldersCanGoOn'
    BY DEF PoolInv, HoldersCanGoOn
  <1> QED
    BY <1>3, <1>4 DEF PoolInv

\* A handler that fails keeps what it holds until its session is closed.
LEMMA FailStep ==
  ASSUME PoolInv, NEW r \in Requests, PoolTimeout(r) \/ DatabaseError(r)
  PROVE  PoolInv'
  <1>1. /\ pc[r] = "handler" /\ Fail(r) /\ UNCHANGED <<db, queue, conns, lock>>
    BY DEF PoolTimeout, DatabaseError
  <1> USE DEF Fail, Goto
  <1>2. Running' \subseteq Running
    BY <1>1 DEF PoolInv, TypeOK, Running
  <1>3. TypeOK'
    BY <1>1, <1>2, WithinLimits, EmptySeq DEF PoolInv, TypeOK, PcValues
  <1>4. HoldersCanGoOn'
    BY <1>1 DEF PoolInv, TypeOK, HoldersCanGoOn
  <1> QED
    BY <1>3, <1>4 DEF PoolInv

\* A statement needs the connection, which the lock is taken and let go with.
LEMMA StatementStep ==
  ASSUME PoolInv, NEW r \in Requests, TakeAppendLock(r) \/ Query(r) \/ Commit(r)
  PROVE  PoolInv'
  <1>1. /\ r \in conns /\ todo[r] # <<>> /\ todo' = [todo EXCEPT ![r] = Tail(todo[r])]
        /\ UNCHANGED <<db, queue, pc, status>>
        /\ conns' \subseteq conns
    BY DEF TakeAppendLock, Query, Commit, Statement
  <1>2. lock' \in Requests \cup {NULL} /\ ((lock' # NULL) => (lock' \in conns'))
    BY <1>1 DEF TakeAppendLock, Query, Commit, PoolInv, TypeOK, HoldersCanGoOn
  <1>3. Running' = Running
    BY <1>1 DEF Running
  <1>4. Tail(todo[r]) \in Seq({"lock", "query", "commit"})
    BY <1>1, HeadTailProperties DEF PoolInv, TypeOK
  <1>5. TypeOK'
    BY <1>1, <1>2, <1>3, <1>4, WithinLimits DEF PoolInv, TypeOK
  <1>6. HoldersCanGoOn'
    BY <1>1, <1>2 DEF PoolInv, HoldersCanGoOn
  <1> QED
    BY <1>5, <1>6 DEF PoolInv

\* A result is on its way to the client, and its session still open.
LEMMA ResultStep ==
  ASSUME PoolInv, NEW r \in Requests, ReturnResponse(r) \/ ReturnResult(r) \/ Serialise(r)
  PROVE  PoolInv'
  <1> USE DEF ReturnResponse, ReturnResult, Serialise, Goto
  <1>1. /\ UNCHANGED <<db, todo, conns, lock>>
        /\ pc' = [pc EXCEPT ![r] = pc'[r]] /\ pc'[r] \in {"result", "close"}
    BY DEF PoolInv, TypeOK
  <1>2. queue' \in Seq(Requests) /\ status' \in [Requests -> {NULL, 200, 500, 503}]
    <2>1. queue \in Seq(Requests) /\ status \in [Requests -> {NULL, 200, 500, 503}]
      BY DEF PoolInv, TypeOK
    <2>2. CASE ReturnResponse(r)
      BY <2>1, <2>2
    <2>3. CASE ReturnResult(r)
      BY <2>1, <2>3, AppendProperties
    <2>4. CASE Serialise(r)
      BY <2>1, <2>4, HeadTailProperties DEF Next1st
    <2> QED
      BY <2>2, <2>3, <2>4
  <1>3. Running' \subseteq Running
    BY <1>1 DEF PoolInv, TypeOK, Running
  <1> HIDE DEF ReturnResponse, ReturnResult, Serialise
  <1>4. TypeOK'
    <2>1. Cardinality(conns') <= PoolSize /\ Cardinality(Running') <= Threads
      BY <1>1, <1>3, WithinLimits
    <2>2. pc' \in [Requests -> PcValues]
      BY <1>1 DEF PoolInv, TypeOK, PcValues
    <2> QED
      BY <1>1, <1>2, <2>1, <2>2 DEF PoolInv, TypeOK
  <1>5. HoldersCanGoOn'
    BY <1>1 DEF PoolInv, TypeOK, HoldersCanGoOn
  <1> QED
    BY <1>4, <1>5 DEF PoolInv

\* The end of a session gives everything back.
LEMMA CloseStep ==
  ASSUME PoolInv, NEW r \in Requests, Close(r)
  PROVE  PoolInv'
  <1> USE DEF Close, Goto
  <1>1. Running' \subseteq Running /\ conns' \subseteq conns
    BY DEF PoolInv, TypeOK, Running
  <1>2. TypeOK'
    BY <1>1, WithinLimits DEF PoolInv, TypeOK, PcValues
  <1>3. HoldersCanGoOn'
    BY DEF PoolInv, TypeOK, HoldersCanGoOn
  <1> QED
    BY <1>2, <1>3 DEF PoolInv

\* The database comes and goes without touching what requests hold.
LEMMA IdleStep ==
  ASSUME PoolInv, DatabaseChanges \/ UNCHANGED vars
  PROVE  PoolInv'
  <1>1. UNCHANGED <<queue, pc, todo, conns, lock, status>> /\ db' \in {"up", "out"}
    BY DEF DatabaseChanges, vars, PoolInv, TypeOK
  <1>2. TypeOK'
    BY <1>1 DEF PoolInv, TypeOK, Running
  <1>3. HoldersCanGoOn'
    BY <1>1 DEF PoolInv, HoldersCanGoOn
  <1> QED
    BY <1>2, <1>3 DEF PoolInv

-----------------------------------------------------------------------------
(* The theorems.                                                           *)

\* The invariant is inductive.
LEMMA PoolInvariance == Spec => []PoolInv
  <1>1. PoolInv /\ [Next]_vars => PoolInv'
    <2> SUFFICES ASSUME PoolInv, [Next]_vars PROVE PoolInv'
      OBVIOUS
    <2>1. ASSUME NEW r \in Requests, Arrive(r) \/ ServerStep(r) \/ DatabaseError(r) \/ Close(r)
          PROVE  PoolInv'
      BY <2>1, ArriveStep, StartHandlerStep, ConnectStep, FailStep, StatementStep, ResultStep,
         CloseStep DEF ServerStep
    <2> QED
      BY <2>1, IdleStep DEF Next
  <1> QED
    BY <1>1, Initially, PTL DEF Spec

\* Types, and the limits: never more handlers than threads nor more sessions
\* with a connection than the pool has.
THEOREM PoolTypeCorrect == Spec => []TypeOK
  <1>1. PoolInv => TypeOK
    BY DEF PoolInv
  <1> QED
    BY <1>1, PoolInvariance, PTL

\* The append lock is never held by a request that waits for the pool, and no
\* answer leaves a connection behind.
THEOREM NobodyWaitsHolding == Spec => []HoldersCanGoOn
  <1>1. PoolInv => HoldersCanGoOn
    BY DEF PoolInv
  <1> QED
    BY <1>1, PoolInvariance, PTL
=============================================================================
