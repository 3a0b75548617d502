-------------------------- MODULE AuditQueryProofs --------------------------
(***************************************************************************)
(* Proofs about the reads of the audit log, for every set of rows, callers *)
(* and filters, listings of any length and any number of reports:          *)
(* QueryIInv is inductive, and the properties of AuditQuery follow.        *)
(***************************************************************************)
EXTENDS AuditQuery, FiniteSetTheorems, SequenceTheorems, TLAPS

-----------------------------------------------------------------------------
(* Sets of ids in order.                                                   *)

\* How many of ids come before id: OFFSET and LIMIT count these.
Rank(ids, id) == Cardinality({j \in ids : j < id})

\* A rank is a number.
LEMMA RankIsNatural ==
  ASSUME NEW ids, IsFiniteSet(ids), NEW id
  PROVE  Rank(ids, id) \in Nat
  <1>1. IsFiniteSet({j \in ids : j < id})
    BY FS_Subset
  <1> QED
    BY <1>1, FS_CardinalityType DEF Rank

\* A set with fewer ids before it, and a later id, as far as ranks go.
LEMMA RankShrinks ==
  ASSUME NEW ids, NEW fewer, IsFiniteSet(ids), NEW id, NEW later,
         \A j \in fewer : (j < id) => (j \in ids /\ j < later)
  PROVE  Rank(fewer, id) <= Rank(ids, later)
  <1>1. {j \in fewer : j < id} \subseteq {j \in ids : j < later}
    OBVIOUS
  <1>2. IsFiniteSet({j \in ids : j < later})
    BY FS_Subset
  <1> QED
    BY <1>1, <1>2, FS_Subset DEF Rank

\* An id has a smaller rank than those after it.
LEMMA RankGrows ==
  ASSUME NEW ids, ids \subseteq Nat, IsFiniteSet(ids), NEW id \in ids, NEW later \in Nat, id < later
  PROVE  Rank(ids, id) < Rank(ids, later)
  <1> DEFINE below == {j \in ids : j < id}
  <1>1. IsFiniteSet(below) /\ IsFiniteSet({j \in ids : j < later})
    BY FS_Subset
  <1>2. Cardinality(below \cup {id}) = Cardinality(below) + 1
    <2>1. id \notin below
      <3>1. ~(id < id)
        OBVIOUS
      <3> QED
        BY <3>1
    <2> QED
      BY <1>1, <2>1, FS_AddElement
  <1>0. \A j \in ids : j \in Nat
    OBVIOUS
  <1>3. ASSUME NEW j \in below \cup {id} PROVE j \in ids /\ j < later
    BY <1>0
  <1>4. Cardinality(below \cup {id}) <= Cardinality({j \in ids : j < later})
    BY <1>1, <1>3, FS_Subset
  <1> QED
    BY <1>1, <1>2, <1>4, FS_CardinalityType DEF Rank

\* Between two ranks there are no more ids than ranks.
LEMMA RanksAreDistinct ==
  ASSUME NEW ids, ids \subseteq Nat, IsFiniteSet(ids), NEW some \in SUBSET ids,
         NEW lo \in Nat, NEW n \in Nat,
         \A id \in some : lo <= Rank(ids, id) /\ Rank(ids, id) < lo + n
  PROVE  IsFiniteSet(some) /\ Cardinality(some) <= n
  <1> DEFINE f == [id \in some |-> Rank(ids, id)]
             ranks == lo..(lo + n - 1)
  <1>1. IsFiniteSet(ranks) /\ Cardinality(ranks) = n
    BY FS_Interval
  <1>2. \A id \in some : Rank(ids, id) \in ranks
    BY RankIsNatural
  <1>3. ASSUME NEW i \in some, NEW j \in some, f[i] = f[j] PROVE i = j
    <2>1. /\ i \in Nat /\ j \in Nat /\ i \in ids /\ j \in ids
          /\ Rank(ids, i) = Rank(ids, j) /\ Rank(ids, i) \in Nat
      BY <1>3, RankIsNatural
    <2>2. (i < j) => (Rank(ids, i) < Rank(ids, j))
      BY <2>1, RankGrows
    <2>3. (j < i) => (Rank(ids, j) < Rank(ids, i))
      BY <2>1, RankGrows
    <2> QED
      BY <2>1, <2>2, <2>3
  <1>4. f \in Injection(some, ranks)
    BY <1>2, <1>3 DEF Injection, IsInjective
  <1> QED
    BY <1>1, <1>4, FS_Injection

\* Of any ids there is a least one.
LEMMA LeastId ==
  ASSUME NEW S, S \subseteq Nat, S # {}
  PROVE  \E x \in S : \A y \in S : x <= y
  <1>1. PICK x \in S : \A y \in S : <<y, x>> \notin OpToRel(<, Nat)
    BY NatLessThanWellFounded, WFMin
  <1>2. \A y \in S : ~(y < x)
    BY <1>1 DEF OpToRel
  <1> QED
    BY <1>2

\* A page has at most limit ids, and a short one ends the listing.
LEMMA PageSize ==
  ASSUME NEW ids, ids \subseteq Nat, IsFiniteSet(ids), NEW limit \in Nat, NEW offset \in Nat
  PROVE  /\ IsFiniteSet(Page(ids, limit, offset))
         /\ Cardinality(Page(ids, limit, offset)) <= limit
  <1>1. \A id \in Page(ids, limit, offset) :
          id \in ids /\ offset <= Rank(ids, id) /\ Rank(ids, id) < offset + limit
    BY DEF Page, Rank
  <1> QED
    BY <1>1, RanksAreDistinct

\* A page that is not full is the end: every id is in front of its end.
LEMMA ShortPageIsLast ==
  ASSUME NEW ids, ids \subseteq Nat, IsFiniteSet(ids), NEW limit \in Nat, NEW offset \in Nat,
         Cardinality(Page(ids, limit, offset)) < limit
  PROVE  \A id \in ids : Rank(ids, id) < offset + limit
  <1> DEFINE page == Page(ids, limit, offset)
             low  == {id \in ids : Rank(ids, id) < offset}
             upto == {id \in ids : Rank(ids, id) < offset + limit}
             bad  == ids \ upto
  <1>1. IsFiniteSet(page) /\ Cardinality(page) \in Nat
    BY PageSize, FS_CardinalityType
  <1>2. IsFiniteSet(low) /\ Cardinality(low) <= offset /\ Cardinality(low) \in Nat
    <2>1. \A id \in low : 0 <= Rank(ids, id) /\ Rank(ids, id) < 0 + offset
      BY RankIsNatural
    <2> QED
      BY <2>1, RanksAreDistinct, FS_CardinalityType
  <1>3. upto = low \cup page /\ low \cap page = {}
    <2>1. page = {id \in ids : offset <= Rank(ids, id) /\ Rank(ids, id) < offset + limit}
      BY DEF Page, Rank
    <2>2. \A id \in ids : Rank(ids, id) \in Nat
      BY RankIsNatural
    <2>3. \A id \in ids :
            (Rank(ids, id) < offset + limit) <=>
              (Rank(ids, id) < offset \/ (offset <= Rank(ids, id) /\ Rank(ids, id) < offset + limit))
      BY <2>2
    <2>4. \A id \in ids : ~(Rank(ids, id) < offset /\ offset <= Rank(ids, id))
      BY <2>2
    <2> HIDE DEF page
    <2> QED
      BY <2>1, <2>3, <2>4, Zenon
  <1>4. IsFiniteSet(upto) /\ Cardinality(upto) = Cardinality(low) + Cardinality(page)
    BY <1>1, <1>2, <1>3, FS_Union, FS_EmptySet
  <1>5. SUFFICES ASSUME bad # {} PROVE FALSE
    OBVIOUS
  <1>6. PICK k \in bad : \A j \in bad : k <= j
    BY <1>5, LeastId
  <1>7. {j \in ids : j < k} \subseteq upto
    <2>1. ASSUME NEW j \in ids, j < k, j \in bad PROVE FALSE
      <3>1. k \in ids
        BY <1>6
      <3>2. k <= j
        BY <1>6, <2>1
      <3> HIDE DEF bad
      <3> QED
        BY <2>1, <3>1, <3>2
    <2> QED
      BY <2>1
  <1>8. Rank(ids, k) <= Cardinality(upto)
    BY <1>4, <1>7, FS_Subset DEF Rank
  <1>9. Rank(ids, k) < offset + limit
    BY <1>1, <1>2, <1>4, <1>8, RankIsNatural
  <1> QED
    BY <1>6, <1>9

-----------------------------------------------------------------------------
(* What appends and retention do to committed rows.                        *)

\* Rows come behind all others and stay, and but for archived_at as they are.
EventsGrow ==
    /\ DOMAIN events \subseteq DOMAIN events'
    /\ \A id \in DOMAIN events' \ DOMAIN events : \A j \in DOMAIN events : j < id
    /\ \A id \in DOMAIN events :
         /\ \A column \in DOMAIN events[id] \ {"archived_at"} : events'[id][column] = events[id][column]
         /\ (events'[id].archived_at = NULL) => (events[id].archived_at = NULL)

\* The hash of a row, and whether it matches a query, do not change.
LEMMA MatchingStays ==
  ASSUME RowsInv, EventsGrow, NEW filter, FilterInv(filter), NEW period, NEW id \in DOMAIN events
  PROVE  /\ id \in DOMAIN events' /\ events'[id].event_hash = events[id].event_hash
         /\ (id \in Matching(filter, period)') <=> (id \in Matching(filter, period))
  <1>1. /\ RowInv(events[id]) /\ "event_hash" \in DOMAIN events[id]
        /\ "timestamp" \in DOMAIN events[id]
    BY DEF RowsInv, RowInv
  <1>2. PICK posted \in Rows : DOMAIN posted \subseteq DOMAIN events[id]
    BY <1>1 DEF RowInv
  <1>3. DOMAIN filter \subseteq DOMAIN posted /\ "archived_at" \notin DOMAIN posted
    BY ColumnsAssumption DEF FilterInv
  <1>4. /\ \A column \in DOMAIN filter : events'[id][column] = events[id][column]
        /\ events'[id].timestamp = events[id].timestamp
        /\ events'[id].event_hash = events[id].event_hash
    BY <1>1, <1>2, <1>3 DEF EventsGrow
  <1>5. Matches(events'[id], filter, period) <=> Matches(events[id], filter, period)
    BY <1>4 DEF Matches
  <1>6. id \in DOMAIN events'
    BY DEF EventsGrow
  <1> QED
    BY <1>4, <1>5, <1>6 DEF Matching

\* Ids below a bound are finitely many.
LEMMA FiniteIds ==
  ASSUME NEW next \in Nat, NEW ids, ids \subseteq 1..(next - 1)
  PROVE  ids \subseteq Nat /\ IsFiniteSet(ids)
  <1>1. IsFiniteSet(1..(next - 1))
    BY FS_Interval
  <1>2. IsFiniteSet(ids)
    BY <1>1, FS_Subset, Zenon
  <1> QED
    BY <1>2

\* The ids of the rows are finitely many numbers below the sequence.
LEMMA IdsAreNatural ==
  ASSUME RowsInv
  PROVE  /\ DOMAIN events \subseteq Nat /\ IsFiniteSet(DOMAIN events)
         /\ \A id \in DOMAIN events : id < nextId
         /\ nextId \in Nat
  <1>1. DOMAIN events \subseteq 1..(nextId - 1) /\ nextId \in 1..(MaxId + 1) /\ MaxId \in Nat
    BY QueryAssumption DEF RowsInv
  <1>2. nextId \in Nat
    BY <1>1
  <1> QED
    BY <1>1, <1>2, FiniteIds

\* Nothing becomes listed in front of a record.
LEMMA ListedInFront ==
  ASSUME RowsInv, RowsInv', EventsGrow, NEW filter, FilterInv(filter), NEW period,
         NEW id \in DOMAIN events
  PROVE  Cardinality({j \in Listed(filter, period) : j < id})' <=
           Cardinality({j \in Listed(filter, period) : j < id})
  <1>1. /\ DOMAIN events \subseteq Nat /\ IsFiniteSet(DOMAIN events) /\ DOMAIN events' \subseteq Nat
    <2>1. DOMAIN events' \subseteq 1..(nextId' - 1) /\ nextId' \in 1..(MaxId + 1) /\ MaxId \in Nat
      BY QueryAssumption DEF RowsInv
    <2> QED
      BY <2>1, IdsAreNatural
  <1>2. Listed(filter, period) \subseteq DOMAIN events
    BY DEF Listed
  <1>3. IsFiniteSet(Listed(filter, period))
    BY <1>1, <1>2, FS_Subset
  <1>4. ASSUME NEW j \in Listed(filter, period)', j < id
        PROVE  j \in Listed(filter, period)
    <2>1. j \in DOMAIN events' /\ events'[j].archived_at = NULL /\ j \in Matching(filter, period)'
      BY DEF Listed, Active, Matching
    <2>2. j \in DOMAIN events
      <3>1. j \in Nat /\ id \in Nat
        BY <1>1, <2>1
      <3>2. (j \notin DOMAIN events) => (id < j)
        BY <2>1 DEF EventsGrow
      <3> QED
        BY <1>4, <3>1, <3>2
    <2>3. events[j].archived_at = NULL /\ j \in Matching(filter, period)
      BY <2>1, <2>2, MatchingStays DEF EventsGrow
    <2> QED
      BY <2>2, <2>3 DEF Listed, Active, Matching
  <1>5. Rank(Listed(filter, period)', id) <= Rank(Listed(filter, period), id)
    BY <1>3, <1>4, RankShrinks
  <1> QED
    BY <1>5 DEF Rank

\* A walk that reads nothing now: others append, or retention archives.
WalkWaits ==
    /\ DOMAIN walk' = DOMAIN walk
    /\ walk'.caller = walk.caller /\ walk'.filter = walk.filter /\ walk'.period = walk.period
    /\ walk'.limit = walk.limit /\ walk'.pages = walk.pages /\ walk'.first = walk.first
    /\ walk.hidden \subseteq walk'.hidden
    /\ \A id \in DOMAIN events :
         (events[id].archived_at = NULL /\ events'[id].archived_at # NULL) => id \in walk'.hidden

\* A record that was shown stays in the room of its page while the rows only grow.
LEMMA ShownInFront ==
  ASSUME RowsInv, RowsInv', EventsGrow, walk # NULL, WalkInv, WalkWaits,
         NEW n \in DOMAIN walk.pages, NEW id \in walk.pages[n]
  PROVE  ShownInv(id, n)'
  <1>1. PICK filter, period : filter = walk.filter /\ period = walk.period
    OBVIOUS
  <1>2. /\ FilterInv(filter) /\ id \in Matching(filter, period)
        /\ Active(id) \/ id \in walk.hidden
        /\ Cardinality({j \in Listed(filter, period) : j < id}) < walk.limit * n
        /\ n \in Nat /\ walk.limit \in Nat
    <2>1. ShownInv(id, n) /\ walk.limit \in Limits /\ FilterInv(walk.filter)
          /\ walk.pages \in Seq(SUBSET Nat)
      BY DEF WalkInv
    <2>2. n \in Nat
      BY <2>1
    <2> QED
      BY <1>1, <2>1, <2>2, QueryAssumption DEF ShownInv
  <1>3. id \in DOMAIN events
    BY <1>2 DEF Matching
  <1>4. id \in Matching(filter, period)'
    BY <1>2, <1>3, MatchingStays
  <1>5. Active(id)' \/ id \in walk'.hidden
    BY <1>2, <1>3 DEF Active, WalkWaits
  <1>6. Cardinality({j \in Listed(filter, period) : j < id})' <
          walk.limit * n
    <2>1. /\ IsFiniteSet({j \in Listed(filter, period) : j < id})
          /\ IsFiniteSet({j \in Listed(filter, period) : j < id})'
      <3>1. IsFiniteSet(DOMAIN events)
        BY IdsAreNatural
      <3>2. IsFiniteSet(DOMAIN events')
        <4>1. nextId' \in Nat /\ DOMAIN events' \subseteq 1..(nextId' - 1)
          BY QueryAssumption DEF RowsInv
        <4> QED
          BY <4>1, FiniteIds
      <3>3. Listed(filter, period) \subseteq DOMAIN events
        BY DEF Listed
      <3>4. Listed(filter, period)' \subseteq DOMAIN events'
        BY DEF Listed
      <3> QED
        BY <3>1, <3>2, <3>3, <3>4, FS_Subset
    <2>2. /\ Cardinality({j \in Listed(filter, period) : j < id}) \in Nat
          /\ Cardinality({j \in Listed(filter, period) : j < id})' \in Nat
      BY <2>1, FS_CardinalityType
    <2>3. Cardinality({j \in Listed(filter, period) : j < id})' <=
            Cardinality({j \in Listed(filter, period) : j < id})
      BY <1>2, <1>3, ListedInFront
    <2>4. walk.limit * n \in Nat
      BY <1>2
    <2> QED
      BY <1>2, <2>2, <2>3, <2>4
  <1>7. /\ walk'.filter = filter /\ walk'.period = period /\ walk'.limit = walk.limit
    BY <1>1 DEF WalkWaits
  <1> QED
    BY <1>4, <1>5, <1>6, <1>7 DEF ShownInv

\* What a walk has been shown stays true while others append and archive.
LEMMA WalkStays ==
  ASSUME RowsInv, RowsInv', EventsGrow, walk # NULL, WalkInv, PagesAscend, MissesAreBounded, WalkWaits
  PROVE  WalkInv' /\ PagesAscend' /\ MissesAreBounded'
  <1>1. PICK filter, period : filter = walk.filter /\ period = walk.period
    OBVIOUS
  <1>2. /\ walk'.filter = filter /\ walk'.period = period /\ walk'.limit = walk.limit
        /\ walk'.pages = walk.pages /\ walk'.first = walk.first /\ walk'.caller = walk.caller
        /\ FilterInv(filter) /\ walk.first \subseteq Matching(filter, period)
    BY <1>1 DEF WalkWaits, WalkInv
  <1>3. Shown' = Shown /\ (LastPageIsShort' <=> LastPageIsShort)
    BY <1>2 DEF Shown, LastPageIsShort
  <1>4. walk'.first \subseteq Matching(filter, period)'
    <2>1. walk.first \subseteq DOMAIN events
      BY <1>2 DEF Matching
    <2> QED
      BY <1>2, <2>1, MatchingStays
  <1>5. \A n \in DOMAIN walk'.pages : \A id \in walk'.pages[n] : ShownInv(id, n)'
    BY <1>2, ShownInFront
  <1>6. WalkInv'
    BY <1>1, <1>2, <1>3, <1>4, <1>5 DEF WalkInv, WalkWaits, FilterInv
  <1>7. PagesAscend'
    BY <1>2 DEF PagesAscend
  <1>8. MissesAreBounded'
    <2>1. Missed' \subseteq Missed
      <3>1. walk.first \subseteq DOMAIN events
        BY <1>2 DEF Matching
      <3> QED
        BY <1>2, <1>3, <3>1 DEF Missed, Active, EventsGrow
    <2>2. walk.hidden \cap Shown \subseteq (walk.hidden \cap Shown)'
      BY <1>3 DEF WalkWaits
    <2>3. IsFiniteSet(DOMAIN events) /\ Missed \subseteq DOMAIN events /\ Shown \subseteq DOMAIN events
      BY <1>1, <1>2, IdsAreNatural DEF Missed, Matching, Shown, WalkInv, ShownInv
    <2>4. /\ IsFiniteSet(Missed) /\ IsFiniteSet(Missed') /\ IsFiniteSet((walk.hidden \cap Shown)')
          /\ IsFiniteSet(walk.hidden \cap Shown)
      BY <1>3, <2>1, <2>3, FS_Subset, FS_Intersection
    <2>5. /\ Cardinality(Missed') <= Cardinality(Missed)
          /\ Cardinality(walk.hidden \cap Shown) <= Cardinality((walk.hidden \cap Shown)')
      BY <2>1, <2>2, <2>4, FS_Subset
    <2>6. /\ Cardinality(Missed) \in Nat /\ Cardinality(Missed') \in Nat
          /\ Cardinality(walk.hidden \cap Shown) \in Nat
          /\ Cardinality((walk.hidden \cap Shown)') \in Nat
      BY <2>4, FS_CardinalityType
    <2>7. LastPageIsShort => Cardinality(Missed) <= Cardinality(walk.hidden \cap Shown)
      BY DEF MissesAreBounded
    <2>8. LastPageIsShort' => Cardinality(Missed') <= Cardinality((walk.hidden \cap Shown)')
      BY <1>3, <2>5, <2>6, <2>7
    <2> QED
      BY <2>8 DEF MissesAreBounded
  <1> QED
    BY <1>6, <1>7, <1>8

-----------------------------------------------------------------------------
(* Reports.                                                                *)

\* What matters of the clock and of the staged row to a report whose period
\* is over: no row is staged with a timestamp that lies in the period, and
\* at most one was staged before.
LEMMA ReportStays ==
  ASSUME RowsInv, EventsGrow, NEW report, ReportInv(report),
         setBack => setBack', setBack' \in BOOLEAN,
         (~setBack') => (clock <= clock'), clock \in Nat, clock' \in Nat,
         \/ /\ DOMAIN events' = DOMAIN events
            /\ \/ pending' = NULL \/ pending' = pending
               \/ pending'.timestamp = clock
         \/ \E id :
              /\ DOMAIN events' = DOMAIN events \cup {id} /\ pending # NULL /\ pending' = NULL
              /\ events'[id].timestamp = pending.timestamp /\ pending.timestamp \in Nat
  PROVE  ReportInv(report)'
  <1> DEFINE filter == report.filter
             period == report.period
  <1>1. FilterInv(filter) /\ FilterInv(filter)'
    BY DEF ReportInv, FilterInv
  <1>2. \A id \in DOMAIN events :
          /\ id \in DOMAIN events' /\ events'[id].event_hash = events[id].event_hash
          /\ (id \in Matching(filter, period)') <=> (id \in Matching(filter, period))
    BY <1>1, MatchingStays
  <1>3. Matching(filter, period) \subseteq DOMAIN events /\ Matching(filter, period)' \subseteq DOMAIN events'
    BY DEF Matching
  <1>4. \A entry \in report.records :
          /\ entry[1] \in Matching(filter, period)'
          /\ entry = <<entry[1], events'[entry[1]].event_hash>>
    BY <1>2, <1>3 DEF ReportInv
  <1>5. /\ Late(report) \subseteq Late(report)'
        /\ \A id \in Late(report)' : id \in Late(report) \/ id \notin DOMAIN events
        /\ Late(report)' \subseteq DOMAIN events' /\ Late(report) \subseteq DOMAIN events
    BY <1>2, <1>3 DEF Late
  <1>6. \A id \in Late(report)', entry \in report.records : entry[1] < id
    <2> SUFFICES ASSUME NEW id \in Late(report)', NEW entry \in report.records PROVE entry[1] < id
      OBVIOUS
    <2>1. CASE id \in Late(report)
      BY <2>1 DEF ReportInv
    <2>2. CASE id \notin DOMAIN events
      <3>1. entry[1] \in DOMAIN events
        BY <1>3 DEF ReportInv
      <3> QED
        BY <1>5, <2>2, <3>1 DEF EventsGrow
    <2> QED
      BY <1>5, <2>1, <2>2
  <1>7. ASSUME ~setBack', period.to # NULL, period.to < report.taken
        PROVE  \/ Late(report)' = {}
               \/ /\ \E id \in DOMAIN events' : Late(report)' = {id}
                  /\ (pending' # NULL) => (period.to < pending'.timestamp)
    <2>1. /\ report.taken <= clock /\ report.taken \in Nat /\ period.to \in Nat
          /\ \/ Late(report) = {}
             \/ /\ \E id \in DOMAIN events : Late(report) = {id}
                /\ (pending # NULL) => (period.to < pending.timestamp)
      BY <1>7 DEF ReportInv
    <2>2. CASE DOMAIN events' = DOMAIN events
      <3>1. Late(report)' = Late(report)
        BY <1>5, <2>2
      <3>2. pending' = NULL \/ pending' = pending \/ pending'.timestamp = clock
        OBVIOUS
      <3>3. (pending'.timestamp = clock) => (period.to < pending'.timestamp)
        BY <1>7, <2>1
      <3>4. CASE Late(report) = {}
        BY <3>1, <3>4
      <3>5. CASE /\ \E id \in DOMAIN events : Late(report) = {id}
                 /\ (pending # NULL) => (period.to < pending.timestamp)
        BY <2>2, <3>1, <3>2, <3>3, <3>5
      <3> QED
        BY <2>1, <3>4, <3>5
    <2>3. CASE \E id :
              /\ DOMAIN events' = DOMAIN events \cup {id} /\ pending # NULL /\ pending' = NULL
              /\ events'[id].timestamp = pending.timestamp /\ pending.timestamp \in Nat
      <3>1. PICK id :
              /\ DOMAIN events' = DOMAIN events \cup {id} /\ pending # NULL /\ pending' = NULL
              /\ events'[id].timestamp = pending.timestamp /\ pending.timestamp \in Nat
        BY <2>3
      <3>2. CASE Late(report) = {}
        BY <1>5, <3>1, <3>2
      <3>3. CASE period.to < pending.timestamp /\ \E j \in DOMAIN events : Late(report) = {j}
        <4>1. ~(events'[id].timestamp <= period.to)
          BY <2>1, <3>1, <3>3
        <4>2. id \notin Matching(filter, period)'
          BY <1>7, <4>1 DEF Matching, Matches
        <4>3. Late(report)' = Late(report)
          BY <1>5, <3>1, <4>2 DEF Late
        <4> QED
          BY <3>1, <3>3, <4>3, <1>5
      <3> QED
        BY <2>1, <3>1, <3>2, <3>3
    <2> QED
      BY <2>2, <2>3
  <1>8. (~setBack') => report.taken <= clock'
    BY DEF ReportInv
  <1> QED
    BY <1>1, <1>4, <1>6, <1>7, <1>8 DEF ReportInv

-----------------------------------------------------------------------------
(* Steps that read nothing.                                                *)

\* Appends, retention and the clock leave walks and reports true.
LEMMA QuietStep ==
  ASSUME QueryIInv, RowsInv', EventsGrow, walk' = NULL \/ (walk # NULL /\ WalkWaits),
         reports' = reports, setBack => setBack', (~setBack') => (clock <= clock'),
         \/ /\ DOMAIN events' = DOMAIN events
            /\ \/ pending' = NULL \/ pending' = pending
               \/ pending'.timestamp = clock
         \/ \E id :
              /\ DOMAIN events' = DOMAIN events \cup {id} /\ pending # NULL /\ pending' = NULL
              /\ events'[id].timestamp = pending.timestamp /\ pending.timestamp \in Nat
  PROVE  QueryIInv'
  <1>1. RowsInv /\ clock \in Nat /\ clock' \in Nat /\ setBack' \in BOOLEAN
    BY QueryAssumption DEF QueryIInv, RowsInv
  <1>2. ((walk # NULL) => WalkInv)' /\ PagesAscend' /\ MissesAreBounded'
    <2>1. CASE walk' = NULL
      BY <2>1 DEF PagesAscend, MissesAreBounded
    <2>2. CASE walk # NULL /\ WalkWaits
      BY <1>1, <2>2, WalkStays DEF QueryIInv
    <2> QED
      BY <2>1, <2>2
  <1>3. (\A n \in DOMAIN reports : ReportInv(reports[n]))'
    <2> SUFFICES ASSUME NEW n \in DOMAIN reports' PROVE ReportInv(reports[n])'
      OBVIOUS
    <2>1. PICK report : report = reports[n] /\ report = reports'[n]
      OBVIOUS
    <2>2. ReportInv(report)
      BY <2>1 DEF QueryIInv
    <2>3. ReportInv(report)'
      BY <1>1, <2>2, ReportStays
    <2> QED
      BY <2>1, <2>3 DEF ReportInv, Late, Matching
  <1>4. LaterReportsExtend' /\ ClosedPeriodsAreFinal'
    BY DEF QueryIInv, LaterReportsExtend, ClosedPeriodsAreFinal
  <1>5. IsSequence(reports')
    BY DEF QueryIInv
  <1> QED
    BY <1>2, <1>3, <1>4, <1>5 DEF QueryIInv

\* A listing waits while no row is archived.
LEMMA WalkWaiting ==
  ASSUME walk' = walk, events' = events \/ \A id \in DOMAIN events : events'[id] = events[id]
  PROVE  WalkWaits
  BY DEF WalkWaits

\* A row under way changes nothing a reader sees.
LEMMA StageRowStep ==
  ASSUME QueryIInv, StageRow
  PROVE  QueryIInv'
  <1>1. PICK row \in Rows :
          pending' = [column \in DOMAIN row \cup {"timestamp", "archived_at"} |->
                        CASE column = "timestamp"   -> clock
                          [] column = "archived_at" -> NULL
                          [] OTHER                  -> row[column]]
    BY DEF StageRow
  <1>2. UNCHANGED <<events, nextId, clock, setBack, walk, reports>> /\ nextId <= MaxId
    BY DEF StageRow, wall
  <1>3. /\ pending' = [column \in DOMAIN pending' |-> pending'[column]]
        /\ DOMAIN pending' = DOMAIN row \cup {"timestamp", "archived_at"}
        /\ pending'.timestamp = clock /\ pending'.archived_at = NULL
    BY <1>1
  <1>4. RowsInv /\ clock \in 0..MaxTime
    BY DEF QueryIInv, RowsInv
  <1>5. RowInv(pending')
    BY <1>3, <1>4 DEF RowInv
  <1>6. RowsInv'
    BY <1>2, <1>4, <1>5 DEF RowsInv
  <1>7. EventsGrow
    BY <1>2 DEF EventsGrow
  <1> QED
    BY <1>2, <1>3, <1>4, <1>6, <1>7, QuietStep, WalkWaiting, QueryAssumption

\* Nor does one that is given up.
LEMMA DropRowStep ==
  ASSUME QueryIInv, DropRow
  PROVE  QueryIInv'
  <1>1. /\ UNCHANGED <<events, clock, setBack, walk, reports>> /\ pending # NULL /\ pending' = NULL
        /\ nextId' \in {nextId, nextId + 1}
    BY DEF DropRow, wall
  <1>2. RowsInv /\ clock \in 0..MaxTime /\ nextId <= MaxId /\ nextId \in 1..(MaxId + 1) /\ MaxId \in Nat
    BY <1>1, QueryAssumption DEF QueryIInv, RowsInv
  <1>3. nextId' \in 1..(MaxId + 1) /\ nextId' >= nextId
    BY <1>1, <1>2
  <1>4. DOMAIN events' \subseteq 1..(nextId' - 1)
    BY <1>1, <1>2, <1>3 DEF RowsInv
  <1>5. RowsInv'
    BY <1>1, <1>2, <1>3, <1>4 DEF RowsInv
  <1>6. EventsGrow
    BY <1>1 DEF EventsGrow
  <1> QED
    BY <1>1, <1>2, <1>5, <1>6, QuietStep, WalkWaiting, QueryAssumption

\* The clock moves.
LEMMA ClockStep ==
  ASSUME QueryIInv, Tick \/ StepClockBack
  PROVE  QueryIInv'
  <1>0. events' = events /\ nextId' = nextId /\ pending' = pending /\ walk' = walk /\ reports' = reports
    BY DEF Tick, StepClockBack
  <1>1. RowsInv /\ setBack \in BOOLEAN /\ clock \in 0..MaxTime /\ MaxTime \in Nat
    BY QueryAssumption DEF QueryIInv, RowsInv
  <1>2. /\ clock' \in 0..MaxTime /\ setBack' \in BOOLEAN /\ (setBack => setBack')
        /\ (~setBack') => (clock <= clock')
    <2>1. CASE Tick
      BY <1>1, <2>1 DEF Tick
    <2>2. CASE StepClockBack
      BY <1>1, <2>2 DEF StepClockBack
    <2> QED
      BY <2>1, <2>2
  <1>3. RowsInv'
    BY <1>0, <1>1, <1>2 DEF RowsInv
  <1>4. EventsGrow
    BY <1>0 DEF EventsGrow
  <1> QED
    BY <1>0, <1>1, <1>2, <1>3, <1>4, QuietStep, WalkWaiting

\* A row appears behind all others, and so behind all pages shown so far.
LEMMA CommitRowStep ==
  ASSUME QueryIInv, CommitRow
  PROVE  QueryIInv'
  <1>1. /\ pending # NULL /\ pending' = NULL /\ nextId' = nextId + 1
        /\ clock' = clock /\ setBack' = setBack /\ walk' = walk /\ reports' = reports
    BY DEF CommitRow, wall
  <1>0. PICK row, id, hash : row = pending /\ id = nextId /\ hash = Sha256(<<nextId, pending>>)
    OBVIOUS
  <1>2. /\ row = pending /\ id = nextId
        /\ events' = [j \in DOMAIN events \cup {id} |->
                          IF j # id THEN events[j]
                          ELSE [column \in DOMAIN row \cup {"event_hash"} |->
                                  IF column = "event_hash" THEN hash ELSE row[column]]]
    BY <1>0 DEF CommitRow
  <1>3. /\ RowsInv /\ RowInv(row) /\ id <= MaxId /\ MaxId \in Nat /\ MaxTime \in Nat
        /\ id \in 1..(MaxId + 1) /\ DOMAIN events \subseteq 1..(id - 1) /\ clock \in 0..MaxTime
    BY <1>1, <1>2, QueryAssumption DEF QueryIInv, RowsInv
  <1>4. /\ DOMAIN events' = DOMAIN events \cup {id}
        /\ \A j \in DOMAIN events : j < id /\ events'[j] = events[j]
    BY <1>2, <1>3
  <1>5. /\ events'[id] = [column \in DOMAIN events'[id] |-> events'[id][column]]
        /\ DOMAIN events'[id] = DOMAIN row \cup {"event_hash"}
        /\ events'[id].timestamp = row.timestamp /\ events'[id].archived_at = row.archived_at
    BY <1>2, <1>3 DEF RowInv
  <1>6. RowInv(events'[id])
    BY <1>3, <1>5 DEF RowInv
  <1>7. RowsInv'
    <2>1. \A j \in DOMAIN events' : RowInv(events'[j]) /\ "event_hash" \in DOMAIN events'[j]
      BY <1>3, <1>4, <1>5, <1>6 DEF RowsInv
    <2>2. nextId' \in 1..(MaxId + 1) /\ DOMAIN events' \subseteq 1..(nextId' - 1)
      BY <1>1, <1>2, <1>3, <1>4
    <2> QED
      BY <1>1, <1>3, <2>1, <2>2 DEF RowsInv
  <1>8. EventsGrow
    BY <1>4 DEF EventsGrow
  <1>9. row.timestamp \in Nat
    BY <1>3 DEF RowInv
  <1>10. walk' = NULL \/ (walk # NULL /\ WalkWaits)
    BY <1>1, <1>4, WalkWaiting
  <1>11. /\ DOMAIN events' = DOMAIN events \cup {id}
         /\ events'[id].timestamp = pending.timestamp /\ pending.timestamp \in Nat
    BY <1>2, <1>4, <1>5, <1>9
  <1>12. (setBack => setBack') /\ ((~setBack') => (clock <= clock'))
    BY <1>1, <1>3
  <1> QED
    BY <1>1, <1>7, <1>8, <1>10, <1>11, <1>12, QuietStep

\* Archiving changes one column of a row.
LEMMA ArchivedRow ==
  ASSUME NEW row, RowInv(row), NEW t \in 0..MaxTime
  PROVE  LET new == [row EXCEPT !.archived_at = t]
         IN  /\ RowInv(new) /\ DOMAIN new = DOMAIN row
             /\ \A column \in DOMAIN row \ {"archived_at"} : new[column] = row[column]
  <1>1. PICK new : new = [row EXCEPT !.archived_at = t]
    OBVIOUS
  <1>2. {"timestamp", "archived_at"} \subseteq DOMAIN row /\ row = [column \in DOMAIN row |-> row[column]]
    BY DEF RowInv
  <1>3. /\ DOMAIN new = DOMAIN row /\ new.archived_at = t
        /\ \A column \in DOMAIN row \ {"archived_at"} : new[column] = row[column]
        /\ new = [column \in DOMAIN new |-> new[column]]
    BY <1>1, <1>2, Zenon
  <1>4. new.timestamp = row.timestamp
    BY <1>2, <1>3
  <1>5. RowInv(new)
    BY <1>2, <1>3, <1>4 DEF RowInv
  <1> QED
    BY <1>1, <1>3, <1>5

\* Retention hides rows: ranks fall, at most one for each row it hid.
LEMMA RetentionStep ==
  ASSUME QueryIInv, ApplyRetention
  PROVE  QueryIInv'
  <1>1. /\ pending' = pending /\ nextId' = nextId /\ clock' = clock /\ setBack' = setBack
        /\ reports' = reports
    BY DEF ApplyRetention, wall
  <1>2. RowsInv /\ clock \in 0..MaxTime /\ MaxTime \in Nat
    BY QueryAssumption DEF QueryIInv, RowsInv
  <1>3. /\ DOMAIN events' = DOMAIN events
        /\ \A id \in DOMAIN events :
             events'[id] = IF id \in Outdated THEN [events[id] EXCEPT !.archived_at = clock]
                                              ELSE events[id]
    BY Zenon DEF ApplyRetention
  <1>4. ASSUME NEW id \in DOMAIN events
        PROVE  /\ RowInv(events'[id]) /\ DOMAIN events'[id] = DOMAIN events[id]
               /\ \A column \in DOMAIN events[id] \ {"archived_at"} : events'[id][column] = events[id][column]
               /\ (events'[id].archived_at = NULL) => (events[id].archived_at = NULL)
               /\ (events[id].archived_at = NULL /\ events'[id].archived_at # NULL) => (id \in Outdated)
    <2>1. RowInv(events[id])
      BY <1>2 DEF RowsInv
    <2>2. CASE id \in Outdated
      <3>1. events'[id] = [events[id] EXCEPT !.archived_at = clock] /\ events[id].archived_at = NULL
        BY <1>3, <2>2 DEF Outdated, Active
      <3> QED
        BY <1>2, <2>1, <2>2, <3>1, ArchivedRow
    <2>3. CASE id \notin Outdated
      BY <1>3, <2>1, <2>3
    <2> QED
      BY <2>2, <2>3
  <1>5. RowsInv'
    BY <1>1, <1>2, <1>3, <1>4 DEF RowsInv
  <1>6. EventsGrow
    BY <1>3, <1>4 DEF EventsGrow
  <1>7. walk' = NULL \/ (walk # NULL /\ WalkWaits)
    <2>1. CASE walk = NULL
      BY <2>1 DEF ApplyRetention
    <2>2. CASE walk # NULL
      <3>1. PICK w : w = [walk EXCEPT !.hidden = @ \cup Outdated]
        OBVIOUS
      <3>2. walk' = w
        BY <2>2, <3>1 DEF ApplyRetention
      <3>3. DOMAIN walk = {"caller", "filter", "period", "limit", "pages", "first", "hidden"}
        BY <2>2 DEF QueryIInv, WalkInv
      <3>4. /\ DOMAIN w = DOMAIN walk /\ w.hidden = walk.hidden \cup Outdated
            /\ w.caller = walk.caller /\ w.filter = walk.filter /\ w.period = walk.period
            /\ w.limit = walk.limit /\ w.pages = walk.pages /\ w.first = walk.first
        BY <3>1, <3>3, Zenon
      <3> QED
        BY <1>4, <2>2, <3>2, <3>4 DEF WalkWaits
    <2> QED
      BY <2>1, <2>2
  <1>8. (~setBack') => (clock <= clock')
    BY <1>1, <1>2
  <1> QED
    BY <1>1, <1>3, <1>5, <1>6, <1>7, <1>8, QuietStep

-----------------------------------------------------------------------------
(* Exports and compliance reports.                                         *)

\* longer is taken with one more report.
Lengthens(longer, taken, report) ==
    /\ IsSequence(longer)
    /\ DOMAIN longer = 1..(Len(taken) + 1) /\ DOMAIN taken = 1..Len(taken) /\ Len(taken) \in Nat
    /\ \A n \in DOMAIN taken : longer[n] = taken[n]
    /\ longer[Len(taken) + 1] = report

\* Taking a report leaves the earlier ones as they are.
LEMMA AppendedReport ==
  ASSUME NEW taken, IsSequence(taken), NEW report
  PROVE  Lengthens(Append(taken, report), taken, report)
  <1> DEFINE longer == Append(taken, report)
  <1> DEFINE S == {taken[n] : n \in DOMAIN taken}
  <1>0. taken \in Seq(S)
    BY DEF IsSequence
  <1> HIDE DEF S
  <1>1. taken \in Seq(S \cup {report})
    BY <1>0
  <1>2. /\ DOMAIN longer = 1..(Len(taken) + 1) /\ DOMAIN taken = 1..Len(taken)
        /\ Len(longer) = Len(taken) + 1 /\ Len(taken) \in Nat
        /\ \A n \in DOMAIN taken : longer[n] = taken[n]
        /\ longer[Len(taken) + 1] = report
    BY <1>1
  <1>3. IsSequence(longer)
    <2>1. longer \in Seq(S \cup {report})
      BY <1>1
    <2>2. PICK k \in Nat : longer \in [1..k -> S \cup {report}]
      BY <2>1, LenProperties
    <2>3. PICK T : T = {longer[i] : i \in DOMAIN longer}
      OBVIOUS
    <2>4. longer \in [1..k -> T]
      BY <2>2, <2>3
    <2>5. longer \in Seq(T)
      BY <2>4, SeqDef
    <2> QED
      BY <2>3, <2>5 DEF IsSequence
  <1> QED
    BY <1>2, <1>3 DEF Lengthens

\* A report on what is there now, against one that was taken before.
LEMMA ReportExtends ==
  ASSUME NEW old, ReportInv(old), NEW new, new.filter = old.filter, new.period = old.period,
         new.records = list_events_including_archived(old.filter, old.period)
  PROVE  /\ old.records \subseteq new.records
         /\ \A entry \in old.records, later \in new.records \ old.records : entry[1] < later[1]
         /\ (~setBack /\ old.period.to # NULL /\ old.period.to < old.taken) =>
              Cardinality(new.records \ old.records) <= 1
  <1>1. new.records = {<<id, events[id].event_hash>> : id \in Matching(old.filter, old.period)}
    BY DEF list_events_including_archived, Matching
  <1>2. old.records \subseteq new.records
    BY <1>1 DEF ReportInv
  <1>3. \A later \in new.records \ old.records :
          later[1] \in Late(old) /\ later = <<later[1], events[later[1]].event_hash>>
    BY <1>1 DEF Late
  <1>4. \A entry \in old.records, later \in new.records \ old.records : entry[1] < later[1]
    BY <1>3 DEF ReportInv
  <1>5. ASSUME ~setBack, old.period.to # NULL, old.period.to < old.taken
        PROVE  Cardinality(new.records \ old.records) <= 1
    <2>1. Late(old) = {} \/ \E id \in DOMAIN events : Late(old) = {id}
      BY <1>5 DEF ReportInv
    <2>2. CASE Late(old) = {}
      <3>1. new.records \ old.records = {}
        BY <1>3, <2>2
      <3> QED
        BY <3>1, FS_EmptySet
    <2>3. CASE \E id \in DOMAIN events : Late(old) = {id}
      <3>1. PICK id \in DOMAIN events : Late(old) = {id}
        BY <2>3
      <3>2. new.records \ old.records \in SUBSET {<<id, events[id].event_hash>>}
        BY <1>3, <3>1
      <3>3. /\ IsFiniteSet({<<id, events[id].event_hash>>})
            /\ Cardinality({<<id, events[id].event_hash>>}) = 1
        BY FS_Singleton
      <3> QED
        BY <3>2, <3>3, FS_Subset
    <2> QED
      BY <2>1, <2>2, <2>3
  <1> QED
    BY <1>2, <1>4, <1>5

\* A report is compared with all that were taken before it.
LEMMA ReportTaken ==
  ASSUME QueryIInv, NEW filter, FilterInv(filter), NEW period, period.to \in Nat \cup {NULL},
         UNCHANGED <<events, nextId, pending, clock, setBack, walk>>,
         reports' = Append(reports, Report(filter, period))
  PROVE  QueryIInv'
  <1>1. PICK new : new = Report(filter, period)
    OBVIOUS
  <1>2. /\ new.filter = filter /\ new.period = period /\ new.taken = clock
        /\ new.records = list_events_including_archived(filter, period)
    BY <1>1 DEF Report
  <1>3. /\ reports' = Append(reports, new) /\ IsSequence(reports)
        /\ \A n \in DOMAIN reports : ReportInv(reports[n])
        /\ RowsInv /\ clock \in Nat /\ setBack \in BOOLEAN
    BY <1>1, QueryAssumption DEF QueryIInv, RowsInv
  <1>4. PICK last \in Nat : last = Len(reports) + 1 /\ Len(reports) \in Nat
    <2>1. Len(reports) \in Nat
      BY <1>3
    <2> QED
      BY <2>1
  <1>5. /\ IsSequence(reports')
        /\ DOMAIN reports' = 1..last /\ DOMAIN reports = 1..(last - 1) /\ last - 1 \in Nat
        /\ \A n \in DOMAIN reports : reports'[n] = reports[n]
        /\ reports'[last] = new
    <2>1. /\ IsSequence(reports')
          /\ DOMAIN reports' = 1..(Len(reports) + 1) /\ DOMAIN reports = 1..Len(reports)
          /\ \A n \in DOMAIN reports : reports'[n] = reports[n]
          /\ reports'[Len(reports) + 1] = new
      <3>1. Lengthens(reports', reports, new)
        BY <1>3, AppendedReport
      <3> QED
        BY <3>1 DEF Lengthens
    <2>2. last - 1 = Len(reports)
      BY <1>4
    <2> QED
      BY <1>4, <2>1, <2>2
  <1>6. ReportInv(new)
    <2>1. Late(new) = {}
      BY <1>2 DEF Late, list_events_including_archived, Matching
    <2>2. \A entry \in new.records :
            /\ entry[1] \in Matching(new.filter, new.period)
            /\ entry = <<entry[1], events[entry[1]].event_hash>>
      BY <1>2 DEF list_events_including_archived, Matching
    <2> QED
      BY <1>2, <1>3, <2>1, <2>2 DEF ReportInv
  <1>7. (\A n \in DOMAIN reports : ReportInv(reports[n]))'
    <2> SUFFICES ASSUME NEW n \in DOMAIN reports' PROVE ReportInv(reports[n])'
      OBVIOUS
    <2>1. PICK report : report = reports'[n]
      OBVIOUS
    <2>2. ReportInv(report)
      <3>1. n \in DOMAIN reports \/ n = last
        BY <1>5
      <3> QED
        BY <1>3, <1>5, <1>6, <2>1, <3>1
    <2>3. ReportInv(report)'
      BY <2>2 DEF ReportInv, Late, Matching, FilterInv
    <2> QED
      BY <2>1, <2>3 DEF ReportInv, Late, Matching
  <1>8. ASSUME NEW m \in DOMAIN reports', NEW n \in DOMAIN reports', m < n,
               reports'[m].filter = reports'[n].filter, reports'[m].period = reports'[n].period
        PROVE  /\ reports'[m].records \subseteq reports'[n].records
               /\ \A entry \in reports'[m].records, later \in reports'[n].records \ reports'[m].records :
                    entry[1] < later[1]
               /\ (~setBack /\ reports'[m].period.to # NULL /\ reports'[m].period.to < reports'[m].taken) =>
                    Cardinality(reports'[n].records \ reports'[m].records) <= 1
    <2>1. m \in DOMAIN reports /\ (n \in DOMAIN reports \/ n = last)
      BY <1>5, <1>8
    <2>2. CASE n \in DOMAIN reports
      <3>1. reports'[m] = reports[m] /\ reports'[n] = reports[n]
        BY <1>5, <2>1, <2>2
      <3>2. LaterReportsExtend /\ ClosedPeriodsAreFinal
        BY DEF QueryIInv
      <3> QED
        BY <1>8, <2>1, <2>2, <3>1, <3>2 DEF LaterReportsExtend, ClosedPeriodsAreFinal
    <2>3. CASE n = last
      <3>1. reports'[m] = reports[m] /\ reports'[n] = new /\ ReportInv(reports[m])
        BY <1>3, <1>5, <2>1, <2>3
      <3>2. new.filter = reports[m].filter /\ new.period = reports[m].period
        BY <1>8, <3>1
      <3>3. new.records = list_events_including_archived(reports[m].filter, reports[m].period)
        BY <1>2, <3>2
      <3> QED
        BY <3>1, <3>2, <3>3, ReportExtends
    <2> QED
      BY <2>1, <2>2, <2>3
  <1>9. LaterReportsExtend' /\ ClosedPeriodsAreFinal'
    <2>1. LaterReportsExtend'
      <3> SUFFICES ASSUME NEW m \in DOMAIN reports', NEW n \in DOMAIN reports', m < n,
                          reports'[m].filter = reports'[n].filter, reports'[m].period = reports'[n].period
                   PROVE  /\ reports'[m].records \subseteq reports'[n].records
                          /\ \A entry \in reports'[m].records,
                                later \in reports'[n].records \ reports'[m].records : entry[1] < later[1]
        BY DEF LaterReportsExtend
      <3> QED
        BY <1>8
    <2>2. ClosedPeriodsAreFinal'
      <3> SUFFICES ASSUME NEW m \in DOMAIN reports', NEW n \in DOMAIN reports', m < n, ~setBack,
                          reports'[m].filter = reports'[n].filter, reports'[m].period = reports'[n].period,
                          reports'[m].period.to # NULL, reports'[m].period.to < reports'[m].taken
                   PROVE  Cardinality(reports'[n].records \ reports'[m].records) <= 1
        BY <1>3 DEF ClosedPeriodsAreFinal
      <3> QED
        BY <1>8
    <2> QED
      BY <2>1, <2>2
  <1>10. RowsInv' /\ ((walk # NULL) => WalkInv)' /\ PagesAscend' /\ MissesAreBounded'
    <2>1. RowsInv'
      BY <1>3 DEF RowsInv
    <2>2. ((walk # NULL) => WalkInv)'
      BY DEF QueryIInv, WalkInv, ShownInv, FilterInv, Matching, Listed, Active, LastPageIsShort, Shown
    <2>3. PagesAscend' /\ MissesAreBounded'
      BY DEF QueryIInv, PagesAscend, MissesAreBounded, Missed, Shown, Active, LastPageIsShort
    <2> QED
      BY <2>1, <2>2, <2>3
  <1> QED
    BY <1>5, <1>7, <1>9, <1>10 DEF QueryIInv

\* Both kinds of report read the same way.
LEMMA ReportStep ==
  ASSUME QueryIInv, Export \/ ReportAccountAccess
  PROVE  QueryIInv'
  <1>1. UNCHANGED <<events, nextId, pending, clock, setBack, walk>>
    BY DEF Export, ReportAccountAccess, wall
  <1>2. CASE Export
    <2>1. PICK filter, period :
            /\ filter \in Filters /\ period = [from |-> NULL, to |-> NULL]
            /\ reports' = Append(reports, Report(filter, period))
      BY <1>2 DEF Export
    <2>2. FilterInv(filter) /\ period.to = NULL
      BY <2>1, ColumnsAssumption DEF FilterInv
    <2> QED
      BY <1>1, <2>1, <2>2, ReportTaken
  <1>3. CASE ReportAccountAccess
    <2>1. PICK asked, period, filter :
            /\ asked \in Filters /\ period \in Periods
            /\ filter = [column \in DOMAIN asked \cup {"resource_type"} |->
                           IF column = "resource_type" THEN ACCOUNT_RESOURCE_TYPE ELSE asked[column]]
            /\ reports' = Append(reports, Report(filter, period))
      BY <1>3 DEF ReportAccountAccess
    <2>2. FilterInv(filter) /\ period.to \in Nat \cup {NULL}
      BY <2>1, ColumnsAssumption, PeriodsAssumption DEF FilterInv
    <2> QED
      BY <1>1, <2>1, <2>2, ReportTaken
  <1> QED
    BY <1>2, <1>3

-----------------------------------------------------------------------------
(* Listings.                                                               *)

\* A step of a listing writes nothing.
LEMMA ListingStep ==
  ASSUME QueryIInv, UNCHANGED <<events, nextId, pending, clock, setBack, reports>>,
         ((walk # NULL) => WalkInv)', PagesAscend', MissesAreBounded'
  PROVE  QueryIInv'
  <1>1. RowsInv'
    BY DEF QueryIInv, RowsInv
  <1>2. (\A n \in DOMAIN reports : ReportInv(reports[n]))'
    BY DEF QueryIInv, ReportInv, Late, Matching, FilterInv
  <1>3. IsSequence(reports)' /\ LaterReportsExtend' /\ ClosedPeriodsAreFinal'
    BY DEF QueryIInv, LaterReportsExtend, ClosedPeriodsAreFinal
  <1> QED
    BY <1>1, <1>2, <1>3 DEF QueryIInv

\* A listing starts with nothing shown.
LEMMA StartWalkStep ==
  ASSUME QueryIInv, StartWalk
  PROVE  QueryIInv'
  <1>1. UNCHANGED <<events, nextId, pending, clock, setBack, reports>>
    BY DEF StartWalk, wall
  <1>2. PICK caller \in Callers, asked \in Filters, period \in Periods, limit \in Limits :
          walk' = [caller |-> caller, filter |-> Scope(caller, asked), period |-> period,
                   limit |-> limit, pages |-> <<>>,
                   first |-> Listed(Scope(caller, asked), period), hidden |-> {}]
    BY DEF StartWalk
  <1>3. PICK filter, first : filter = Scope(caller, asked) /\ first = Listed(filter, period)
    OBVIOUS
  <1>4. /\ DOMAIN walk' = {"caller", "filter", "period", "limit", "pages", "first", "hidden"}
        /\ walk'.caller = caller /\ walk'.filter = filter /\ walk'.period = period
        /\ walk'.limit = limit /\ walk'.pages = <<>> /\ walk'.first = first
    BY <1>2, <1>3
  <1>5. /\ DOMAIN filter = DOMAIN asked \cup (IF RoleOf[caller] = "READER" THEN {"tenant_id"} ELSE {})
        /\ (RoleOf[caller] = "READER") => (filter["tenant_id"] = TenantOf[caller])
    BY <1>3 DEF Scope
  <1>6. FilterInv(filter)
    BY <1>5, ColumnsAssumption DEF FilterInv
  <1>7. first \subseteq Matching(filter, period)'
    BY <1>1, <1>3 DEF Listed, Matching
  <1>8. DOMAIN walk'.pages = {} /\ Len(walk'.pages) = 0 /\ walk'.pages \in Seq(SUBSET Nat)
    BY <1>4
  <1>9. Shown' = {} /\ ~LastPageIsShort'
    BY <1>4, <1>8 DEF Shown, LastPageIsShort
  <1>10. Cardinality(Shown') = walk'.limit * Len(walk'.pages)
    <2>1. limit * 0 = 0
      BY QueryAssumption
    <2> QED
      BY <1>4, <1>8, <1>9, <2>1, FS_EmptySet
  <1>11. WalkInv'
    BY <1>4, <1>5, <1>6, <1>7, <1>8, <1>10 DEF WalkInv, FilterInv
  <1>12. PagesAscend' /\ MissesAreBounded'
    BY <1>8, <1>9 DEF PagesAscend, MissesAreBounded
  <1> QED
    BY <1>1, <1>11, <1>12, ListingStep

\* A listing that ends leaves nothing to keep.
LEMMA EndWalkStep ==
  ASSUME QueryIInv, EndWalk
  PROVE  QueryIInv'
  <1>1. UNCHANGED <<events, nextId, pending, clock, setBack, reports>> /\ walk' = NULL
    BY DEF EndWalk, wall
  <1>2. ((walk # NULL) => WalkInv)' /\ PagesAscend' /\ MissesAreBounded'
    BY <1>1 DEF PagesAscend, MissesAreBounded
  <1> QED
    BY <1>1, <1>2, ListingStep

\* Room for m pages is no more than for the n that follow.
LEMMA RoomGrows ==
  ASSUME NEW limit \in Nat, NEW m \in Nat, NEW n \in Nat, m <= n
  PROVE  limit * m <= limit * n /\ limit * m \in Nat /\ limit * (n + 1) = limit * n + limit
  OBVIOUS

\* One GET /audit/events, after full pages only: the next page lies behind
\* all that was shown, and skips at most as many listed records as retention
\* has taken away among those.
LEMMA ReadPageStep ==
  ASSUME QueryIInv, ReadPage
  PROVE  QueryIInv'
  <1>1. /\ UNCHANGED <<events, nextId, pending, clock, setBack, reports>> /\ walk # NULL
        /\ ~LastPageIsShort /\ WalkInv /\ RowsInv
    BY DEF ReadPage, wall, QueryIInv
  <1>2. PICK filter, period, limit, pages, page, listed, k, offset, hidden :
          /\ filter = walk.filter /\ period = walk.period /\ limit = walk.limit
          /\ pages = walk.pages /\ k = Len(pages) /\ offset = limit * k
          /\ listed = Listed(filter, period) /\ page = Page(listed, limit, offset)
          /\ hidden = walk.hidden
    OBVIOUS
  <1>3. page = NextPage
    BY <1>2 DEF NextPage
  <1>4. /\ DOMAIN walk' = DOMAIN walk /\ walk'.pages = Append(pages, page)
        /\ walk'.caller = walk.caller /\ walk'.filter = filter /\ walk'.period = period
        /\ walk'.limit = limit /\ walk'.first = walk.first /\ walk'.hidden = hidden
    <2>1. DOMAIN walk = {"caller", "filter", "period", "limit", "pages", "first", "hidden"}
      BY <1>1 DEF WalkInv
    <2>2. PICK w : w = [walk EXCEPT !.pages = Append(@, NextPage)]
      OBVIOUS
    <2>3. walk' = w
      BY <2>2 DEF ReadPage
    <2>4. /\ DOMAIN w = DOMAIN walk /\ w.pages = Append(walk.pages, NextPage)
          /\ w.caller = walk.caller /\ w.filter = walk.filter /\ w.period = walk.period
          /\ w.limit = walk.limit /\ w.first = walk.first /\ w.hidden = walk.hidden
      BY <2>1, <2>2, Zenon
    <2> QED
      BY <1>2, <1>3, <2>3, <2>4
  <1>5. /\ limit \in Nat \ {0} /\ pages \in Seq(SUBSET Nat) /\ k \in Nat /\ DOMAIN pages = 1..k
        /\ FilterInv(filter) /\ offset \in Nat
    <2>1. walk.limit \in Limits /\ walk.pages \in Seq(SUBSET Nat) /\ FilterInv(walk.filter)
      BY <1>1 DEF WalkInv
    <2>2. limit \in Nat \ {0} /\ pages \in Seq(SUBSET Nat) /\ FilterInv(filter)
      BY <1>2, <2>1, QueryAssumption
    <2>3. k \in Nat /\ DOMAIN pages = 1..k
      BY <1>2, <2>2
    <2> QED
      BY <1>2, <2>2, <2>3
  <1>6. /\ listed \subseteq Nat /\ IsFiniteSet(listed) /\ listed \subseteq DOMAIN events
        /\ listed = {id \in Matching(filter, period) : Active(id)}
        /\ IsFiniteSet(DOMAIN events) /\ DOMAIN events \subseteq Nat
    <2>1. listed \subseteq DOMAIN events /\ listed = {id \in Matching(filter, period) : Active(id)}
      BY <1>2 DEF Listed, Matching
    <2>2. DOMAIN events \subseteq Nat /\ IsFiniteSet(DOMAIN events)
      BY <1>1, IdsAreNatural
    <2> QED
      BY <2>1, <2>2, FS_Subset
  <1>7. /\ IsFiniteSet(page) /\ Cardinality(page) \in Nat /\ Cardinality(page) <= limit
        /\ \A id \in page : id \in listed /\ offset <= Rank(listed, id) /\ Rank(listed, id) < offset + limit
    <2>1. IsFiniteSet(page) /\ Cardinality(page) <= limit
      BY <1>2, <1>5, <1>6, PageSize
    <2>2. \A id \in page : id \in listed /\ offset <= Rank(listed, id) /\ Rank(listed, id) < offset + limit
      BY <1>2 DEF Page, Rank
    <2> QED
      BY <2>1, <2>2, FS_CardinalityType
  <1>8. \A n \in DOMAIN pages : \A id \in pages[n] :
          /\ id \in Matching(filter, period) /\ id \in Nat
          /\ Active(id) \/ id \in hidden
          /\ Rank(listed, id) < limit * n /\ Rank(listed, id) < offset
    <2> SUFFICES ASSUME NEW n \in DOMAIN pages, NEW id \in pages[n]
                 PROVE  /\ id \in Matching(filter, period) /\ id \in Nat
                        /\ Active(id) \/ id \in hidden
                        /\ Rank(listed, id) < limit * n /\ Rank(listed, id) < offset
      OBVIOUS
    <2>1. /\ id \in Matching(filter, period) /\ (Active(id) \/ id \in hidden)
          /\ Rank(listed, id) < limit * n
      BY <1>1, <1>2 DEF WalkInv, ShownInv, Rank
    <2>2. id \in Nat
      BY <1>6, <2>1 DEF Matching
    <2>3. n \in Nat /\ n <= k
      BY <1>5
    <2>4. limit * n <= offset /\ limit * n \in Nat
      BY <1>2, <1>5, <2>3, RoomGrows
    <2>5. Rank(listed, id) \in Nat
      BY <1>6, RankIsNatural
    <2> QED
      BY <1>5, <2>1, <2>2, <2>4, <2>5
  <1>9. PICK pages2, next : pages2 = walk'.pages /\ next = k + 1
    OBVIOUS
  <1>10. /\ pages2 \in Seq(SUBSET Nat) /\ Len(pages2) = next /\ DOMAIN pages2 = 1..next
         /\ \A n \in DOMAIN pages : pages2[n] = pages[n]
         /\ pages2[next] = page /\ next \in Nat
         /\ \A n \in DOMAIN pages2 : n \in DOMAIN pages \/ n = next
    <2>1. page \in SUBSET Nat
      BY <1>6, <1>7
    <2>2. /\ pages2 \in Seq(SUBSET Nat) /\ Len(pages2) = Len(pages) + 1
          /\ \A n \in 1..Len(pages) : pages2[n] = pages[n]
          /\ pages2[Len(pages) + 1] = page
      BY <1>4, <1>5, <1>9, <2>1, AppendProperties
    <2>3. DOMAIN pages2 = 1..Len(pages2)
      BY <2>2
    <2> QED
      BY <1>2, <1>5, <1>9, <2>2, <2>3
  <1>11. limit * next = offset + limit
    <2>1. limit \in Nat /\ k \in Nat /\ k <= k
      BY <1>5
    <2>2. limit * (k + 1) = limit * k + limit
      BY <2>1, RoomGrows
    <2> QED
      BY <1>2, <1>9, <2>2
  <1>12. \A n \in DOMAIN pages : \A i \in pages[n] : \A j \in page : i < j
    <2> SUFFICES ASSUME NEW n \in DOMAIN pages, NEW i \in pages[n], NEW j \in page, ~(i < j)
                 PROVE  FALSE
      OBVIOUS
    <2>1. i \in Nat /\ j \in Nat /\ Rank(listed, i) < offset /\ offset <= Rank(listed, j)
      BY <1>6, <1>7, <1>8
    <2>2. \A x \in listed : (x < j) => (x \in listed /\ x < i)
      BY <1>6, <2>1
    <2>3. Rank(listed, j) <= Rank(listed, i)
      BY <1>6, <2>2, RankShrinks
    <2>4. Rank(listed, i) \in Nat /\ Rank(listed, j) \in Nat
      BY <1>6, RankIsNatural
    <2> QED
      BY <1>5, <2>1, <2>3, <2>4
  <1>13. PagesAscend'
    <2>1. \A m, n \in DOMAIN pages : (m < n) => \A i \in pages[m], j \in pages[n] : i < j
      BY <1>1, <1>2 DEF QueryIInv, PagesAscend
    <2>2. \A m, n \in DOMAIN pages2 : (m < n) => \A i \in pages2[m], j \in pages2[n] : i < j
      <3> SUFFICES ASSUME NEW m \in DOMAIN pages2, NEW n \in DOMAIN pages2, m < n
                   PROVE  \A i \in pages2[m], j \in pages2[n] : i < j
        OBVIOUS
      <3>1. m \in DOMAIN pages
        BY <1>5, <1>9, <1>10
      <3>2. CASE n \in DOMAIN pages
        BY <1>10, <2>1, <3>1, <3>2
      <3>3. CASE n = next
        BY <1>10, <1>12, <3>1, <3>3
      <3> QED
        BY <1>10, <3>2, <3>3
    <2> QED
      BY <1>9, <2>2 DEF PagesAscend
  <1>14. \A n \in DOMAIN pages : Cardinality(pages[n]) = limit
    <2> SUFFICES ASSUME NEW n \in DOMAIN pages PROVE Cardinality(pages[n]) = limit
      OBVIOUS
    <2>1. /\ Cardinality(pages[n]) <= limit
          /\ (n < k) => (Cardinality(pages[n]) = limit)
      BY <1>1, <1>2 DEF WalkInv
    <2>2. CASE n < k
      BY <2>1, <2>2
    <2>3. CASE n = k
      <3>1. pages # <<>>
        BY <1>5
      <3>2. ~(Cardinality(pages[k]) < limit)
        BY <1>1, <1>2, <3>1 DEF LastPageIsShort
      <3>3. pages[k] \subseteq DOMAIN events
        BY <1>8, <2>3 DEF Matching
      <3>4. Cardinality(pages[k]) \in Nat
        BY <1>6, <3>3, FS_Subset, FS_CardinalityType
      <3> QED
        BY <1>5, <2>1, <2>3, <3>2, <3>4
    <2> QED
      BY <1>5, <2>2, <2>3
  <1>15. PICK shown, shown2 : shown = Shown /\ shown2 = Shown'
    OBVIOUS
  <1>16. /\ shown2 = shown \cup page /\ shown \cap page = {}
         /\ \A id \in shown : \E n \in DOMAIN pages : id \in pages[n]
         /\ shown \subseteq DOMAIN events /\ IsFiniteSet(shown) /\ Cardinality(shown) = offset
    <2>1. shown = UNION {pages[n] : n \in DOMAIN pages}
      BY <1>2, <1>15 DEF Shown
    <2>2. shown2 = UNION {pages2[n] : n \in DOMAIN pages2}
      BY <1>9, <1>15 DEF Shown
    <2>3. shown2 = shown \cup page
      <3>1. DOMAIN pages \subseteq DOMAIN pages2 /\ next \in DOMAIN pages2
        BY <1>5, <1>9, <1>10
      <3> QED
        BY <1>10, <2>1, <2>2, <3>1
    <2>4. shown \subseteq DOMAIN events
      BY <1>8, <2>1 DEF Matching
    <2>5. shown \cap page = {}
      <3>1. ASSUME NEW id \in page, id \in shown PROVE FALSE
        <4>1. PICK n \in DOMAIN pages : id \in pages[n]
          BY <2>1, <3>1
        <4>2. id < id /\ id \in Nat
          BY <1>8, <1>12, <3>1, <4>1
        <4> QED
          BY <4>2
      <3> QED
        BY <3>1
    <2>6. Cardinality(shown) = offset
      BY <1>1, <1>2, <1>15 DEF WalkInv
    <2> QED
      BY <1>6, <2>1, <2>3, <2>4, <2>5, <2>6, FS_Subset
  <1>17. IsFiniteSet(shown2) /\ Cardinality(shown2) = offset + Cardinality(page)
    <2>1. /\ IsFiniteSet(shown \cup page)
          /\ Cardinality(shown \cup page) = Cardinality(shown) + Cardinality(page) - Cardinality(shown \cap page)
      BY <1>7, <1>16, FS_Union
    <2>2. Cardinality(shown \cap page) = 0
      BY <1>16, FS_EmptySet
    <2> QED
      BY <1>5, <1>7, <1>16, <2>1, <2>2
  <1>18. LastPageIsShort' <=> (Cardinality(page) < limit)
    <2>1. pages2 # <<>>
      BY <1>5, <1>9, <1>10
    <2>2. LastPageIsShort' <=> (pages2 # <<>> /\ Cardinality(pages2[Len(pages2)]) < walk'.limit)
      BY <1>9 DEF LastPageIsShort
    <2> QED
      BY <1>4, <1>10, <2>1, <2>2
  <1>19. WalkInv'
    <2>1. /\ DOMAIN walk' = {"caller", "filter", "period", "limit", "pages", "first", "hidden"}
          /\ walk'.caller \in Callers /\ walk'.limit \in Limits
          /\ FilterInv(walk'.filter)
          /\ (RoleOf[walk'.caller] = "READER") =>
               ("tenant_id" \in DOMAIN walk'.filter /\ walk'.filter["tenant_id"] = TenantOf[walk'.caller])
          /\ walk'.first \subseteq Matching(walk'.filter, walk'.period)
      BY <1>1, <1>2, <1>4 DEF WalkInv
    <2>2. Matching(walk.filter, walk.period)' = Matching(filter, period)
      BY <1>1, <1>4 DEF Matching
    <2>3. Listed(walk.filter, walk.period)' = listed /\ \A id : Active(id)' <=> Active(id)
      BY <1>1, <1>2, <1>4 DEF Listed, Active
    <2>4. ASSUME NEW n \in DOMAIN pages2, NEW id \in pages2[n]
          PROVE  /\ id \in Matching(filter, period)
                 /\ Active(id) \/ id \in hidden
                 /\ Rank(listed, id) < limit * n
      <3>1. CASE n \in DOMAIN pages
        BY <1>8, <1>10, <2>4, <3>1
      <3>2. CASE n = next
        <4>1. id \in listed /\ Rank(listed, id) < offset + limit
          BY <1>7, <1>10, <2>4, <3>2
        <4> QED
          BY <1>6, <1>11, <3>2, <4>1
      <3> QED
        BY <1>10, <2>4, <3>1, <3>2
    <2>5. (\A n \in DOMAIN walk.pages : \A id \in walk.pages[n] : ShownInv(id, n))'
      <3> SUFFICES ASSUME NEW n \in DOMAIN walk'.pages, NEW id \in walk'.pages[n]
                   PROVE  ShownInv(id, n)'
        OBVIOUS
      <3>1. /\ id \in Matching(filter, period)
            /\ Active(id) \/ id \in hidden
            /\ Rank(listed, id) < limit * n
        BY <1>9, <2>4
      <3> QED
        BY <1>4, <2>2, <2>3, <3>1 DEF ShownInv, Rank
    <2>6. \A n \in DOMAIN pages2 :
            /\ Cardinality(pages2[n]) <= limit
            /\ (n < next) => (Cardinality(pages2[n]) = limit)
      <3> SUFFICES ASSUME NEW n \in DOMAIN pages2
                   PROVE  /\ Cardinality(pages2[n]) <= limit
                          /\ (n < next) => (Cardinality(pages2[n]) = limit)
        OBVIOUS
      <3>1. CASE n \in DOMAIN pages
        BY <1>5, <1>10, <1>14, <3>1
      <3>2. CASE n = next
        BY <1>7, <1>10, <3>2
      <3> QED
        BY <1>10, <3>1, <3>2
    <2>7. ~LastPageIsShort' => (Cardinality(shown2) = limit * next)
      BY <1>5, <1>7, <1>11, <1>17, <1>18
    <2>8. FilterInv(walk'.filter) <=> FilterInv(walk.filter)'
      BY DEF FilterInv
    <2> QED
      BY <1>4, <1>9, <1>10, <1>15, <2>1, <2>2, <2>5, <2>6, <2>7, <2>8 DEF WalkInv
  <1>20. MissesAreBounded'
    <2> SUFFICES ASSUME LastPageIsShort'
                 PROVE  Cardinality(Missed') <= Cardinality((walk.hidden \cap Shown)')
      BY DEF MissesAreBounded
    <2>1. PICK missed, left : missed = Missed' /\ left = shown \ hidden
      OBVIOUS
    <2>2. \A id \in listed : Rank(listed, id) < offset + limit /\ Rank(listed, id) \in Nat
      <3>1. Cardinality(page) < limit
        BY <1>18
      <3> QED
        BY <1>2, <1>5, <1>6, <3>1, ShortPageIsLast, RankIsNatural
    <2>3. \A id \in missed : id \in listed /\ id \notin shown /\ Rank(listed, id) < offset
      <3> SUFFICES ASSUME NEW id \in missed
                   PROVE  id \in listed /\ id \notin shown /\ Rank(listed, id) < offset
        OBVIOUS
      <3>1. id \in walk.first /\ Active(id) /\ id \notin shown2
        BY <1>1, <1>4, <1>15, <2>1 DEF Missed, Active
      <3>2. id \in listed
        BY <1>1, <1>2, <1>6, <3>1 DEF WalkInv
      <3>3. ~(offset <= Rank(listed, id))
        <4>1. id \notin page
          BY <1>16, <3>1
        <4>2. ~(offset <= Rank(listed, id) /\ Rank(listed, id) < offset + limit)
          BY <1>2, <3>2, <4>1 DEF Page, Rank
        <4> QED
          BY <2>2, <3>2, <4>2
      <3> QED
        BY <1>5, <1>16, <2>2, <3>1, <3>2, <3>3
    <2>4. \A id \in left : id \in listed /\ id \in shown /\ Rank(listed, id) < offset
      BY <1>6, <1>8, <1>16, <2>1
    <2>5. IsFiniteSet(missed \cup left) /\ Cardinality(missed \cup left) <= offset
      <3>1. missed \cup left \in SUBSET listed
        BY <2>3, <2>4
      <3>2. \A id \in missed \cup left : 0 <= Rank(listed, id) /\ Rank(listed, id) < 0 + offset
        BY <1>5, <2>2, <2>3, <2>4
      <3> QED
        BY <1>5, <1>6, <3>1, <3>2, RanksAreDistinct
    <2>6. IsFiniteSet(missed) /\ IsFiniteSet(left) /\ missed \cap left = {}
      BY <1>16, <2>1, <2>3, <2>4, <2>5, FS_Subset
    <2>7. Cardinality(missed \cup left) = Cardinality(missed) + Cardinality(left)
      <3>1. Cardinality(missed \cup left) = Cardinality(missed) + Cardinality(left) - Cardinality(missed \cap left)
        BY <2>6, FS_Union
      <3>2. Cardinality(missed \cap left) = 0
        BY <2>6, FS_EmptySet
      <3>3. Cardinality(missed) \in Nat /\ Cardinality(left) \in Nat
        BY <2>6, FS_CardinalityType
      <3> QED
        BY <3>1, <3>2, <3>3
    <2>8. PICK gone : gone = shown \cap hidden
      OBVIOUS
    <2>9. /\ Cardinality(left) = offset - Cardinality(gone)
          /\ IsFiniteSet(gone)
      BY <1>16, <2>1, <2>8, FS_Difference, FS_Subset
    <2>10. Cardinality(gone) <= Cardinality(hidden \cap shown2)
      <3>1. gone \subseteq hidden \cap shown2
        BY <1>16, <2>8
      <3>2. IsFiniteSet(hidden \cap shown2)
        BY <1>17, FS_Subset
      <3> QED
        BY <3>1, <3>2, FS_Subset
    <2>11. /\ Cardinality(missed) \in Nat /\ Cardinality(left) \in Nat /\ Cardinality(gone) \in Nat
           /\ Cardinality(hidden \cap shown2) \in Nat
      BY <1>17, <2>6, <2>9, FS_CardinalityType, FS_Subset
    <2>12. Cardinality(missed) <= Cardinality(hidden \cap shown2)
      BY <1>5, <2>5, <2>7, <2>9, <2>10, <2>11
    <2> QED
      BY <1>4, <1>15, <2>1, <2>12
  <1> QED
    BY <1>1, <1>13, <1>19, <1>20, ListingStep

-----------------------------------------------------------------------------
(* The inductive invariant.                                                *)

\* No rows, no listing, no reports.
LEMMA QueryInitially ==
  ASSUME Init
  PROVE  QueryIInv
  <1>1. /\ events = <<>> /\ nextId = 1 /\ pending = NULL /\ clock = 0 /\ setBack = FALSE
        /\ walk = NULL /\ reports = <<>>
    BY DEF Init
  <1>2. DOMAIN events = {} /\ DOMAIN reports = {}
    BY <1>1
  <1>3. RowsInv
    <2>1. nextId \in 1..(MaxId + 1) /\ clock \in 0..MaxTime
      BY <1>1, QueryAssumption
    <2> QED
      BY <1>1, <1>2, <2>1 DEF RowsInv
  <1>4. PagesAscend /\ MissesAreBounded
    BY <1>1 DEF PagesAscend, MissesAreBounded
  <1>5. IsSequence(reports)
    BY <1>1 DEF IsSequence
  <1>6. LaterReportsExtend /\ ClosedPeriodsAreFinal
    BY <1>2 DEF LaterReportsExtend, ClosedPeriodsAreFinal
  <1> QED
    BY <1>1, <1>2, <1>3, <1>4, <1>5, <1>6 DEF QueryIInv

\* Each action keeps the invariant.
LEMMA QueryInductive ==
  ASSUME QueryIInv, [Next]_vars
  PROVE  QueryIInv'
  <1>1. CASE StageRow
    BY <1>1, StageRowStep
  <1>2. CASE CommitRow
    BY <1>2, CommitRowStep
  <1>3. CASE DropRow
    BY <1>3, DropRowStep
  <1>4. CASE StartWalk
    BY <1>4, StartWalkStep
  <1>5. CASE ReadPage
    BY <1>5, ReadPageStep
  <1>6. CASE EndWalk
    BY <1>6, EndWalkStep
  <1>7. CASE Export \/ ReportAccountAccess
    BY <1>7, ReportStep
  <1>8. CASE ApplyRetention
    BY <1>8, RetentionStep
  <1>9. CASE Tick \/ StepClockBack
    BY <1>9, ClockStep
  <1>10. CASE UNCHANGED vars
    <2>1. UNCHANGED <<events, nextId, pending, clock, setBack, reports, walk>>
      BY <1>10 DEF vars, wall
    <2>2. RowsInv /\ RowsInv' /\ clock \in Nat
      BY <2>1, QueryAssumption DEF QueryIInv, RowsInv
    <2>3. EventsGrow
      BY <2>1 DEF EventsGrow
    <2> QED
      BY <2>1, <2>2, <2>3, QuietStep, WalkWaiting
  <1> QED
    BY <1>1, <1>2, <1>3, <1>4, <1>5, <1>6, <1>7, <1>8, <1>9, <1>10 DEF Next

\* In every reachable state: shown records stay before their page's room,
\* and records a report does not have are behind all of its own.
THEOREM QueryInvariance == Spec => []QueryIInv
  BY QueryInitially, QueryInductive, PTL DEF Spec

-----------------------------------------------------------------------------
(* The properties.                                                         *)

\* Rows, ids and the clock have their types, and all pages but the last are
\* full.
THEOREM QueryTypeCorrect == Spec => []TypeOK
  <1>1. ASSUME QueryIInv PROVE TypeOK
    <2>1. RowsInv
      BY <1>1 DEF QueryIInv
    <2>2. \A id \in DOMAIN events : /\ events[id].timestamp \in 0..MaxTime
                                    /\ events[id].archived_at \in (0..MaxTime) \cup {NULL}
      BY <2>1 DEF RowsInv, RowInv
    <2>3. ASSUME walk # NULL
          PROVE  /\ walk.caller \in Callers /\ walk.limit \in Limits
                 /\ \A n \in DOMAIN walk.pages :
                      /\ walk.pages[n] \subseteq DOMAIN events
                      /\ Cardinality(walk.pages[n]) <= walk.limit
                      /\ (n < Len(walk.pages)) => (Cardinality(walk.pages[n]) = walk.limit)
      <3>1. WalkInv
        BY <1>1, <2>3 DEF QueryIInv
      <3> QED
        BY <3>1 DEF WalkInv, ShownInv, Matching
    <2> QED
      BY <2>1, <2>2, <2>3 DEF TypeOK, RowsInv
  <1> QED
    BY <1>1, QueryInvariance, PTL

\* Whatever is appended or archived between two requests of a listing, its
\* pages come in chain order and repeat no record.
THEOREM PagesInOrder == Spec => []PagesAscend
  <1>1. QueryIInv => PagesAscend
    BY DEF QueryIInv
  <1> QED
    BY <1>1, QueryInvariance, PTL

\* No filter takes a listing of a READER out of its tenant.  (Auditors and
\* admins list every tenant's records, and exports and reports hold them.)
THEOREM ReadersStayInTheirTenant == Spec => []TenantScope
  <1>1. ASSUME QueryIInv PROVE TenantScope
    <2> SUFFICES ASSUME walk # NULL, RoleOf[walk.caller] = "READER", NEW id \in Shown
                 PROVE  events[id].tenant_id = TenantOf[walk.caller]
      BY DEF TenantScope
    <2>1. WalkInv
      BY <1>1 DEF QueryIInv
    <2>2. id \in Matching(walk.filter, walk.period)
      BY <2>1 DEF WalkInv, ShownInv, Shown
    <2>3. "tenant_id" \in DOMAIN walk.filter /\ walk.filter["tenant_id"] = TenantOf[walk.caller]
      BY <2>1 DEF WalkInv
    <2>4. events[id]["tenant_id"] = walk.filter["tenant_id"]
      BY <2>2, <2>3 DEF Matching, Matches
    <2> QED
      BY <2>3, <2>4
  <1> QED
    BY <1>1, QueryInvariance, PTL

\* A completed listing misses no more records than retention archived among
\* those it had shown.
THEOREM MissesBounded == Spec => []MissesAreBounded
  <1>1. QueryIInv => MissesAreBounded
    BY DEF QueryIInv
  <1> QED
    BY <1>1, QueryInvariance, PTL

\* A later export or report with the same parameters has all entries of the
\* earlier one, and its other entries behind them.
THEOREM LaterReportsAgree == Spec => []LaterReportsExtend
  <1>1. QueryIInv => LaterReportsExtend
    BY DEF QueryIInv
  <1> QED
    BY <1>1, QueryInvariance, PTL

\* A report on a period that is over gains at most one record, the row that
\* was staged when it was taken, unless the clock is set back.
THEOREM ClosedPeriodsFinal == Spec => []ClosedPeriodsAreFinal
  <1>1. QueryIInv => ClosedPeriodsAreFinal
    BY DEF QueryIInv
  <1> QED
    BY <1>1, QueryInvariance, PTL
=============================================================================
