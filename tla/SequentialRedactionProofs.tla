--------------------- MODULE SequentialRedactionProofs ---------------------
(***************************************************************************)
(* Proofs about redactions and what verification says.  With redactions    *)
(* one at a time (OneRedactor), what is redacted stays redacted, and       *)
(* verification blames exactly the records whose redaction is not          *)
(* finished, disputed records excepted.  Without any such assumption, it   *)
(* misses no change that was made behind the service's back to an intact   *)
(* log whose commitments follow the redactions they are about.             *)
(* The violations that the runs show with two redactors are why one is     *)
(* assumed; what events clients post and which records a redaction may aim *)
(* at, appends, retention, crashes and the clock stay free.                *)
(***************************************************************************)
EXTENDS RedactionProofs, WellFoundedInduction

-----------------------------------------------------------------------------
(* What holds besides when redactions come one at a time.                  *)

IsCompanion(row) == row.event_type = Verification!REDACTION_EVENT_TYPE

\* At most one worker serves redactions.
OneRedactor == \A v, w \in Redactors : v = w

\* Nothing but retention happened to a row since its redactor read it.
SeenIsCurrent(w) ==
    (pc[w] = "rewrite") =>
      \A column \in Columns \ {"archived_at"} : red[w].seen[column] = events[red[w].target][column]

\* Companions, and nothing else, are appended for nobody.
AskerInv(w) ==
    (pc[w] \in UnderLock \cup {"lock"}) => (Serving(w) <=> (req[w].username = NULL))

\* The companion being appended is going to commit to the row as it is.
TargetInv(w) ==
    HalfDone(w) =>
      /\ events[red[w].target].payload = RedactedPayload(red[w].seen, red[w].fields)
      /\ Marked(events[red[w].target])

\* What a companion was created to commit to.
CommittedHash(c) == Original(c).payload["redactedContentHash"]

\* The service's own companions say what they are about: a record there is.
CompanionInv(c) ==
    (IsCompanion(events[c]) /\ origin[c].username = NULL) =>
      /\ {"targetEventId", "redactedContentHash"} \subseteq DOMAIN Original(c).payload
      /\ Original(c).payload["targetEventId"] \in DOMAIN events

\* What was committed to had no marker yet in a field that is not redacted
\* now, so the next redaction of such a field makes it outdated.
CommitmentsPrecede(id) ==
    \A c \in DOMAIN events : IsAbout(c, id) =>
      \A f \in DOMAIN events[id].payload \ events[id].redacted_fields :
        Hashed(CommittedHash(c)).payload[f] # Marker

Uncommitted(id) ==
    /\ Marked(events[id])
    /\ \A c \in DOMAIN events : IsAbout(c, id) =>
         CommittedHash(c) # Verification!ContentHash(events[id])

Committed(id) ==
    Marked(events[id]) =>
      \E c \in DOMAIN events :
        /\ IsAbout(c, id) /\ CommittedHash(c) = Verification!ContentHash(events[id])
        /\ \A d \in DOMAIN events : IsAbout(d, id) => d <= c

\* What the companions commit to, where nothing else than them counts.
CommitmentsInv ==
    /\ \A w \in Workers : TargetInv(w)
    /\ \A c \in DOMAIN events : CompanionInv(c)
    /\ \A id \in DOMAIN events \ Disputed :
         /\ CommitmentsPrecede(id)
         /\ IF id \in HalfDoneTargets THEN Uncommitted(id) ELSE Committed(id)

\* Inductive together with RedIInv, given OneRedactor.
SequentialInv == (\A w \in Workers : SeenIsCurrent(w) /\ AskerInv(w)) /\ CommitmentsInv

-----------------------------------------------------------------------------
(* Who steps.                                                              *)

\* A step of session w.
StepBy(w) == BeginAppend(w) \/ BeginRedaction(w) \/ RequestStep(w) \/ AbortRequest(w)

\* It leaves the other sessions where they are.
LEMMA OthersStay ==
  ASSUME RedIInv, NEW w \in Workers, StepBy(w), NEW v \in Workers, v # w
  PROVE  pc'[v] = pc[v] /\ red'[v] = red[v]
  <1> USE DEF Goto
  <1>0. pc \in [Workers -> RedPcValues] /\ red = [u \in Workers |-> red[u]]
    BY DEF RedIInv
  <1>1. CASE BeginAppend(w) \/ BeginRedaction(w)
    BY <1>0, <1>1 DEF BeginAppend, Begin, BeginRedaction
  <1>2. CASE RedactionRefused(w) \/ CompanionRejected(w) \/ RespondToRedaction(w)
    BY <1>0, <1>2 DEF RedactionRefused, CompanionRejected, RespondToRedaction
  <1>3. CASE ReadTarget(w)
    <2>1. PICK n : red' = [red EXCEPT ![w] = n] /\ pc' = [pc EXCEPT ![w] = "rewrite"]
      BY <1>3, Zenon DEF ReadTarget
    <2> QED
      BY <1>0, <2>1
  <1>4. CASE RewriteTarget(w) \/ BuildCompanion(w)
    BY <1>0, <1>4 DEF RewriteTarget, BuildCompanion
  <1>5. CASE AppendStep(w)
    BY <1>0, <1>5 DEF AppendStep, LockForAppend, KeyUnused, Replay, Conflict,
      ComputeEvent, InsertEvent, RecordIdempotencyKey
  <1>6. CASE CommitAppend(w) \/ RespondToAppend(w)
    BY <1>0, <1>6 DEF CommitAppend, Commit, RespondToAppend, Respond
  <1>7. CASE CloseRequest(w) \/ AbortRequest(w)
    <2>1. pc' = [pc EXCEPT ![w] = "idle"] /\ red' = [red EXCEPT ![w] = NoRedaction]
      BY <1>7 DEF CloseRequest, CloseSession, AbortRequest, Abort, Rollback
    <2> QED
      BY <1>0, <2>1
  <1> QED
    BY <1>1, <1>2, <1>3, <1>4, <1>5, <1>6, <1>7 DEF StepBy, RequestStep

\* Retention, the clock and the environment leave all of them.
LEMMA AllStay ==
  ASSUME ApplyRetention \/ PassTime \/ UNCHANGED redVars
  PROVE  UNCHANGED <<pc, red, interrupted>>
  BY DEF ApplyRetention, PassTime, Tick, StepClockBack, redVars, vars

\* A session comes to rewrite its target only by reading it.
LEMMA ReadBeforeRewrite ==
  ASSUME RedIInv, [RedNext]_redVars, NEW w \in Workers, pc'[w] = "rewrite"
  PROVE  ReadTarget(w) \/ (pc[w] = "rewrite" /\ red'[w] = red[w])
  <1> USE DEF Goto
  <1>0. pc \in [Workers -> RedPcValues]
    BY DEF RedIInv
  <1>1. ASSUME NEW v \in Workers, StepBy(v), v # w PROVE pc[w] = "rewrite" /\ red'[w] = red[w]
    BY <1>1, OthersStay
  <1>2. CASE StepBy(w)
    <2>1. ~ (BeginAppend(w) \/ BeginRedaction(w))
      BY <1>0 DEF BeginAppend, Begin, BeginRedaction
    <2>2. ~ (RedactionRefused(w) \/ CompanionRejected(w) \/ RespondToRedaction(w))
      BY <1>0 DEF RedactionRefused, CompanionRejected, RespondToRedaction
    <2>3. ~ (RewriteTarget(w) \/ BuildCompanion(w))
      BY <1>0 DEF RewriteTarget, BuildCompanion
    <2>4. ~ AppendStep(w)
      BY <1>0 DEF AppendStep, LockForAppend, KeyUnused, Replay, Conflict,
        ComputeEvent, InsertEvent, RecordIdempotencyKey
    <2>5. ~ (CommitAppend(w) \/ RespondToAppend(w))
      BY <1>0 DEF CommitAppend, Commit, RespondToAppend, Respond
    <2>6. ~ (CloseRequest(w) \/ AbortRequest(w))
      BY <1>0 DEF CloseRequest, CloseSession, AbortRequest, Abort, Rollback
    <2> QED
      BY <1>2, <2>1, <2>2, <2>3, <2>4, <2>5, <2>6 DEF StepBy, RequestStep
  <1>3. CASE ApplyRetention \/ PassTime \/ UNCHANGED redVars
    BY <1>3, AllStay
  <1> QED
    BY <1>1, <1>2, <1>3 DEF RedNext, StepBy

-----------------------------------------------------------------------------
(* One redactor.                                                           *)

\* There is one redaction at a time.
LEMMA OneServing ==
  ASSUME OneRedactor, RedIInv, NEW v \in Workers, NEW w \in Workers, Serving(v), Serving(w)
  PROVE  v = w
  BY DEF OneRedactor, RedIInv, SessionInv, ServingInv

\* What the sole redactor read is still so when it rewrites the row: nobody
\* but retention touches the row in between.
LEMMA SeenStaysCurrent ==
  ASSUME OneRedactor, RedIInv, [RedNext]_redVars, NEW w \in Workers, SeenIsCurrent(w)
  PROVE  SeenIsCurrent(w)'
  <1> SUFFICES ASSUME pc'[w] = "rewrite"
               PROVE  \A column \in Columns \ {"archived_at"} :
                        red'[w].seen[column] = events'[red'[w].target][column]
    BY DEF SeenIsCurrent
  <1>1. CASE ReadTarget(w)
    <2>1. PICK n : /\ n = [red[w] EXCEPT !.fields = FieldsToRedact(events[red[w].target], red[w].fields),
                                         !.seen = events[red[w].target]]
                   /\ red' = [red EXCEPT ![w] = n]
                   /\ UNCHANGED events
      BY <1>1, Zenon DEF ReadTarget, table
    <2>2. DOMAIN red[w] = DOMAIN NoRedaction /\ red = [v \in Workers |-> red[v]]
      BY DEF RedIInv, SessionInv, ServingInv
    <2>3. n.target = red[w].target /\ n.seen = events[red[w].target]
      BY <2>1, <2>2, NotedFields
    <2> QED
      BY <2>1, <2>2, <2>3
  <1>2. CASE pc[w] = "rewrite" /\ red'[w] = red[w]
    <2>1. Serving(w) /\ red[w].target \in DOMAIN events
      BY <1>2 DEF RedIInv, SessionInv, ServingInv, PastRead, SeenInv
    <2>2. \A column \in Columns \ {"archived_at"} : red[w].seen[column] = events[red[w].target][column]
      BY <1>2 DEF SeenIsCurrent
    <2>3. ASSUME NEW v \in Workers, RewriteTarget(v) PROVE FALSE
      <3>1. Serving(v)
        BY <2>3 DEF RewriteTarget, RedIInv, SessionInv, ServingInv
      <3>2. v = w
        BY <2>1, <3>1, OneServing
      <3> QED
        BY <2>3, <3>2 DEF RewriteTarget, Goto, RedIInv
    <2>4. \A column \in Columns \ {"archived_at"} :
            events'[red[w].target][column] = events[red[w].target][column]
      BY <2>1, <2>3, RowsChangedBy, CommittedRows, ArchivedRows
    <2> QED
      BY <1>2, <2>2, <2>4
  <1> QED
    BY <1>1, <1>2, ReadBeforeRewrite

\* With one redactor, the row a redaction rewrites is the row it read.
LEMMA SeenInvariance ==
  ASSUME OneRedactor
  PROVE  RedSpec => [](\A w \in Workers : SeenIsCurrent(w))
  <1> DEFINE Current == \A w \in Workers : SeenIsCurrent(w)
  <1>1. RedInit => Current
    BY DEF RedInit, Init, SeenIsCurrent
  <1>2. RedIInv /\ Current /\ [RedNext]_redVars => Current'
    BY SeenStaysCurrent
  <1> HIDE DEF Current
  <1>3. RedSpec => []Current
    BY <1>1, <1>2, RedInvariance, PTL DEF RedSpec
  <1> QED
    BY <1>3 DEF Current

\* With one redactor, what has been redacted stays redacted.
THEOREM RedactionIsPermanent ==
  ASSUME OneRedactor
  PROVE  RedSpec => RedactedStaysRedacted
  <1> DEFINE Current == \A w \in Workers : SeenIsCurrent(w)
             Kept == \A id \in DOMAIN events :
                       /\ events[id].redacted_fields \subseteq events'[id].redacted_fields
                       /\ \A f \in events[id].redacted_fields : events'[id].payload[f] = Marker
  <1>1. ASSUME RedIInv, Current, [RedNext]_redVars, NEW id \in DOMAIN events
        PROVE  events[id].redacted_fields \subseteq events'[id].redacted_fields
    <2>1. CASE id \in DOMAIN events' /\ events'[id] = events[id]
      BY <2>1
    <2>2. CASE ApplyRetention
      BY <1>1, <2>2, ArchivedRows DEF Columns
    <2>3. ASSUME NEW w \in Workers, RewriteTarget(w), id = red[w].target
          PROVE  events[id].redacted_fields \subseteq events'[id].redacted_fields
      <3>1. PICK n : n = events'[id]
        OBVIOUS
      <3>2. n = RedactedRow(events[id], red[w].seen, red[w].fields, red[w].now)
        BY <1>1, <2>3, <3>1, RewrittenRows
      <3>3. DOMAIN events[id] = Columns
        BY <1>1 DEF RedIInv, RecordsInv, RowInv
      <3>4. n.redacted_fields = red[w].seen.redacted_fields \cup red[w].fields
        BY <3>2, <3>3, RedactedColumns
      <3>5. red[w].seen.redacted_fields = events[id].redacted_fields
        BY <1>1, <2>3 DEF SeenIsCurrent, RewriteTarget, Columns
      <3> QED
        BY <3>1, <3>4, <3>5
    <2> QED
      BY <1>1, <2>1, <2>2, <2>3, RowsChangedBy, CommittedRows, RewrittenRows
  <1>2. ASSUME RedIInv, Current, [RedNext]_redVars PROVE Kept
    <2>1. RedIInv'
      BY <1>2, RedInductive
    <2>2. ASSUME NEW id \in DOMAIN events, NEW f \in events[id].redacted_fields
          PROVE  events'[id].payload[f] = Marker
      <3>1. id \in DOMAIN events'
        BY <1>2, ContentsKept
      <3>2. AccountsForFields(events'[id])
        BY <2>1, <3>1 DEF RedIInv, RecordsInv, RowInv
      <3>3. f \in events'[id].redacted_fields
        BY <1>1, <1>2
      <3> QED
        BY <3>2, <3>3 DEF AccountsForFields
    <2> QED
      BY <1>1, <1>2, <2>2
  <1>3. RedIInv /\ Current /\ [RedNext]_redVars => [Kept]_redVars
    BY <1>2
  <1>4. RedSpec => []Current
    BY SeenInvariance
  <1> HIDE DEF Current
  <1> QED
    BY <1>3, <1>4, RedInvariance, PTL DEF RedSpec, RedactedStaysRedacted

-----------------------------------------------------------------------------
(* Who asks.                                                               *)

\* A session comes to append for somebody when his request arrives, and for
\* nobody when it builds a companion.
LEMMA AskerStays ==
  ASSUME RedIInv, \A v \in Workers : AskerInv(v), [RedNext]_redVars, NEW w \in Workers
  PROVE  AskerInv(w)'
  <1> USE DEF Goto, session
  <1>0. /\ pc \in [Workers -> RedPcValues] /\ req = [u \in Workers |-> req[u]]
        /\ red = [u \in Workers |-> red[u]] /\ ServingInv(w) /\ AskerInv(w)
    BY DEF RedIInv, SessionInv
  <1>1. CASE pc'[w] = pc[w] /\ req'[w] = req[w] /\ red'[w] = red[w]
    BY <1>0, <1>1 DEF AskerInv, Serving
  <1>2. ASSUME NEW v \in Workers, StepBy(v), v # w
        PROVE  pc'[w] = pc[w] /\ req'[w] = req[w] /\ red'[w] = red[w]
    <2>1. pc'[w] = pc[w] /\ red'[w] = red[w]
      BY <1>2, OthersStay
    <2>2. req'[w] = req[w]
      <3>1. CASE BeginAppend(v) \/ BuildCompanion(v)
        BY <1>0, <1>2, <3>1 DEF BeginAppend, Begin, BuildCompanion
      <3>2. CASE BeginRedaction(v) \/ RedactionRefused(v) \/ ReadTarget(v) \/ RewriteTarget(v)
                 \/ CompanionRejected(v) \/ RespondToRedaction(v) \/ RespondToAppend(v) \/ CommitAppend(v)
        BY <3>2 DEF BeginRedaction, RedactionRefused, ReadTarget, RewriteTarget,
          CompanionRejected, RespondToRedaction, RespondToAppend, Respond, CommitAppend, Commit
      <3>3. CASE AppendStep(v)
        BY <3>3 DEF AppendStep, LockForAppend, KeyUnused, Replay, Conflict,
          ComputeEvent, InsertEvent, RecordIdempotencyKey
      <3>4. CASE CloseRequest(v) \/ AbortRequest(v)
        BY <1>0, <1>2, <3>4 DEF CloseRequest, CloseSession, AbortRequest, Abort, Rollback
      <3> QED
        BY <1>2, <3>1, <3>2, <3>3, <3>4 DEF StepBy, RequestStep
    <2> QED
      BY <2>1, <2>2
  <1>3. ASSUME StepBy(w) PROVE AskerInv(w)'
    <2>1. CASE BeginAppend(w)
      <3>1. /\ pc[w] = "idle" /\ req'[w].username \in Users /\ UNCHANGED red
        BY <1>0, <2>1 DEF BeginAppend, Begin
      <3>2. ~Serving(w)' /\ req'[w].username # NULL
        BY <1>0, <3>1, NullAssumption DEF ServingInv, Serving
      <3> QED
        BY <3>2 DEF AskerInv
    <2>2. CASE BuildCompanion(w)
      <3>1. /\ pc[w] = "companion" /\ req'[w].username = NULL /\ UNCHANGED red
        BY <1>0, <2>2 DEF BuildCompanion
      <3>2. Serving(w)'
        BY <1>0, <3>1 DEF ServingInv, Serving
      <3> QED
        BY <3>1, <3>2 DEF AskerInv
    <2>3. CASE AppendStep(w)
      <3>1. UNCHANGED <<req, red>> /\ pc[w] \in UnderLock \cup {"lock"}
        BY <1>0, <2>3 DEF AppendStep, LockForAppend, KeyUnused, Replay, Conflict,
          ComputeEvent, InsertEvent, RecordIdempotencyKey, UnderLock
      <3> QED
        BY <1>0, <3>1 DEF AskerInv, Serving
    <2>4. CASE BeginRedaction(w) \/ RedactionRefused(w) \/ ReadTarget(w) \/ RewriteTarget(w)
               \/ CompanionRejected(w) \/ RespondToRedaction(w) \/ RespondToAppend(w) \/ CommitAppend(w)
      <3>1. pc'[w] \in {"read", "close", "rewrite", "companion", "respond"}
        BY <1>0, <2>4 DEF BeginRedaction, RedactionRefused, ReadTarget, RewriteTarget,
          CompanionRejected, RespondToRedaction, RespondToAppend, Respond, CommitAppend, Commit
      <3> QED
        BY <3>1 DEF AskerInv, UnderLock
    <2>5. CASE CloseRequest(w) \/ AbortRequest(w)
      <3>1. pc'[w] = "idle"
        BY <1>0, <2>5 DEF CloseRequest, CloseSession, AbortRequest, Abort, Rollback
      <3> QED
        BY <3>1 DEF AskerInv, UnderLock
    <2> QED
      BY <1>3, <2>1, <2>2, <2>3, <2>4, <2>5 DEF StepBy, RequestStep
  <1>4. CASE ApplyRetention \/ PassTime \/ UNCHANGED redVars
    <2>1. UNCHANGED <<pc, req, red>>
      BY <1>4 DEF ApplyRetention, PassTime, Tick, StepClockBack, redVars, vars
    <2> QED
      BY <1>1, <2>1
  <1> QED
    BY <1>1, <1>2, <1>3, <1>4 DEF RedNext, StepBy

\* Whoever asks for an event is known, and nobody asks for a companion.
LEMMA AskerInvariance == RedSpec => [](\A w \in Workers : AskerInv(w))
  <1> DEFINE Asked == \A w \in Workers : AskerInv(w)
  <1>1. RedInit => Asked
    BY DEF RedInit, Init, AskerInv, UnderLock
  <1>2. RedIInv /\ Asked /\ [RedNext]_redVars => Asked'
    BY AskerStays
  <1> HIDE DEF Asked
  <1>3. RedSpec => []Asked
    BY <1>1, <1>2, RedInvariance, PTL DEF RedSpec
  <1> QED
    BY <1>3 DEF Asked

-----------------------------------------------------------------------------
(* Commitments.                                                            *)

\* What no step takes from a committed record.
LEMMA RecordsKept ==
  ASSUME RedIInv, [RedNext]_redVars, NEW c \in DOMAIN events
  PROVE  /\ c \in DOMAIN events' /\ Original(c)' = Original(c)
         /\ origin'[c] = origin[c]
         /\ events'[c].event_type = events[c].event_type
         /\ Marked(events[c]) => Marked(events'[c])
  <1>1. c \in DOMAIN events' /\ Original(c)' = Original(c)
    BY ContentsKept
  <1>2. origin'[c] = origin[c]
    <2>1. ASSUME NEW w \in Workers, CommitAppend(w) PROVE origin'[c] = origin[c]
      <3>1. Published(w, result[w]) /\ c # result[w] /\ c \in DOMAIN origin
        BY <2>1, CommittedRows DEF CommitAppend, Commit, RedIInv, RecordsInv, RedKeyInv
      <3> QED
        BY <3>1 DEF Published
    <2>2. ASSUME NEW w \in Workers, RespondToAppend(w) PROVE origin'[c] = origin[c]
      BY <2>2 DEF RespondToAppend, Respond
    <2> QED
      BY <2>1, <2>2, LogChangedBy
  <1>3. events'[c].event_type = events[c].event_type /\ (Marked(events[c]) => Marked(events'[c]))
    <2>1. CASE events'[c] = events[c]
      BY <2>1
    <2>2. CASE ApplyRetention
      BY <2>2, ArchivedRows DEF Columns, FrozenColumns, Marked
    <2>3. ASSUME NEW w \in Workers, RewriteTarget(w), c = red[w].target
          PROVE  events'[c].event_type = events[c].event_type /\ Marked(events'[c])
      <3>1. PICK n : n = events'[c]
        OBVIOUS
      <3>2. n = RedactedRow(events[c], red[w].seen, red[w].fields, red[w].now)
        BY <2>3, <3>1, RewrittenRows
      <3>3. DOMAIN events[c] = Columns
        BY DEF RedIInv, RecordsInv, RowInv
      <3>4. n.event_type = events[c].event_type /\ n.redacted_at = red[w].now
        BY <3>2, <3>3, RedactedColumns DEF FrozenColumns
      <3>5. red[w].now \in 0..MaxTime
        BY <2>3 DEF RewriteTarget, RedIInv, SessionInv, ServingInv
      <3> QED
        BY <3>1, <3>4, <3>5, NullTimeAssumption, BoundsAssumption DEF Marked
    <2> QED
      BY <2>1, <2>2, <2>3, RowsChangedBy, CommittedRows, RewrittenRows
  <1> QED
    BY <1>1, <1>2, <1>3

\* Nor from what it says, and nothing that is disputed is settled.
LEMMA CompanionsKept ==
  ASSUME RedIInv, [RedNext]_redVars
  PROVE  /\ \A c \in DOMAIN events : \A id : IsAbout(c, id)' <=> IsAbout(c, id)
         /\ \A c \in DOMAIN events : CommittedHash(c)' = CommittedHash(c)
         /\ \A c \in DOMAIN events : CompanionInv(c) => CompanionInv(c)'
         /\ Disputed \subseteq Disputed'
  <1>1. ASSUME NEW c \in DOMAIN events, NEW id PROVE IsAbout(c, id)' <=> IsAbout(c, id)
    BY RecordsKept DEF IsAbout
  <1>2. ASSUME NEW c \in DOMAIN events PROVE CommittedHash(c)' = CommittedHash(c)
    BY RecordsKept DEF CommittedHash
  <1>3. ASSUME NEW c \in DOMAIN events, CompanionInv(c) PROVE CompanionInv(c)'
    <2>1. /\ Original(c)' = Original(c) /\ origin'[c] = origin[c]
          /\ IsCompanion(events'[c]) <=> IsCompanion(events[c])
      BY RecordsKept DEF IsCompanion
    <2>2. DOMAIN events \subseteq DOMAIN events'
      BY RecordsKept
    <2> QED
      BY <1>3, <2>1, <2>2 DEF CompanionInv, IsCompanion
  <1>4. ASSUME NEW id \in Disputed PROVE id \in Disputed'
    <2>1. id \in DOMAIN events
      BY DEF Disputed
    <2>2. id \in DOMAIN events' /\ Original(id)' = Original(id)
      BY <2>1, RecordsKept
    <2>3. CASE \E f \in DOMAIN Original(id).payload : Original(id).payload[f] = Marker
      BY <2>2, <2>3 DEF Disputed
    <2>4. ASSUME NEW c \in DOMAIN events, IsAbout(c, id), origin[c].username # NULL \/ Marked(events[c])
          PROVE  id \in Disputed'
      <3>1. IsAbout(c, id)'
        BY <1>1, <2>4
      <3>2. c \in DOMAIN events' /\ (origin'[c].username # NULL \/ Marked(events'[c]))
        BY <2>4, RecordsKept
      <3> QED
        BY <2>2, <3>1, <3>2 DEF Disputed, Marked
    <2> QED
      BY <2>3, <2>4 DEF Disputed
  <1> QED
    BY <1>1, <1>2, <1>3, <1>4

\* A record stays the same but for its archiving.
SameButArchived(id) ==
    \A column \in Columns \ {"archived_at"} : events'[id][column] = events[id][column]

\* The columns of a row that verification and the companions look at.
LEMMA SameColumns ==
  ASSUME NEW id, SameButArchived(id)
  PROVE  /\ events'[id].payload = events[id].payload
         /\ events'[id].redacted_at = events[id].redacted_at
         /\ events'[id].redacted_fields = events[id].redacted_fields
         /\ Verification!ContentHash(events[id])' = Verification!ContentHash(events[id])
  <1>1. /\ events'[id].tenant_id = events[id].tenant_id
        /\ events'[id].event_type = events[id].event_type
        /\ events'[id].subject = events[id].subject
        /\ events'[id].payload = events[id].payload
        /\ events'[id].timestamp = events[id].timestamp
        /\ events'[id].previous_hash = events[id].previous_hash
        /\ events'[id].redacted_at = events[id].redacted_at
        /\ events'[id].redacted_fields = events[id].redacted_fields
    BY DEF SameButArchived, Columns, FrozenColumns
  <1> QED
    BY <1>1 DEF Verification!ContentHash, Verification!compute_event_hash

\* What is committed to for a record depends on nothing else, while no new
\* event is about it.
LEMMA CommitmentsKept ==
  ASSUME RedIInv, [RedNext]_redVars, NEW id \in DOMAIN events, SameButArchived(id),
         \A c \in DOMAIN events' \ DOMAIN events : ~IsAbout(c, id)'
  PROVE  /\ CommitmentsPrecede(id) => CommitmentsPrecede(id)'
         /\ Uncommitted(id) => Uncommitted(id)'
         /\ Committed(id) => Committed(id)'
  <1>1. \A c \in DOMAIN events' : IsAbout(c, id)' => c \in DOMAIN events /\ IsAbout(c, id)
    BY CompanionsKept
  <1>2. \A c \in DOMAIN events : c \in DOMAIN events' /\ (IsAbout(c, id) => IsAbout(c, id)')
    BY CompanionsKept, RecordsKept
  <1>3. \A c \in DOMAIN events : CommittedHash(c)' = CommittedHash(c)
    BY CompanionsKept
  <1>4. /\ events'[id].payload = events[id].payload
        /\ events'[id].redacted_fields = events[id].redacted_fields
        /\ Marked(events'[id]) <=> Marked(events[id])
        /\ Verification!ContentHash(events[id])' = Verification!ContentHash(events[id])
    BY SameColumns DEF Marked
  <1>5. CommitmentsPrecede(id) => CommitmentsPrecede(id)'
    BY <1>1, <1>3, <1>4 DEF CommitmentsPrecede
  <1>6. Uncommitted(id) => Uncommitted(id)'
    BY <1>1, <1>3, <1>4 DEF Uncommitted, Marked
  <1>7. Committed(id) => Committed(id)'
    BY <1>1, <1>2, <1>3, <1>4 DEF Committed, Marked
  <1> QED
    BY <1>5, <1>6, <1>7

\* What one redaction relies on, while its target stays as it is.
LEMMA TargetKept ==
  ASSUME NEW w \in Workers, TargetInv(w), red'[w] = red[w], HalfDone(w)' => HalfDone(w),
         HalfDone(w)' => SameButArchived(red[w].target)
  PROVE  TargetInv(w)'
  <1> SUFFICES ASSUME HalfDone(w)'
               PROVE  /\ events'[red'[w].target].payload = RedactedPayload(red'[w].seen, red'[w].fields)
                      /\ Marked(events'[red'[w].target])
    BY DEF TargetInv, RedactedPayload, Marked
  <1> QED
    BY SameColumns DEF TargetInv, Marked

\* Steps that finish no redaction and rewrite no row.
LEMMA QuietStep ==
  ASSUME RedIInv, CommitmentsInv, [RedNext]_redVars, DOMAIN events' = DOMAIN events,
         \A id \in DOMAIN events : SameButArchived(id), HalfDoneTargets' = HalfDoneTargets,
         \A w \in Workers : TargetInv(w)'
  PROVE  CommitmentsInv'
  <1>1. \A c \in DOMAIN events' : CompanionInv(c)'
    BY CompanionsKept DEF CommitmentsInv
  <1>2. ASSUME NEW id \in DOMAIN events', id \notin Disputed'
        PROVE  /\ CommitmentsPrecede(id)'
               /\ (id \in HalfDoneTargets) => Uncommitted(id)'
               /\ (id \notin HalfDoneTargets) => Committed(id)'
    <2>1. id \in DOMAIN events \ Disputed
      BY <1>2, CompanionsKept
    <2> QED
      BY <2>1, CommitmentsKept DEF CommitmentsInv
  <1> QED
    BY <1>1, <1>2 DEF CommitmentsInv

\* The records whose redaction is not finished, when no session gets past
\* its first transaction or out of its second.
LEMMA SameHalfDone ==
  ASSUME UNCHANGED interrupted,
         \A w \in Workers : HalfDone(w)' <=> HalfDone(w),
         \A w \in Workers : HalfDone(w) => red'[w].target = red[w].target
  PROVE  HalfDoneTargets' = HalfDoneTargets
  BY DEF HalfDoneTargets

\* A redaction that fails half way, after its first transaction.
LEMMA FailedHalfWay ==
  ASSUME NEW w \in Workers, ~HalfDone(w)',
         interrupted' = interrupted \cup (IF HalfDone(w) THEN {red[w].target} ELSE {}),
         \A v \in Workers \ {w} : (HalfDone(v)' <=> HalfDone(v)) /\ red'[v] = red[v]
  PROVE  HalfDoneTargets' = HalfDoneTargets
  <1> DEFINE now == {red[v].target : v \in {u \in Workers : HalfDone(u)}}
             then == {red'[v].target : v \in {u \in Workers : HalfDone(u)'}}
             mine == IF HalfDone(w) THEN {red[w].target} ELSE {}
  <1>1. now = {red[v].target : v \in {u \in Workers \ {w} : HalfDone(u)}} \cup mine
    OBVIOUS
  <1>2. then = {red[v].target : v \in {u \in Workers \ {w} : HalfDone(u)}}
    OBVIOUS
  <1>3. HalfDoneTargets = interrupted \cup now /\ HalfDoneTargets' = interrupted' \cup then
    BY DEF HalfDoneTargets
  <1> HIDE DEF now, then, mine
  <1>4. interrupted' = interrupted \cup mine
    BY DEF mine
  <1>5. then \cup mine = now
    BY <1>1, <1>2
  <1> QED
    BY <1>3, <1>4, <1>5

\* A step of one session that leaves the rows alone.
LEMMA QuietSession ==
  ASSUME RedIInv, CommitmentsInv, NEW w \in Workers, StepBy(w), UNCHANGED events,
         HalfDoneTargets' = HalfDoneTargets,
         HalfDone(w)' => (HalfDone(w) /\ red'[w] = red[w])
  PROVE  CommitmentsInv'
  <1>1. [RedNext]_redVars /\ \A id : SameButArchived(id)
    BY DEF SameButArchived, RedNext, StepBy
  <1>2. ASSUME NEW v \in Workers PROVE TargetInv(v)'
    <2>1. HalfDone(v)' => (HalfDone(v) /\ red'[v] = red[v])
      BY OthersStay DEF HalfDone, Serving
    <2>2. CASE HalfDone(v)'
      BY <1>1, <2>1, <2>2, TargetKept DEF CommitmentsInv
    <2>3. CASE ~HalfDone(v)'
      BY <2>3 DEF TargetInv
    <2> QED
      BY <2>2, <2>3
  <1> QED
    BY <1>1, <1>2, QuietStep

\* Such a step, when it also leaves the session's redaction where it was.
LEMMA QuietRedaction ==
  ASSUME RedIInv, CommitmentsInv, NEW w \in Workers, StepBy(w), UNCHANGED <<events, interrupted>>,
         HalfDone(w)' <=> HalfDone(w), HalfDone(w) => red'[w] = red[w]
  PROVE  CommitmentsInv'
  <1>1. ASSUME NEW v \in Workers PROVE (HalfDone(v)' <=> HalfDone(v)) /\ (HalfDone(v) => red'[v].target = red[v].target)
    <2>1. CASE v = w
      BY <2>1
    <2>2. CASE v # w
      BY <2>2, OthersStay DEF HalfDone, Serving
    <2> QED
      BY <2>1, <2>2
  <1>2. HalfDoneTargets' = HalfDoneTargets
    BY <1>1, SameHalfDone
  <1> QED
    BY <1>2, QuietSession

\* Requests begin, which changes no record.
LEMMA BeginCommitments ==
  ASSUME RedIInv, CommitmentsInv, NEW w \in Workers, BeginAppend(w) \/ BeginRedaction(w)
  PROVE  CommitmentsInv'
  <1> USE DEF Goto
  <1>1. /\ pc \in [Workers -> RedPcValues]
        /\ StepBy(w) /\ pc[w] = "idle" /\ ~Serving(w) /\ ~HalfDone(w)
    BY DEF RedIInv, SessionInv, ServingInv, HalfDone, StepBy, BeginAppend, Begin, BeginRedaction
  <1>2. UNCHANGED <<events, interrupted>> /\ ~HalfDone(w)'
    <2>1. CASE BeginAppend(w)
      BY <1>1, <2>1 DEF BeginAppend, Begin, table, HalfDone, Serving
    <2>2. CASE BeginRedaction(w)
      BY <1>1, <2>2 DEF BeginRedaction, table, HalfDone
    <2> QED
      BY <2>1, <2>2
  <1> QED
    BY <1>1, <1>2, QuietRedaction

\* The steps between two transactions, and after the second.
LEMMA ServeCommitments ==
  ASSUME RedIInv, CommitmentsInv, NEW w \in Workers,
         \/ RedactionRefused(w) \/ ReadTarget(w) \/ BuildCompanion(w) \/ RespondToRedaction(w)
         \/ RespondToAppend(w) \/ CloseRequest(w) \/ AppendStep(w)
  PROVE  CommitmentsInv'
  <1> USE DEF Goto, table
  <1>0. /\ pc \in [Workers -> RedPcValues] /\ red = [u \in Workers |-> red[u]]
        /\ StepBy(w) /\ ServingInv(w) /\ RequestInv(w)
    BY DEF RedIInv, SessionInv, StepBy, RequestStep
  <1>1. CASE RedactionRefused(w) \/ RespondToRedaction(w) \/ RespondToAppend(w)
    <2>1. UNCHANGED <<events, interrupted, red>> /\ ~HalfDone(w) /\ ~HalfDone(w)'
      BY <1>0, <1>1 DEF RedactionRefused, RespondToRedaction, RespondToAppend, Respond, HalfDone, Serving
    <2> QED
      BY <1>0, <2>1, QuietRedaction
  <1>2. CASE ReadTarget(w)
    <2>1. UNCHANGED <<events, interrupted>> /\ pc[w] = "read" /\ pc' = [pc EXCEPT ![w] = "rewrite"]
      BY <1>2 DEF ReadTarget
    <2>2. ~HalfDone(w) /\ ~HalfDone(w)'
      BY <1>0, <2>1 DEF HalfDone
    <2> QED
      BY <1>0, <2>1, <2>2, QuietRedaction
  <1>3. CASE BuildCompanion(w) \/ AppendStep(w)
    <2>1. UNCHANGED <<events, interrupted, red>>
      BY <1>3 DEF BuildCompanion, AppendStep, LockForAppend, KeyUnused, Replay, Conflict,
        ComputeEvent, InsertEvent, RecordIdempotencyKey
    <2>2. HalfDone(w)' <=> HalfDone(w)
      <3>1. CASE BuildCompanion(w)
        BY <1>0, <2>1, <3>1 DEF BuildCompanion, HalfDone, Serving
      <3>2. CASE LockForAppend(w)
        BY <1>0, <2>1, <3>2 DEF LockForAppend, HalfDone, Serving, RequestInv
      <3>3. CASE KeyUnused(w) \/ Replay(w) \/ Conflict(w) \/ RecordIdempotencyKey(w)
        <4>1. ~Serving(w)
          BY <1>0, <3>3 DEF ServingInv, KeyUnused, Replay, Conflict, RecordIdempotencyKey
        <4> QED
          BY <2>1, <4>1 DEF HalfDone, Serving
      <3>4. CASE ComputeEvent(w)
        BY <1>0, <2>1, <3>4 DEF ComputeEvent, HalfDone, Serving
      <3>5. CASE InsertEvent(w)
        BY <1>0, <2>1, <3>5 DEF InsertEvent, HalfDone, Serving, RequestInv, UnderLock
      <3> QED
        BY <1>3, <3>1, <3>2, <3>3, <3>4, <3>5 DEF AppendStep
    <2> QED
      BY <1>0, <2>1, <2>2, QuietRedaction
  <1>4. CASE CloseRequest(w)
    <2>1. /\ UNCHANGED <<events, interrupted>> /\ pc[w] = "close"
          /\ red' = [red EXCEPT ![w] = NoRedaction]
      BY <1>4 DEF CloseRequest, CloseSession
    <2>2. ~Serving(w)'
      BY <1>0, <2>1 DEF Serving, NoRedaction
    <2>3. ~HalfDone(w) /\ ~HalfDone(w)'
      BY <2>1, <2>2 DEF HalfDone
    <2> QED
      BY <1>0, <2>1, <2>3, QuietRedaction
  <1> QED
    BY <1>1, <1>2, <1>3, <1>4

\* A failure after the first transaction leaves the target unfinished.
LEMMA FailCommitments ==
  ASSUME RedIInv, CommitmentsInv, NEW w \in Workers, CompanionRejected(w) \/ AbortRequest(w)
  PROVE  CommitmentsInv'
  <1> USE DEF Goto, table
  <1>0. /\ pc \in [Workers -> RedPcValues] /\ red = [u \in Workers |-> red[u]]
        /\ StepBy(w) /\ ServingInv(w)
    BY DEF RedIInv, SessionInv, StepBy, RequestStep
  <1>1. \A v \in Workers \ {w} : (HalfDone(v)' <=> HalfDone(v)) /\ red'[v] = red[v]
    BY <1>0, OthersStay DEF HalfDone, Serving
  <1>2. CASE CompanionRejected(w)
    <2>1. /\ UNCHANGED <<events, red>> /\ pc[w] = "companion" /\ pc' = [pc EXCEPT ![w] = "close"]
          /\ interrupted' = interrupted \cup {red[w].target}
      BY <1>2 DEF CompanionRejected
    <2>2. HalfDone(w) /\ ~HalfDone(w)'
      BY <1>0, <2>1 DEF HalfDone, ServingInv
    <2>3. HalfDoneTargets' = HalfDoneTargets
      BY <1>1, <2>1, <2>2, FailedHalfWay
    <2> QED
      BY <1>0, <2>1, <2>2, <2>3, QuietSession
  <1>3. CASE AbortRequest(w)
    <2>1. /\ UNCHANGED events /\ red' = [red EXCEPT ![w] = NoRedaction]
          /\ interrupted' = interrupted \cup (IF HalfDone(w) THEN {red[w].target} ELSE {})
      BY <1>3 DEF AbortRequest, Abort
    <2>2. ~HalfDone(w)'
      BY <1>0, <2>1 DEF Serving, HalfDone, NoRedaction
    <2>3. HalfDoneTargets' = HalfDoneTargets
      BY <1>1, <2>1, <2>2, FailedHalfWay
    <2> QED
      BY <1>0, <2>1, <2>2, <2>3, QuietSession
  <1> QED
    BY <1>2, <1>3

\* Retention, the clock and the environment.
LEMMA EnvironmentCommitments ==
  ASSUME RedIInv, CommitmentsInv, ApplyRetention \/ PassTime \/ UNCHANGED redVars
  PROVE  CommitmentsInv'
  <1>1. UNCHANGED <<pc, red, interrupted>> /\ [RedNext]_redVars
    BY AllStay DEF RedNext
  <1>2. DOMAIN events' = DOMAIN events /\ \A id \in DOMAIN events : SameButArchived(id)
    <2>1. CASE ApplyRetention
      BY <2>1, ArchivedRows DEF SameButArchived
    <2>2. CASE PassTime \/ UNCHANGED redVars
      BY <2>2 DEF PassTime, Tick, StepClockBack, redVars, vars, table, SameButArchived
    <2> QED
      BY <2>1, <2>2
  <1>3. \A w \in Workers : HalfDone(w)' <=> HalfDone(w)
    BY <1>1 DEF HalfDone, Serving
  <1>4. HalfDoneTargets' = HalfDoneTargets
    BY <1>1, <1>3, SameHalfDone
  <1>5. ASSUME NEW w \in Workers PROVE TargetInv(w)'
    <2>1. HalfDone(w) => red[w].target \in DOMAIN events
      BY DEF HalfDone, RedIInv, SessionInv, ServingInv, PastRead, SeenInv
    <2> QED
      BY <1>1, <1>2, <1>3, <2>1, TargetKept DEF CommitmentsInv
  <1> QED
    BY <1>1, <1>2, <1>4, <1>5, QuietStep

\* What a companion says.
LEMMA CompanionSays ==
  ASSUME NEW r
  PROVE  /\ IsCompanion(Companion(r))
         /\ {"targetEventId", "redactedContentHash"} \subseteq DOMAIN Companion(r).payload
         /\ Companion(r).payload["targetEventId"] = r.target
         /\ Companion(r).payload["redactedContentHash"] = RedactedContentHash(r.seen, r.fields)
  <1> DEFINE fixed == [targetEventId       |-> r.target,
                       redactedFields      |-> r.fields,
                       redactedContentHash |-> RedactedContentHash(r.seen, r.fields)]
             payload == IF r.reason = NULL THEN fixed
                        ELSE [f \in DOMAIN fixed \cup {"reason"} |->
                                IF f = "reason" THEN r.reason ELSE fixed[f]]
  <1>1. Companion(r) = [event_type |-> Verification!REDACTION_EVENT_TYPE,
                        subject    |-> <<Admin, "AUDIT_EVENT", r.target>>,
                        payload    |-> payload]
    BY DEF Companion
  <1>2. /\ DOMAIN fixed = {"targetEventId", "redactedFields", "redactedContentHash"}
        /\ fixed["targetEventId"] = r.target
        /\ fixed["redactedContentHash"] = RedactedContentHash(r.seen, r.fields)
    OBVIOUS
  <1>3. /\ {"targetEventId", "redactedContentHash"} \subseteq DOMAIN payload
        /\ payload["targetEventId"] = fixed["targetEventId"]
        /\ payload["redactedContentHash"] = fixed["redactedContentHash"]
    BY <1>2
  <1>4. IsCompanion(Companion(r)) /\ Companion(r).payload = payload
    BY <1>1 DEF IsCompanion
  <1> QED
    BY <1>2, <1>3, <1>4

\* A row as it is committed.
LEMMA CommittedRow ==
  ASSUME RedIInv, NEW w \in Workers, CommitAppend(w)
  PROVE  /\ staged[w].event_type = req[w].event_in.event_type
         /\ staged[w].payload = req[w].event_in.payload
         /\ staged[w].redacted_at = NULL
         /\ FirstContent(staged[w]).payload = staged[w].payload
         /\ origin'[result[w]].username = req[w].username
  <1>1. /\ staged[w] = AuditEvent(req[w], staged[w].timestamp, staged[w].previous_hash)
        /\ staged[w].timestamp \in 0..MaxTime /\ req[w].tenant_id \in Tenants
    BY DEF CommitAppend, Commit, RedIInv, SessionInv, AppendInv, RequestInv, UnderLock
  <1>2. RowInv(staged[w]) /\ staged[w].redacted_at = NULL
    BY <1>1, FreshRow
  <1>3. staged[w].event_type = req[w].event_in.event_type /\ staged[w].payload = req[w].event_in.payload
    BY <1>1 DEF AuditEvent
  <1>4. origin'[result[w]].username = req[w].username
    BY DEF CommitAppend, Commit, Published
  <1> QED
    BY <1>2, <1>3, <1>4 DEF RowInv

\* A new record changes nothing about those before it that it is not about;
\* and what is about it, if anything, a client posted.
LEMMA AddedRow ==
  ASSUME RedIInv, CommitmentsInv, NEW w \in Workers, CommitAppend(w), NEW id, id = result[w]
  PROVE  /\ [RedNext]_redVars
         /\ \A i \in DOMAIN events : ~IsAbout(id, i)' =>
              /\ CommitmentsPrecede(i) => CommitmentsPrecede(i)'
              /\ Uncommitted(i) => Uncommitted(i)'
              /\ Committed(i) => Committed(i)'
         /\ id \notin Disputed' => \A c \in DOMAIN events : ~IsAbout(c, id)'
  <1>1. /\ id \notin DOMAIN events /\ DOMAIN events' = DOMAIN events \cup {id}
        /\ \A j \in DOMAIN events : events'[j] = events[j]
    BY CommittedRows
  <1>2. [RedNext]_redVars
    BY DEF RedNext, RequestStep
  <1>3. ASSUME NEW i \in DOMAIN events, ~IsAbout(id, i)'
        PROVE  /\ CommitmentsPrecede(i) => CommitmentsPrecede(i)'
               /\ Uncommitted(i) => Uncommitted(i)'
               /\ Committed(i) => Committed(i)'
    <2>1. SameButArchived(i) /\ \A c \in DOMAIN events' \ DOMAIN events : ~IsAbout(c, i)'
      BY <1>1, <1>3 DEF SameButArchived
    <2> QED
      BY <1>2, <2>1, CommitmentsKept
  <1>4. ASSUME id \notin Disputed', NEW c \in DOMAIN events, IsAbout(c, id)'
        PROVE  FALSE
    <2>1. IsAbout(c, id) /\ c \in DOMAIN events' /\ origin'[c] = origin[c]
      BY <1>2, <1>4, CompanionsKept, RecordsKept
    <2>2. origin[c].username = NULL
      BY <1>1, <1>4, <2>1 DEF Disputed
    <2>3. CompanionInv(c)
      BY DEF CommitmentsInv
    <2>4. id \in DOMAIN events
      BY <2>1, <2>2, <2>3 DEF CompanionInv, IsAbout, IsCompanion
    <2> QED
      BY <1>1, <2>4
  <1> QED
    BY <1>2, <1>3, <1>4

\* A commit that publishes what a client posted: if that is an event of the
\* companions' type, the record it is about is disputed.
LEMMA PostedCommitCommitments ==
  ASSUME RedIInv, CommitmentsInv, NEW w \in Workers, AskerInv(w), CommitAppend(w), ~Serving(w)
  PROVE  CommitmentsInv'
  <1>0. PICK id, row : id = result[w] /\ row = staged[w]
    OBVIOUS
  <1>1. /\ id \notin DOMAIN events /\ DOMAIN events' = DOMAIN events \cup {id}
        /\ events'[id] = row /\ \A j \in DOMAIN events : events'[j] = events[j]
    BY <1>0, CommittedRows
  <1>2. /\ pc[w] = "commit" /\ pc' = [pc EXCEPT ![w] = "respond"] /\ UNCHANGED <<red, interrupted>>
        /\ [RedNext]_redVars
    BY DEF CommitAppend, Commit, Goto, RedNext, RequestStep
  <1>3. origin'[id].username # NULL /\ ~Marked(row)
    BY <1>0, <1>2, CommittedRow DEF AskerInv, UnderLock, Marked
  <1>4. \A v \in Workers : HalfDone(v)' <=> HalfDone(v)
    BY <1>2 DEF HalfDone, Serving, RedIInv
  <1>5. HalfDoneTargets' = HalfDoneTargets
    BY <1>2, <1>4, SameHalfDone
  <1>6. ASSUME NEW v \in Workers PROVE TargetInv(v)'
    <2>1. HalfDone(v) => red[v].target \in DOMAIN events
      BY DEF HalfDone, RedIInv, SessionInv, ServingInv, PastRead, SeenInv
    <2>2. HalfDone(v) => SameButArchived(red[v].target)
      BY <1>1, <2>1 DEF SameButArchived
    <2> QED
      BY <1>2, <1>4, <2>2, TargetKept DEF CommitmentsInv
  <1>7. \A c \in DOMAIN events' : CompanionInv(c)'
    <2>1. CompanionInv(id)'
      BY <1>3 DEF CompanionInv
    <2> QED
      BY <1>1, <1>2, <2>1, CompanionsKept DEF CommitmentsInv
  <1>8. \A i \in DOMAIN events' : IsAbout(id, i)' => i \in Disputed'
    BY <1>1, <1>3 DEF Disputed
  <1>9. ASSUME NEW i \in DOMAIN events, i \notin Disputed'
        PROVE  /\ CommitmentsPrecede(i)'
               /\ (i \in HalfDoneTargets) => Uncommitted(i)'
               /\ (i \notin HalfDoneTargets) => Committed(i)'
    <2>1. i \in DOMAIN events \ Disputed /\ ~IsAbout(id, i)'
      BY <1>1, <1>2, <1>8, <1>9, CompanionsKept
    <2> QED
      BY <1>0, <2>1, AddedRow DEF CommitmentsInv
  <1>10. ASSUME id \notin Disputed'
         PROVE  CommitmentsPrecede(id)' /\ Committed(id)' /\ id \notin HalfDoneTargets
    <2>1. \A c \in DOMAIN events' : ~IsAbout(c, id)'
      BY <1>0, <1>1, <1>8, <1>10, AddedRow
    <2>2. CommitmentsPrecede(id)'
      BY <2>1 DEF CommitmentsPrecede
    <2>3. Committed(id)'
      BY <1>1, <1>3 DEF Committed, Marked
    <2>4. id \notin HalfDoneTargets
      BY <1>1 DEF HalfDoneTargets, HalfDone, RedIInv, RecordsInv, SessionInv, ServingInv, PastRead, SeenInv
    <2> QED
      BY <2>2, <2>3, <2>4
  <1> QED
    BY <1>1, <1>5, <1>6, <1>7, <1>9, <1>10 DEF CommitmentsInv

\* The commitment of a redaction is one to its row as rewritten.
LEMMA CommitmentToRow ==
  ASSUME NEW row, NEW seen, NEW fields, DOMAIN seen = Columns,
         \A column \in FrozenColumns : seen[column] = row[column],
         row.payload = RedactedPayload(seen, fields)
  PROVE  /\ RedactedContentHash(seen, fields) = Verification!ContentHash(row)
         /\ Hashed(RedactedContentHash(seen, fields)).payload = row.payload
  <1>1. PICK n : n = [seen EXCEPT !.payload = RedactedPayload(seen, fields)]
    OBVIOUS
  <1>2. n.event_type = seen.event_type /\ n.subject = seen.subject /\ n.payload = RedactedPayload(seen, fields)
    BY <1>1, Zenon DEF Columns, FrozenColumns
  <1>3. RedactedContentHash(seen, fields)
          = compute_event_hash(seen.tenant_id, n, seen.timestamp, seen.previous_hash)
    BY <1>1 DEF RedactedContentHash
  <1>4. /\ seen.tenant_id = row.tenant_id /\ seen.event_type = row.event_type
        /\ seen.subject = row.subject /\ seen.timestamp = row.timestamp
        /\ seen.previous_hash = row.previous_hash
    BY DEF FrozenColumns
  <1> QED
    BY <1>2, <1>3, <1>4 DEF compute_event_hash, Sha256, Hashed,
      Verification!ContentHash, Verification!compute_event_hash, Verification!Sha256


\* Fields that are not redacted hold no marker, unless it was posted.
LEMMA NoOtherMarkers ==
  ASSUME RedIInv, NEW id \in DOMAIN events \ Disputed,
         NEW f \in DOMAIN events[id].payload \ events[id].redacted_fields
  PROVE  events[id].payload[f] # Marker
  <1>1. AccountsForFields(events[id])
    BY DEF RedIInv, RecordsInv, RowInv
  <1>2. \A g \in DOMAIN Original(id).payload : Original(id).payload[g] # Marker
    BY DEF Disputed
  <1> QED
    BY <1>1, <1>2 DEF AccountsForFields, Original

\* A companion's commit: its record is accounted for again.
LEMMA CompanionCommitCommitments ==
  ASSUME OneRedactor, RedIInv, CommitmentsInv, NEW w \in Workers, CommitAppend(w), Serving(w)
  PROVE  CommitmentsInv'
  <1>0. PICK id, row, t : id = result[w] /\ row = staged[w] /\ t = red[w].target
    OBVIOUS
  <1>1. /\ id \notin DOMAIN events /\ DOMAIN events' = DOMAIN events \cup {id}
        /\ \A j \in DOMAIN events : j < id
        /\ events'[id] = row /\ \A j \in DOMAIN events : events'[j] = events[j]
    BY <1>0, CommittedRows
  <1>2. /\ pc[w] = "commit" /\ pc' = [pc EXCEPT ![w] = "respond"] /\ UNCHANGED red
        /\ interrupted' = interrupted \ {t} /\ [RedNext]_redVars
    BY <1>0 DEF CommitAppend, Commit, Goto, RedNext, RequestStep
  <1>3. /\ HalfDone(w) /\ SeenInv(w) /\ t \in DOMAIN events
        /\ req[w].event_in = Companion(red[w])
    BY <1>0, <1>2 DEF HalfDone, RedIInv, SessionInv, ServingInv, PastRead, SeenInv,
      RequestInv, UnderLock
  <1>4. Marked(events[t]) /\ events[t].payload = RedactedPayload(red[w].seen, red[w].fields)
    BY <1>0, <1>3 DEF CommitmentsInv, TargetInv
  <1>5. /\ RedactedContentHash(red[w].seen, red[w].fields) = Verification!ContentHash(events[t])
        /\ Hashed(RedactedContentHash(red[w].seen, red[w].fields)).payload = events[t].payload
    BY <1>0, <1>3, <1>4, CommitmentToRow DEF SeenInv, RowInv
  <1>6. /\ row.redacted_at = NULL /\ IsCompanion(row)
        /\ {"targetEventId", "redactedContentHash"} \subseteq DOMAIN row.payload
        /\ row.payload["targetEventId"] = t
        /\ row.payload["redactedContentHash"] = RedactedContentHash(red[w].seen, red[w].fields)
        /\ FirstContent(row).payload = row.payload
    <2>1. /\ row.event_type = Companion(red[w]).event_type
          /\ row.payload = Companion(red[w]).payload
          /\ row.redacted_at = NULL /\ FirstContent(row).payload = row.payload
      BY <1>0, <1>3, CommittedRow
    <2> QED
      BY <1>0, <2>1, CompanionSays DEF IsCompanion
  <1>7. Original(id)'.payload = row.payload
    BY <1>1, <1>6 DEF Original, FirstContent
  <1>8. /\ \A i : IsAbout(id, i)' <=> i = t
        /\ CommittedHash(id)' = Verification!ContentHash(events[t])
        /\ t # id
    BY <1>1, <1>3, <1>5, <1>6, <1>7 DEF IsAbout, IsCompanion, CommittedHash
  <1>9. \A v \in Workers : v # w => ~Serving(v)
    BY OneServing
  <1>10. \A v \in Workers : ~HalfDone(v)'
    BY <1>2, <1>9 DEF HalfDone, Serving, RedIInv
  <1>11. HalfDoneTargets' = HalfDoneTargets \ {t}
    <2>1. HalfDoneTargets' = interrupted \ {t}
      BY <1>2, <1>10 DEF HalfDoneTargets
    <2>2. HalfDoneTargets = interrupted \cup {t}
      BY <1>0, <1>3, <1>9 DEF HalfDoneTargets, HalfDone
    <2> QED
      BY <2>1, <2>2
  <1>12. \A v \in Workers : TargetInv(v)'
    BY <1>10 DEF TargetInv
  <1>13. \A c \in DOMAIN events' : CompanionInv(c)'
    <2>1. CompanionInv(id)'
      BY <1>1, <1>3, <1>6, <1>7 DEF CompanionInv
    <2> QED
      BY <1>1, <1>2, <2>1, CompanionsKept DEF CommitmentsInv
  <1>14. ASSUME NEW i \in DOMAIN events, i \notin Disputed', i # t
         PROVE  /\ CommitmentsPrecede(i)'
                /\ (i \in HalfDoneTargets') => Uncommitted(i)'
                /\ (i \notin HalfDoneTargets') => Committed(i)'
    <2>1. i \in DOMAIN events \ Disputed /\ ~IsAbout(id, i)'
      BY <1>2, <1>8, <1>14, CompanionsKept
    <2>2. /\ CommitmentsPrecede(i)
          /\ (i \in HalfDoneTargets) => Uncommitted(i)
          /\ (i \notin HalfDoneTargets) => Committed(i)
      BY <2>1 DEF CommitmentsInv
    <2> QED
      BY <1>0, <1>11, <1>14, <2>1, <2>2, AddedRow
  <1>15. ASSUME t \notin Disputed'
         PROVE  CommitmentsPrecede(t)' /\ Committed(t)'
    <2>1. t \in DOMAIN events \ Disputed /\ events'[t] = events[t]
      BY <1>1, <1>2, <1>3, <1>15, CompanionsKept
    <2>2. CommitmentsPrecede(t)'
      <3>1. ASSUME NEW c \in DOMAIN events, IsAbout(c, t)',
                   NEW f \in DOMAIN events[t].payload \ events[t].redacted_fields
            PROVE  Hashed(CommittedHash(c)').payload[f] # Marker
        <4>1. IsAbout(c, t) /\ CommittedHash(c)' = CommittedHash(c)
          BY <1>2, <3>1, CompanionsKept
        <4> QED
          BY <2>1, <3>1, <4>1 DEF CommitmentsInv, CommitmentsPrecede
      <3>2. \A f \in DOMAIN events[t].payload \ events[t].redacted_fields :
              Hashed(CommittedHash(id)').payload[f] # Marker
        BY <1>5, <1>8, <2>1, NoOtherMarkers
      <3> QED
        BY <1>1, <2>1, <3>1, <3>2 DEF CommitmentsPrecede, Hashed
    <2>3. Committed(t)'
      <3>1. Verification!ContentHash(events[t])' = Verification!ContentHash(events[t])
        BY <2>1 DEF Verification!ContentHash, Verification!compute_event_hash
      <3>2. \A d \in DOMAIN events' : d <= id
        <4>1. id \in Nat /\ \A d \in DOMAIN events : d \in Nat
          BY <1>0, <1>2 DEF RedIInv, RecordsInv, SessionInv, AppendInv, AfterInsert
        <4> QED
          BY <1>1, <4>1
      <3> QED
        BY <1>1, <1>8, <3>1, <3>2 DEF Committed
    <2> QED
      BY <2>2, <2>3
  <1>16. ASSUME id \notin Disputed'
         PROVE  CommitmentsPrecede(id)' /\ Committed(id)' /\ id \notin HalfDoneTargets'
    <2>1. \A c \in DOMAIN events' : ~IsAbout(c, id)'
      BY <1>0, <1>1, <1>8, <1>16, AddedRow
    <2>2. CommitmentsPrecede(id)'
      BY <2>1 DEF CommitmentsPrecede
    <2>3. Committed(id)'
      BY <1>1, <1>6 DEF Committed, Marked
    <2>4. id \notin interrupted
      BY <1>1 DEF RedIInv, RecordsInv
    <2>5. id \notin HalfDoneTargets'
      BY <1>2, <1>10, <2>4 DEF HalfDoneTargets
    <2> QED
      BY <2>2, <2>3, <2>5
  <1> QED
    BY <1>1, <1>3, <1>11, <1>12, <1>13, <1>14, <1>15, <1>16 DEF CommitmentsInv

\* The first transaction of a redaction: what was committed to before is
\* outdated, because it had no marker in the fields that get one now.  If the
\* row is a companion, the record that it is about is disputed from now on.
LEMMA RewriteCommitments ==
  ASSUME OneRedactor, RedIInv, CommitmentsInv, NEW w \in Workers, SeenIsCurrent(w), RewriteTarget(w)
  PROVE  CommitmentsInv'
  <1>0. PICK t, seen, fields, n :
          /\ t = red[w].target /\ seen = red[w].seen /\ fields = red[w].fields
          /\ n = RedactedRow(events[t], seen, fields, red[w].now)
    OBVIOUS
  <1>1. /\ t \in DOMAIN events /\ SeenInv(w) /\ DOMAIN events' = DOMAIN events
        /\ events'[t] = n /\ \A j \in DOMAIN events \ {t} : events'[j] = events[j]
    BY <1>0, RewrittenRows
  <1>2. /\ pc[w] = "rewrite" /\ pc' = [pc EXCEPT ![w] = "companion"] /\ UNCHANGED <<red, interrupted>>
        /\ [RedNext]_redVars
    BY DEF RewriteTarget, Goto, RedNext, RequestStep
  <1>3. Serving(w) /\ red[w].now \in 0..MaxTime
    BY <1>2 DEF RedIInv, SessionInv, ServingInv
  <1>4. /\ seen.payload = events[t].payload /\ seen.redacted_fields = events[t].redacted_fields
        /\ fields # {} /\ fields \subseteq DOMAIN events[t].payload \ events[t].redacted_fields
    BY <1>0, <1>1, <1>2 DEF SeenIsCurrent, Columns, SeenInv
  <1>5. /\ n.payload = RedactedPayload(seen, fields) /\ n.redacted_at = red[w].now
        /\ n.redacted_fields = events[t].redacted_fields \cup fields
    <2>1. DOMAIN events[t] = Columns
      BY <1>1 DEF RedIInv, RecordsInv, RowInv
    <2> QED
      BY <1>0, <1>4, <2>1, RedactedColumns
  <1>6. /\ Marked(n) /\ DOMAIN n.payload = DOMAIN events[t].payload
        /\ \A f \in fields : f \in DOMAIN n.payload /\ n.payload[f] = Marker
    BY <1>3, <1>4, <1>5, NullTimeAssumption, BoundsAssumption DEF RedactedPayload, Marked
  <1>7. \A c \in DOMAIN events : /\ CommittedHash(c)' = CommittedHash(c)
                                 /\ \A i : IsAbout(c, i)' <=> IsAbout(c, i)
    BY <1>2, CompanionsKept
  <1>8. \A v \in Workers : v # w => ~Serving(v)
    BY <1>3, OneServing
  <1>9. HalfDoneTargets' = HalfDoneTargets \cup {t}
    <2>1. /\ \A v \in Workers : ~HalfDone(v)
          /\ \A v \in Workers : HalfDone(v)' <=> (v = w)
      BY <1>2, <1>3, <1>8 DEF HalfDone, Serving, RedIInv
    <2>2. HalfDoneTargets = interrupted
      BY <2>1 DEF HalfDoneTargets
    <2>3. HalfDoneTargets' = interrupted' \cup {red'[w].target}
      BY <2>1 DEF HalfDoneTargets
    <2> QED
      BY <1>0, <1>2, <2>2, <2>3
  <1>10. ASSUME NEW v \in Workers PROVE TargetInv(v)'
    <2>1. CASE v # w
      BY <1>2, <1>8, <2>1 DEF TargetInv, HalfDone, Serving
    <2>2. CASE v = w
      <3>1. red'[v].target = t /\ red'[v].seen = seen /\ red'[v].fields = fields
        BY <1>0, <1>2, <2>2
      <3>2. Marked(events'[t]) /\ events'[t].payload = RedactedPayload(seen, fields)
        BY <1>1, <1>5, <1>6
      <3> QED
        BY <3>1, <3>2 DEF TargetInv, RedactedPayload, Marked
    <2> QED
      BY <2>1, <2>2
  <1>11. \A c \in DOMAIN events' : CompanionInv(c)'
    BY <1>1, <1>2, CompanionsKept DEF CommitmentsInv
  <1>12. ASSUME NEW i \in DOMAIN events, i \notin Disputed', i # t
         PROVE  /\ CommitmentsPrecede(i)'
                /\ (i \in HalfDoneTargets') => Uncommitted(i)'
                /\ (i \notin HalfDoneTargets') => Committed(i)'
    <2>1. i \in DOMAIN events \ Disputed /\ SameButArchived(i)
      BY <1>1, <1>2, <1>12, CompanionsKept DEF SameButArchived
    <2>2. /\ CommitmentsPrecede(i)
          /\ (i \in HalfDoneTargets) => Uncommitted(i)
          /\ (i \notin HalfDoneTargets) => Committed(i)
      BY <2>1 DEF CommitmentsInv
    <2> QED
      BY <1>1, <1>2, <1>9, <1>12, <2>1, <2>2, CommitmentsKept
  <1>13. ASSUME t \notin Disputed'
         PROVE  CommitmentsPrecede(t)' /\ Uncommitted(t)'
    <2>1. \A c \in DOMAIN events : IsAbout(c, t) =>
            \A f \in DOMAIN events[t].payload \ events[t].redacted_fields :
              Hashed(CommittedHash(c)).payload[f] # Marker
      BY <1>1, <1>2, <1>13, CompanionsKept DEF CommitmentsInv, CommitmentsPrecede
    <2>2. CommitmentsPrecede(t)'
      BY <1>1, <1>5, <1>6, <1>7, <2>1 DEF CommitmentsPrecede
    <2>3. PICK f \in fields : f \in DOMAIN events[t].payload \ events[t].redacted_fields
      BY <1>4
    <2>4. Hashed(Verification!ContentHash(n)).payload[f] = Marker
      BY <1>6, <2>3 DEF Hashed, Verification!ContentHash, Verification!compute_event_hash,
        Verification!Sha256
    <2>5. \A c \in DOMAIN events : IsAbout(c, t) => CommittedHash(c)' # Verification!ContentHash(n)
      BY <1>7, <2>1, <2>3, <2>4
    <2>6. Verification!ContentHash(events[t])' = Verification!ContentHash(n)
      BY <1>1 DEF Verification!ContentHash, Verification!compute_event_hash
    <2>7. Uncommitted(t)'
      BY <1>1, <1>6, <1>7, <2>5, <2>6 DEF Uncommitted, Marked
    <2> QED
      BY <2>2, <2>7
  <1> QED
    BY <1>1, <1>9, <1>10, <1>11, <1>12, <1>13 DEF CommitmentsInv

\* Every step preserves what is said about commitments.
LEMMA CommitmentsStep ==
  ASSUME OneRedactor, RedIInv, CommitmentsInv,
         \A w \in Workers : SeenIsCurrent(w), \A w \in Workers : AskerInv(w), [RedNext]_redVars
  PROVE  CommitmentsInv'
  <1>1. ASSUME NEW w \in Workers, StepBy(w) PROVE CommitmentsInv'
    <2>1. CASE BeginAppend(w) \/ BeginRedaction(w)
      BY <2>1, BeginCommitments
    <2>2. CASE RewriteTarget(w)
      BY <2>2, RewriteCommitments
    <2>3. CASE CommitAppend(w)
      BY <2>3, PostedCommitCommitments, CompanionCommitCommitments
    <2>4. CASE CompanionRejected(w) \/ AbortRequest(w)
      BY <2>4, FailCommitments
    <2>5. CASE \/ RedactionRefused(w) \/ ReadTarget(w) \/ BuildCompanion(w) \/ RespondToRedaction(w)
               \/ RespondToAppend(w) \/ CloseRequest(w) \/ AppendStep(w)
      BY <2>5, ServeCommitments
    <2> QED
      BY <1>1, <2>1, <2>2, <2>3, <2>4, <2>5 DEF StepBy, RequestStep
  <1>2. CASE ApplyRetention \/ PassTime \/ UNCHANGED redVars
    BY <1>2, EnvironmentCommitments
  <1> QED
    BY <1>1, <1>2 DEF RedNext, StepBy

\* There is nothing to be wrong about at first.
LEMMA CommitmentsInitially == RedInit => CommitmentsInv
  <1> SUFFICES ASSUME RedInit PROVE CommitmentsInv
    OBVIOUS
  <1>1. \A w \in Workers : ~HalfDone(w)
    BY DEF RedInit, Init, HalfDone
  <1>2. DOMAIN events = {}
    BY DEF RedInit, Init
  <1> QED
    BY <1>1, <1>2 DEF CommitmentsInv, TargetInv

\* With redactions one at a time, every finished redaction is vouched for by
\* the last companion of its record, and no unfinished one by any, unless the
\* record is disputed: whatever clients post, and whatever is redacted.
THEOREM SequentialInvariance ==
  ASSUME OneRedactor
  PROVE  RedSpec => []SequentialInv
  <1> DEFINE Current == \A w \in Workers : SeenIsCurrent(w)
             Asked   == \A w \in Workers : AskerInv(w)
  <1>1. RedSpec => []Current
    BY SeenInvariance
  <1>2. RedSpec => []Asked
    BY AskerInvariance
  <1>3. RedIInv /\ Current /\ Asked /\ CommitmentsInv /\ [RedNext]_redVars => CommitmentsInv'
    BY CommitmentsStep
  <1>4. SequentialInv <=> Current /\ Asked /\ CommitmentsInv
    BY DEF SequentialInv
  <1> HIDE DEF Current, Asked
  <1> QED
    BY <1>1, <1>2, <1>3, <1>4, RedInvariance, CommitmentsInitially, PTL DEF RedSpec

-----------------------------------------------------------------------------
(* What verification finds.                                                *)

\* An event that verification takes for a commitment is as it was created.
LEMMA CommitsAsCreated ==
  ASSUME RedIInv, NEW c \in DOMAIN events, NEW id, Verification!CommitsTo(events[c], id)
  PROVE  IsAbout(c, id) /\ events[c].payload = Original(c).payload
  <1>1. /\ events[c].event_type = Verification!REDACTION_EVENT_TYPE
        /\ Verification!ContentHash(events[c]) = events[c].event_hash
        /\ "targetEventId" \in DOMAIN events[c].payload
        /\ events[c].payload["targetEventId"] = id
    BY DEF Verification!CommitsTo
  <1>2. Hashed(Verification!ContentHash(events[c])).payload = events[c].payload
    BY DEF Hashed, Verification!ContentHash, Verification!compute_event_hash, Verification!Sha256
  <1>3. events[c].payload = Original(c).payload
    BY <1>1, <1>2 DEF Original, FirstContent
  <1> QED
    BY <1>1, <1>3 DEF IsAbout

\* The companions that verification goes by are all there are, for a record
\* that is not disputed.
LEMMA CompanionsCount ==
  ASSUME RedIInv, CommitmentsInv, NEW c \in DOMAIN events, NEW id \in DOMAIN events \ Disputed
  PROVE  /\ Verification!CommitsTo(events[c], id) <=> IsAbout(c, id)
         /\ IsAbout(c, id) => events[c].payload["redactedContentHash"] = CommittedHash(c)
  <1>1. ASSUME IsAbout(c, id)
        PROVE  /\ Verification!CommitsTo(events[c], id)
               /\ events[c].payload["redactedContentHash"] = CommittedHash(c)
    <2>1. origin[c].username = NULL /\ ~Marked(events[c])
      BY <1>1 DEF Disputed
    <2>2. {"targetEventId", "redactedContentHash"} \subseteq DOMAIN Original(c).payload
      BY <1>1, <2>1 DEF CommitmentsInv, CompanionInv, IsAbout, IsCompanion
    <2>3. RowInv(events[c]) /\ events[c].redacted_at = NULL
      BY <2>1 DEF RedIInv, RecordsInv, Marked
    <2>4. Verification!ContentHash(events[c]) = events[c].event_hash
      BY <2>3, UntouchedHash
    <2>5. events[c].payload = Original(c).payload
      BY <2>3 DEF RowInv, Original
    <2> QED
      BY <1>1, <2>2, <2>4, <2>5 DEF IsAbout, Verification!CommitsTo, CommittedHash
  <1>2. Verification!CommitsTo(events[c], id) => IsAbout(c, id)
    BY CommitsAsCreated
  <1> QED
    BY <1>1, <1>2

\* The commitment verification finds for a record.
LEMMA CommitmentFound ==
  ASSUME RedIInv, CommitmentsInv, NEW id \in DOMAIN events \ Disputed, NEW hash
  PROVE  (hash \in Verification!LatestCommitment(events, id)) <=>
           \E c \in DOMAIN events :
             /\ IsAbout(c, id) /\ CommittedHash(c) = hash
             /\ \A d \in DOMAIN events : IsAbout(d, id) => d <= c
  <1>1. \A c \in DOMAIN events : Verification!CommitsTo(events[c], id) <=> IsAbout(c, id)
    BY CompanionsCount
  <1>2. \A c \in DOMAIN events : IsAbout(c, id) => events[c].payload["redactedContentHash"] = CommittedHash(c)
    BY CompanionsCount
  <1> QED
    BY <1>1, <1>2 DEF Verification!LatestCommitment

\* Verification is content with a record unless its redaction is not finished.
LEMMA BlamedIsHalfDone ==
  ASSUME RedIInv, CommitmentsInv, NEW id \in DOMAIN events \ Disputed
  PROVE  (Verification!Verdict(events, id) # "ok") <=> (id \in HalfDoneTargets)
  <1>1. events[id].previous_hash = Verification!ExpectedPreviousHash(events, id)
    BY LinksAsExpected DEF RedIInv
  <1>2. (Verification!Verdict(events, id) # "ok") <=> (Verification!ContentVerdict(events, id) # "ok")
    BY <1>1 DEF Verification!Verdict
  <1>3. CASE id \in HalfDoneTargets
    <2>1. Uncommitted(id)
      BY <1>3 DEF CommitmentsInv
    <2>2. Verification!ContentHash(events[id]) \notin Verification!LatestCommitment(events, id)
      BY <2>1, CommitmentFound DEF Uncommitted
    <2>3. Verification!ContentVerdict(events, id) # "ok"
      BY <2>1, <2>2 DEF Uncommitted, Marked, Verification!ContentVerdict
    <2> QED
      BY <1>2, <1>3, <2>3
  <1>4. CASE id \notin HalfDoneTargets /\ ~Marked(events[id])
    <2>1. Verification!ContentHash(events[id]) = events[id].event_hash
      BY <1>4, UntouchedHash DEF RedIInv, RecordsInv, Marked
    <2>2. Verification!ContentVerdict(events, id) = "ok"
      BY <1>4, <2>1 DEF Verification!ContentVerdict, Marked
    <2> QED
      BY <1>2, <1>4, <2>2
  <1>5. CASE id \notin HalfDoneTargets /\ Marked(events[id])
    <2>1. Verification!ContentHash(events[id]) \in Verification!LatestCommitment(events, id)
      BY <1>5, CommitmentFound DEF CommitmentsInv, Committed
    <2>2. Verification!ContentVerdict(events, id) = "ok"
      BY <1>5, <2>1 DEF Verification!ContentVerdict, Marked
    <2> QED
      BY <1>2, <1>5, <2>2
  <1> QED
    BY <1>3, <1>4, <1>5

\* A set of ids has a least one.
LEMMA LeastId ==
  ASSUME NEW S, S \subseteq Nat, S # {}
  PROVE  \E x \in S : \A y \in S : x <= y
  <1>1. PICK x \in S : \A y \in S : <<y, x>> \notin OpToRel(<, Nat)
    BY NatLessThanWellFounded, WFMin
  <1>2. \A y \in S : ~(y < x)
    BY <1>1 DEF OpToRel
  <1> QED
    BY <1>2

\* With redactions one at a time, verification blames exactly the records
\* whose redaction is between its two transactions or failed there, and
\* stops at the first of them; disputed records excepted.
THEOREM BlameIsExact ==
  ASSUME OneRedactor
  PROVE  RedSpec => []BlameIsHalfDoneRedaction
  <1>1. ASSUME RedIInv, CommitmentsInv PROVE BlameIsHalfDoneRedaction
    <2> DEFINE violating == Verification!Violating(events)
               certain   == HalfDoneTargets \ Disputed
               first     == CHOOSE id \in violating : \A j \in violating : id <= j
    <2>1. HalfDoneTargets \subseteq DOMAIN events
      BY <1>1 DEF HalfDoneTargets, HalfDone, RedIInv, RecordsInv, SessionInv, ServingInv, PastRead, SeenInv
    <2>2. violating \ Disputed = certain /\ violating \subseteq DOMAIN events
      BY <1>1, <2>1, BlamedIsHalfDone DEF Verification!Violating
    <2>3. violating \subseteq Nat
      BY <1>1, <2>2 DEF RedIInv, RecordsInv
    <2>4. CASE violating = {}
      <3>1. Verification!verify_chain(events).intact
        BY <2>4 DEF Verification!verify_chain
      <3> QED
        BY <2>2, <2>4, <3>1 DEF BlameIsHalfDoneRedaction
    <2>5. CASE violating # {}
      <3>1. first \in violating /\ \A j \in violating : first <= j
        BY <2>3, <2>5, LeastId
      <3>2. /\ Verification!verify_chain(events).intact = FALSE
            /\ Verification!verify_chain(events).record_id = first
        BY <2>5 DEF Verification!verify_chain
      <3>3. first \in certain \cup Disputed /\ \A id \in certain : first <= id
        BY <2>2, <3>1
      <3> HIDE DEF first
      <3> QED
        BY <2>2, <3>2, <3>3 DEF BlameIsHalfDoneRedaction
    <2> QED
      BY <2>4, <2>5
  <1>2. SequentialInv => CommitmentsInv
    BY DEF SequentialInv
  <1> QED
    BY <1>1, <1>2, RedInvariance, SequentialInvariance, PTL

-----------------------------------------------------------------------------
(* What verification does not miss.                                        *)

\* A bounded set of ids has a greatest one.
LEMMA GreatestId ==
  ASSUME NEW n \in Nat, NEW S, S \subseteq 0..n, S # {}
  PROVE  \E x \in S : \A y \in S : y <= x
  <1> DEFINE T == {n - y : y \in S}
  <1>1. \A y \in S : n - y \in Nat
    OBVIOUS
  <1>2. PICK t \in T : \A u \in T : t <= u
    <2>1. T \subseteq Nat
      BY <1>1
    <2>2. T # {}
      OBVIOUS
    <2> QED
      BY <2>1, <2>2, LeastId
  <1>3. PICK x \in S : t = n - x
    BY <1>2
  <1>4. ASSUME NEW y \in S PROVE y <= x
    <2>1. n - x <= n - y
      BY <1>2, <1>3
    <2> QED
      BY <2>1
  <1> QED
    BY <1>4

\* An id that is not the last has a next one.
LEMMA NextId ==
  ASSUME NEW S, S \subseteq Nat, NEW j \in S, NEW l \in S, j < l
  PROVE  \E s \in S : j < s /\ \A k \in S : k <= j \/ s <= k
  <1> DEFINE T == {k \in S : j < k}
  <1>1. PICK s \in T : \A k \in T : s <= k
    BY LeastId
  <1>2. \A k \in S : k <= j \/ k \in T
    OBVIOUS
  <1> QED
    BY <1>1, <1>2

\* What verification has found when it blames no record.
LEMMA IntactRecord ==
  ASSUME NEW log, Verification!Violating(log) = {}, NEW id \in DOMAIN log
  PROVE  /\ log[id].previous_hash = Verification!ExpectedPreviousHash(log, id)
         /\ ~Marked(log[id]) => (Verification!ContentHash(log[id]) = log[id].event_hash)
         /\ Marked(log[id]) =>
              (Verification!ContentHash(log[id]) \in Verification!LatestCommitment(log, id))
  <1>1. Verification!Verdict(log, id) = "ok"
    BY DEF Verification!Violating
  <1>2. /\ Verification!ContentVerdict(log, id) = "ok"
        /\ log[id].previous_hash = Verification!ExpectedPreviousHash(log, id)
    BY <1>1 DEF Verification!Verdict
  <1> QED
    BY <1>2 DEF Verification!ContentVerdict, Marked

\* The link expected of a record is the hash of the one before it.
LEMMA ExpectedLink ==
  ASSUME NEW log, DOMAIN log \subseteq Nat, NEW j \in DOMAIN log, NEW s \in DOMAIN log, j < s,
         \A k \in DOMAIN log : k <= j \/ s <= k
  PROVE  Verification!ExpectedPreviousHash(log, s) = log[j].event_hash
  <1> DEFINE before == {k \in DOMAIN log : k < s}
  <1>1. j \in before /\ \A k \in before : k <= j
    OBVIOUS
  <1>2. \A i \in before : (\A k \in before : k <= i) => i = j
    BY <1>1
  <1>3. (CHOOSE i \in before : \A k \in before : k <= i) = j
    BY <1>1, <1>2
  <1> QED
    BY <1>1, <1>3 DEF Verification!ExpectedPreviousHash

\* Records with one hash of their contents and one of their own are the same.
LEMMA SameHashes ==
  ASSUME NEW row, NEW other, Verification!ContentHash(other) = Verification!ContentHash(row),
         other.event_hash = row.event_hash
  PROVE  SameRecord(other, row)
  <1> DEFINE doc(r) == [tenant_id     |-> r.tenant_id,
                        event_type    |-> r.event_type,
                        subject       |-> r.subject,
                        payload       |-> r.payload,
                        timestamp     |-> r.timestamp,
                        previous_hash |-> r.previous_hash]
  <1>1. doc(row) = doc(other)
    BY DEF Verification!ContentHash, Verification!compute_event_hash, Verification!Sha256
  <1>2. /\ doc(row).tenant_id = doc(other).tenant_id /\ doc(row).event_type = doc(other).event_type
        /\ doc(row).subject = doc(other).subject /\ doc(row).payload = doc(other).payload
        /\ doc(row).timestamp = doc(other).timestamp
        /\ doc(row).previous_hash = doc(other).previous_hash
    BY <1>1
  <1>3. /\ row.tenant_id = other.tenant_id /\ row.event_type = other.event_type
        /\ row.subject = other.subject /\ row.payload = other.payload
        /\ row.timestamp = other.timestamp /\ row.previous_hash = other.previous_hash
    BY <1>2
  <1> QED
    BY <1>3 DEF SameRecord, VerifiedColumns, FrozenColumns

\* The same records vouch for the same others.
LEMMA SameVouching ==
  ASSUME NEW row, NEW other, SameRecord(other, row), NEW id
  PROVE  /\ other.payload = row.payload
         /\ Verification!ContentHash(other) = Verification!ContentHash(row)
         /\ Verification!CommitsTo(other, id) <=> Verification!CommitsTo(row, id)
  <1>1. /\ row.tenant_id = other.tenant_id /\ row.event_type = other.event_type
        /\ row.subject = other.subject /\ row.payload = other.payload
        /\ row.timestamp = other.timestamp /\ row.previous_hash = other.previous_hash
        /\ row.event_hash = other.event_hash
    BY DEF SameRecord, VerifiedColumns, FrozenColumns
  <1> QED
    BY <1>1 DEF Verification!CommitsTo, Verification!ContentHash, Verification!compute_event_hash

\* Companions come behind what they are about, which is marked.
Follow(rows) ==
    \A c, id \in DOMAIN rows :
      Verification!CommitsTo(rows[c], id) => (id < c /\ Marked(rows[id]))

\* The last companion of a record is found in log where it is in rows, when
\* the records behind that one are the same in both.
LEMMA SameCommitment ==
  ASSUME NEW rows, NEW log, DOMAIN log = DOMAIN rows, DOMAIN rows \subseteq Nat, Follow(rows),
         NEW j \in DOMAIN rows, \A k \in DOMAIN rows : j < k => SameRecord(log[k], rows[k]),
         NEW hash \in Verification!LatestCommitment(rows, j),
         NEW other \in Verification!LatestCommitment(log, j)
  PROVE  other = hash
  <1>1. PICK c \in DOMAIN rows :
          /\ hash = rows[c].payload["redactedContentHash"] /\ Verification!CommitsTo(rows[c], j)
          /\ \A i \in DOMAIN rows : Verification!CommitsTo(rows[i], j) => i <= c
    BY DEF Verification!LatestCommitment
  <1>2. PICK d \in DOMAIN log :
          /\ other = log[d].payload["redactedContentHash"] /\ Verification!CommitsTo(log[d], j)
          /\ \A i \in DOMAIN log : Verification!CommitsTo(log[i], j) => i <= d
    BY DEF Verification!LatestCommitment
  <1>3. j < c
    BY <1>1 DEF Follow
  <1>4. log[c].payload = rows[c].payload /\ Verification!CommitsTo(log[c], j)
    BY <1>1, <1>3, SameVouching
  <1>5. c <= d /\ j < d
    BY <1>2, <1>3, <1>4
  <1>6. Verification!CommitsTo(rows[d], j)
    BY <1>2, <1>5, SameVouching
  <1>7. d <= c
    BY <1>1, <1>2, <1>6
  <1>8. c = d
    BY <1>5, <1>7
  <1> QED
    BY <1>1, <1>2, <1>4, <1>8

\* When two tables with the same ids are both intact, agree on the hash of the
\* last record and on what is redacted, they agree on every record: from the
\* end, each link names the hash of the record before, and that hash, or the
\* commitment behind it, the record's content.
LEMMA IntactTablesAgree ==
  ASSUME NEW rows, NEW log, NEW n \in Nat, DOMAIN rows \subseteq 1..n, DOMAIN log = DOMAIN rows,
         Verification!Violating(rows) = {}, Verification!Violating(log) = {}, Follow(rows),
         \A id \in DOMAIN rows :
           /\ (\A j \in DOMAIN rows : j <= id) => (log[id].event_hash = rows[id].event_hash)
           /\ Marked(rows[id]) => Marked(log[id])
           /\ Marked(log[id]) => (Marked(rows[id]) \/ SameRecord(log[id], rows[id])),
         NEW id \in DOMAIN rows
  PROVE  SameRecord(log[id], rows[id])
  <1> DEFINE D == {i \in DOMAIN rows : ~SameRecord(log[i], rows[i])}
  <1> SUFFICES ASSUME D # {} PROVE FALSE
    OBVIOUS
  <1>1. PICK j \in D : \A i \in D : i <= j
    <2>1. D \subseteq 0..n
      OBVIOUS
    <2> QED
      BY <2>1, GreatestId
  <1>2. \A k \in DOMAIN rows : j < k => SameRecord(log[k], rows[k])
    BY <1>1
  <1>3. log[j].event_hash = rows[j].event_hash
    <2>1. CASE \A k \in DOMAIN rows : k <= j
      BY <2>1
    <2>2. CASE \E l \in DOMAIN rows : j < l
      <3>1. PICK s \in DOMAIN rows : j < s /\ \A k \in DOMAIN rows : k <= j \/ s <= k
        BY <2>2, NextId
      <3>2. /\ Verification!ExpectedPreviousHash(rows, s) = rows[j].event_hash
            /\ Verification!ExpectedPreviousHash(log, s) = log[j].event_hash
        BY <3>1, ExpectedLink
      <3>3. log[s].previous_hash = rows[s].previous_hash
        BY <1>2, <3>1 DEF SameRecord, VerifiedColumns, FrozenColumns
      <3> QED
        BY <3>2, <3>3, IntactRecord
    <2> QED
      BY <2>1, <2>2
  <1>4. Verification!ContentHash(log[j]) = Verification!ContentHash(rows[j])
    <2>1. CASE Marked(rows[j])
      <3>1. Marked(log[j])
        BY <2>1
      <3>2. /\ Verification!ContentHash(rows[j]) \in Verification!LatestCommitment(rows, j)
            /\ Verification!ContentHash(log[j]) \in Verification!LatestCommitment(log, j)
        BY <2>1, <3>1, IntactRecord
      <3> QED
        BY <1>2, <3>2, SameCommitment
    <2>2. CASE ~Marked(rows[j])
      <3>1. ~Marked(log[j])
        BY <1>1, <2>2
      <3> QED
        BY <1>3, <2>2, <3>1, IntactRecord
    <2> QED
      BY <2>1, <2>2
  <1> QED
    BY <1>1, <1>3, <1>4, SameHashes

\* So a change shows, unless it reaches to the end of the log.
LEMMA ChangesShow ==
  ASSUME NEW rows, NEW log, NEW n \in Nat, DOMAIN rows \subseteq 1..n, Follow(rows),
         Verification!Violating(rows) = {}, ChangedDirectly(rows, log)
  PROVE  Verification!Violating(log) # {}
  <1> SUFFICES ASSUME Verification!Violating(log) = {} PROVE FALSE
    OBVIOUS
  <1>1. \A id \in DOMAIN rows : SameRecord(log[id], rows[id])
    BY IntactTablesAgree DEF ChangedDirectly
  <1>2. PICK id \in DOMAIN rows : Marked(log[id]) /\ ~Marked(rows[id])
    BY <1>1 DEF ChangedDirectly
  <1>3. PICK c \in DOMAIN log : Verification!CommitsTo(log[c], id)
    BY <1>2, IntactRecord DEF ChangedDirectly, Verification!LatestCommitment
  <1>4. Verification!CommitsTo(rows[c], id)
    BY <1>1, <1>3, SameVouching DEF ChangedDirectly
  <1> QED
    BY <1>2, <1>3, <1>4 DEF ChangedDirectly, Follow

\* A deletion shows at the record behind it, which points to what is gone.
LEMMA DeletionsShow ==
  ASSUME NEW rows, NEW log, NEW n \in Nat, DOMAIN rows \subseteq 1..n,
         Verification!Violating(rows) = {}, DeletedDirectly(rows, log),
         \A i, j \in DOMAIN rows : rows[i].event_hash = rows[j].event_hash => i = j,
         \A i \in DOMAIN rows : rows[i].event_hash # Verification!GENESIS_HASH
  PROVE  Verification!Violating(log) # {}
  <1> SUFFICES ASSUME Verification!Violating(log) = {} PROVE FALSE
    OBVIOUS
  <1> DEFINE D == DOMAIN rows \ DOMAIN log
  <1>1. PICK j \in D : \A i \in D : i <= j
    <2>1. D # {} /\ D \subseteq 0..n
      BY DEF DeletedDirectly
    <2> QED
      BY <2>1, GreatestId
  <1>2. PICK l \in DOMAIN log : j < l
    BY <1>1 DEF DeletedDirectly
  <1>3. DOMAIN log \subseteq DOMAIN rows /\ DOMAIN rows \subseteq Nat
    BY DEF DeletedDirectly
  <1>4. PICK s \in DOMAIN rows : j < s /\ \A k \in DOMAIN rows : k <= j \/ s <= k
    BY <1>1, <1>2, <1>3, NextId
  <1>5. s \in DOMAIN log /\ log[s] = rows[s]
    <2>1. s \notin D
      BY <1>1, <1>3, <1>4
    <2> QED
      BY <1>4, <2>1 DEF DeletedDirectly
  <1>6. rows[s].previous_hash = rows[j].event_hash
    BY <1>1, <1>3, <1>4, ExpectedLink, IntactRecord
  <1>7. Verification!ExpectedPreviousHash(log, s) = rows[j].event_hash
    BY <1>5, <1>6, IntactRecord
  <1> DEFINE before == {k \in DOMAIN log : k < s}
  <1>8. CASE before = {}
    BY <1>1, <1>7, <1>8 DEF Verification!ExpectedPreviousHash
  <1>9. CASE before # {}
    <2> DEFINE p == CHOOSE i \in before : \A k \in before : k <= i
    <2>1. p \in before
      <3>1. before \subseteq 0..n
        BY <1>3
      <3>2. \E i \in before : \A k \in before : k <= i
        BY <1>9, <3>1, GreatestId
      <3> QED
        BY <3>2
    <2>2. log[p].event_hash = rows[j].event_hash
      BY <1>7, <1>9 DEF Verification!ExpectedPreviousHash
    <2>3. p \in DOMAIN rows /\ log[p] = rows[p]
      BY <1>3, <2>1 DEF DeletedDirectly
    <2> HIDE DEF p
    <2>4. p = j
      BY <1>1, <2>2, <2>3
    <2> QED
      BY <1>1, <2>1, <2>4
  <1> QED
    BY <1>8, <1>9

\* In every state, whatever happened before: if verification finds the log
\* intact, and every commitment in it comes after the record it is about and
\* after its redaction, then verification finds every direct change that
\* leaves the hash of the last record alone, however many records it concerns
\* and whatever they are changed to; and every deletion in front of the last
\* record.
THEOREM EveryDirectChangeIsFound ==
  RedSpec => []((Verification!Violating(events) = {} /\ CompanionsFollow) =>
                  \A log : (ChangedDirectly(events, log) \/ DeletedDirectly(events, log))
                             => Verification!Violating(log) # {})
  <1> DEFINE Found == (Verification!Violating(events) = {} /\ CompanionsFollow) =>
                        \A log : (ChangedDirectly(events, log) \/ DeletedDirectly(events, log))
                                   => Verification!Violating(log) # {}
  <1>1. ASSUME RedIInv, RedTypeOK PROVE Found
    <2> SUFFICES ASSUME Verification!Violating(events) = {}, CompanionsFollow, NEW log,
                        ChangedDirectly(events, log) \/ DeletedDirectly(events, log)
                 PROVE  Verification!Violating(log) # {}
      OBVIOUS
    <2>1. MaxId \in Nat /\ DOMAIN events \subseteq 1..MaxId
      BY <1>1, BoundsAssumption DEF RedTypeOK
    <2>2. Follow(events)
      BY DEF Follow, CompanionsFollow
    <2>3. /\ \A i, j \in DOMAIN events : events[i].event_hash = events[j].event_hash => i = j
          /\ \A i \in DOMAIN events : events[i].event_hash # Verification!GENESIS_HASH
      <3>1. ASSUME NEW i \in DOMAIN events PROVE events[i].event_hash # Verification!GENESIS_HASH
        <4>1. RowInv(events[i])
          BY <1>1 DEF RedIInv, RecordsInv
        <4>2. PICK document : events[i].event_hash = <<"sha256", document>>
          BY <4>1 DEF RowInv, compute_event_hash, Sha256
        <4>3. <<"sha256", document>> # <<"zeros">>
          OBVIOUS
        <4> QED
          BY <4>2, <4>3 DEF Verification!GENESIS_HASH
      <3> QED
        BY <1>1, <3>1 DEF RedIInv, RecordsInv, IdInv
    <2>4. CASE ChangedDirectly(events, log)
      BY <2>1, <2>2, <2>4, ChangesShow
    <2>5. CASE DeletedDirectly(events, log)
      BY <2>1, <2>3, <2>5, DeletionsShow
    <2> QED
      BY <2>4, <2>5
  <1> HIDE DEF Found
  <1>2. RedSpec => []Found
    BY <1>1, RedInvariance, RedTypeCorrect, PTL
  <1> QED
    BY <1>2 DEF Found

\* In particular those that TLC tries.
THEOREM DirectChangesFound == RedSpec => []DirectChangesAreFound
  <1> DEFINE Found == (Verification!Violating(events) = {} /\ CompanionsFollow) =>
                        \A log : (ChangedDirectly(events, log) \/ DeletedDirectly(events, log))
                                   => Verification!Violating(log) # {}
  <1>1. Found => DirectChangesAreFound
    BY DEF DirectChangesAreFound
  <1>2. RedSpec => []Found
    BY EveryDirectChangeIsFound
  <1> HIDE DEF Found
  <1> QED
    BY <1>1, <1>2, PTL

-----------------------------------------------------------------------------
(* When commitments follow.                                                *)

\* No client posts an event of the companions' type.
NoPostedCompanions == \A body \in Bodies : ~IsCompanion(body)

\* Behind CompanionsFollow: a companion is appended when its record is marked.
FollowInv ==
    /\ \A w \in Workers : HalfDone(w) => Marked(events[red[w].target])
    /\ \A c \in DOMAIN events : IsCompanion(events[c]) =>
         LET target == Original(c).payload["targetEventId"]
         IN  target \in DOMAIN events /\ target < c /\ Marked(events[target])

\* A redaction is half done once its target is rewritten.
LEMMA RewrittenBefore ==
  ASSUME RedIInv, [RedNext]_redVars, NEW w \in Workers, HalfDone(w)'
  PROVE  \/ HalfDone(w) /\ red'[w] = red[w]
         \/ RewriteTarget(w) /\ UNCHANGED red
  <1> USE DEF Goto
  <1>0. /\ pc \in [Workers -> RedPcValues] /\ red = [u \in Workers |-> red[u]]
        /\ ServingInv(w) /\ RequestInv(w)
    BY DEF RedIInv, SessionInv
  <1>1. ASSUME NEW v \in Workers, StepBy(v), v # w PROVE HalfDone(w) /\ red'[w] = red[w]
    BY <1>1, OthersStay DEF HalfDone, Serving
  <1>2. CASE StepBy(w)
    <2>1. ~ BeginAppend(w)
      BY <1>0 DEF BeginAppend, Begin, ServingInv, HalfDone, Serving
    <2>2. ~ (BeginRedaction(w) \/ RedactionRefused(w) \/ ReadTarget(w) \/ CompanionRejected(w)
             \/ RespondToRedaction(w) \/ RespondToAppend(w) \/ CommitAppend(w))
      BY <1>0 DEF BeginRedaction, RedactionRefused, ReadTarget, CompanionRejected,
        RespondToRedaction, RespondToAppend, Respond, CommitAppend, Commit, HalfDone
    <2>3. ~ (CloseRequest(w) \/ AbortRequest(w))
      BY <1>0 DEF CloseRequest, CloseSession, AbortRequest, Abort, Rollback, HalfDone
    <2>4. CASE RewriteTarget(w)
      BY <2>4 DEF RewriteTarget
    <2>5. CASE BuildCompanion(w)
      BY <1>0, <2>5 DEF BuildCompanion, HalfDone, Serving
    <2>6. CASE AppendStep(w)
      <3>1. UNCHANGED red /\ Serving(w)
        BY <2>6 DEF AppendStep, HalfDone, Serving
      <3>2. pc[w] \in {"lock", "lookup", "compute", "insert", "record"}
        BY <2>6 DEF AppendStep, LockForAppend, KeyUnused, Replay, Conflict,
          ComputeEvent, InsertEvent, RecordIdempotencyKey
      <3> QED
        BY <1>0, <3>1, <3>2 DEF ServingInv, HalfDone
    <2> QED
      BY <1>2, <2>1, <2>2, <2>3, <2>4, <2>5, <2>6 DEF StepBy, RequestStep
  <1>3. CASE ApplyRetention \/ PassTime \/ UNCHANGED redVars
    BY <1>3, AllStay DEF HalfDone, Serving
  <1> QED
    BY <1>1, <1>2, <1>3 DEF RedNext, StepBy

\* Every step keeps companions behind what they are about.
LEMMA FollowStep ==
  ASSUME NoPostedCompanions, RedIInv, FollowInv, [RedNext]_redVars
  PROVE  FollowInv'
  <1>1. ASSUME NEW w \in Workers, HalfDone(w)' PROVE Marked(events'[red'[w].target])
    <2>1. CASE HalfDone(w) /\ red'[w] = red[w]
      <3>1. red[w].target \in DOMAIN events /\ Marked(events[red[w].target])
        BY <2>1 DEF FollowInv, HalfDone, RedIInv, SessionInv, ServingInv, PastRead, SeenInv
      <3> QED
        BY <2>1, <3>1, RecordsKept
    <2>2. CASE RewriteTarget(w) /\ UNCHANGED red
      <3>1. PICK t, n : /\ t = red[w].target
                        /\ n = RedactedRow(events[t], red[w].seen, red[w].fields, red[w].now)
        OBVIOUS
      <3>2. t \in DOMAIN events /\ events'[t] = n
        BY <2>2, <3>1, RewrittenRows
      <3>3. DOMAIN events[t] = Columns /\ red[w].now \in 0..MaxTime
        BY <2>2, <3>2 DEF RewriteTarget, RedIInv, RecordsInv, RowInv, SessionInv, ServingInv
      <3>4. n.redacted_at = red[w].now
        BY <3>1, <3>3, RedactedColumns
      <3> QED
        BY <2>2, <3>1, <3>2, <3>3, <3>4, NullTimeAssumption, BoundsAssumption DEF Marked
    <2> QED
      BY <1>1, <2>1, <2>2, RewrittenBefore
  <1>2. ASSUME NEW c \in DOMAIN events, IsCompanion(events'[c]), NEW target,
               target = Original(c)'.payload["targetEventId"]
        PROVE  target \in DOMAIN events' /\ target < c /\ Marked(events'[target])
    <2>1. IsCompanion(events[c]) /\ target = Original(c).payload["targetEventId"]
      BY <1>2, RecordsKept DEF IsCompanion
    <2>2. target \in DOMAIN events /\ target < c /\ Marked(events[target])
      BY <2>1 DEF FollowInv
    <2> QED
      BY <2>2, RecordsKept
  <1>3. ASSUME NEW w \in Workers, CommitAppend(w), IsCompanion(staged[w])
        PROVE  LET target == FirstContent(staged[w]).payload["targetEventId"]
               IN  target \in DOMAIN events /\ Marked(events[target])
    <2>1. pc[w] = "commit"
      BY <1>3 DEF CommitAppend, Commit
    <2>2. /\ IsCompanion(req[w].event_in)
          /\ FirstContent(staged[w]).payload = req[w].event_in.payload
      BY <1>3, CommittedRow DEF IsCompanion
    <2>3. Serving(w) /\ req[w].event_in = Companion(red[w])
      BY <2>1, <2>2 DEF RedIInv, SessionInv, RequestInv, UnderLock, NoPostedCompanions
    <2>4. HalfDone(w) /\ red[w].target \in DOMAIN events
      BY <2>1, <2>3 DEF HalfDone, RedIInv, SessionInv, ServingInv, PastRead, SeenInv
    <2> QED
      BY <2>2, <2>3, <2>4, CompanionSays DEF FollowInv
  <1>4. ASSUME NEW c \in DOMAIN events', c \notin DOMAIN events, IsCompanion(events'[c]), NEW target,
               target = Original(c)'.payload["targetEventId"]
        PROVE  target \in DOMAIN events' /\ target < c /\ Marked(events'[target])
    <2>1. PICK w \in Workers : CommitAppend(w)
      BY <1>4, RowsChangedBy, RewrittenRows, ArchivedRows
    <2>2. c = result[w] /\ events'[c] = staged[w] /\ \A j \in DOMAIN events : j < c
      BY <1>4, <2>1, CommittedRows
    <2>3. target = FirstContent(staged[w]).payload["targetEventId"]
      BY <1>4, <2>2 DEF Original, FirstContent
    <2>4. target \in DOMAIN events /\ Marked(events[target])
      BY <1>3, <1>4, <2>1, <2>2, <2>3
    <2> QED
      BY <2>2, <2>4, RecordsKept
  <1> QED
    BY <1>1, <1>2, <1>4 DEF FollowInv, IsCompanion, Marked

\* Unless clients post events of the companions' type, every commitment comes
\* after the redaction it is about, however many redactions overlap and
\* whatever they aim at: so only such an event can vouch for a later change.
THEOREM CommitmentsFollow ==
  ASSUME NoPostedCompanions
  PROVE  RedSpec => []CompanionsFollow
  <1>1. RedInit => FollowInv
    BY DEF RedInit, Init, FollowInv, HalfDone
  <1>2. RedIInv /\ FollowInv /\ [RedNext]_redVars => FollowInv'
    BY FollowStep
  <1>3. RedIInv /\ FollowInv => CompanionsFollow
    BY CommitsAsCreated DEF FollowInv, CompanionsFollow, IsAbout, IsCompanion
  <1> QED
    BY <1>1, <1>2, <1>3, RedInvariance, PTL DEF RedSpec

=============================================================================
