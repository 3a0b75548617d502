------------------------- MODULE ChainVerification -------------------------
(***************************************************************************)
(* app/services/chain_verification_service.py: what GET /audit/verify      *)
(* answers about a set of committed rows.  verify_chain reads them with    *)
(* one SELECT, so a row set (a function from id to row, log below) is all  *)
(* it ever sees; the walk in id order is stated by what it decides at each *)
(* row and where it stops.                                                 *)
(***************************************************************************)
EXTENDS Integers, FiniteSets, Hashing

CONSTANT NULL   \* SQL NULL, Python None

REDACTION_EVENT_TYPE == "AUDIT_EVENT_REDACTED"

\* _content_hash: the hash of the row as it is stored now.
ContentHash(row) ==
    compute_event_hash(row.tenant_id, row, row.timestamp, row.previous_hash)

\* A companion event counts only while it is itself internally consistent.
CommitsTo(row, target) ==
    /\ row.event_type = REDACTION_EVENT_TYPE
    /\ ContentHash(row) = row.event_hash
    /\ {"targetEventId", "redactedContentHash"} \subseteq DOMAIN row.payload
    /\ row.payload["targetEventId"] = target

\* _latest_redaction_commitments: the commitment of the last companion of
\* target, as a set with at most one element.
LatestCommitment(log, target) ==
    {log[c].payload["redactedContentHash"] :
       c \in {i \in DOMAIN log : /\ CommitsTo(log[i], target)
                                 /\ \A j \in DOMAIN log : CommitsTo(log[j], target) => j <= i}}

\* Mutant: a redacted row is fine if anything was committed to.
ContentVerdictOfAnyCommitment(log, id) ==
    LET row == log[id]
    IN  CASE row.redacted_at = NULL /\ ContentHash(row) # row.event_hash -> "EVENT_HASH_MISMATCH"
          [] row.redacted_at # NULL /\ LatestCommitment(log, id) = {} -> "REDACTION_COMMITMENT_MISSING"
          [] OTHER -> "ok"

\* Step 1 of the walk at row id.
ContentVerdict(log, id) ==
    LET row == log[id]
        commitment == LatestCommitment(log, id)
    IN  CASE row.redacted_at = NULL /\ ContentHash(row) # row.event_hash -> "EVENT_HASH_MISMATCH"
          [] row.redacted_at # NULL /\ commitment = {} -> "REDACTION_COMMITMENT_MISSING"
          [] row.redacted_at # NULL /\ commitment # {} /\ ContentHash(row) \notin commitment
               -> "REDACTED_CONTENT_MISMATCH"
          [] OTHER -> "ok"

\* expected_previous_hash when the walk reaches row id.
ExpectedPreviousHash(log, id) ==
    LET before == {j \in DOMAIN log : j < id}
    IN  IF before = {} THEN GENESIS_HASH
        ELSE log[CHOOSE j \in before : \A k \in before : k <= j].event_hash

\* Steps 1 and 2 at row id: the first check that fails names the violation.
Verdict(log, id) ==
    LET content == ContentVerdict(log, id)
    IN  IF content # "ok" THEN content
        ELSE IF log[id].previous_hash # ExpectedPreviousHash(log, id) THEN "PREVIOUS_HASH_MISMATCH"
        ELSE "ok"

Violating(log) == {id \in DOMAIN log : Verdict(log, id) # "ok"}

\* verify_chain: the walk stops at the first violating row.
verify_chain(log) ==
    LET violating == Violating(log)
        first     == CHOOSE id \in violating : \A j \in violating : id <= j
    IN  IF violating = {}
        THEN [intact |-> TRUE, records_checked |-> Cardinality(DOMAIN log),
              record_id |-> NULL, violation_type |-> NULL]
        ELSE [intact |-> FALSE,
              records_checked |-> Cardinality({j \in DOMAIN log : j <= first}),
              record_id |-> first, violation_type |-> Verdict(log, first)]
=============================================================================
