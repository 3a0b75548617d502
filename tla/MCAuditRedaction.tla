------------------------- MODULE MCAuditRedaction -------------------------
(***************************************************************************)
(* Values for the constants of AuditRedaction that a cfg cannot write down.*)
(***************************************************************************)
EXTENDS AuditRedaction

\* A request with two payload fields.
MCBody == [event_type |-> "type", subject |-> <<"app", "doc", 0>>,
           payload |-> [a |-> "x", b |-> "y"]]

\* An event of the companions' type, posted by a client: it vouches for a
\* first record of that content, of time 0.
MCPosted == [event_type |-> Verification!REDACTION_EVENT_TYPE,
             subject    |-> <<"app", "AUDIT_EVENT", 1>>,
             payload    |-> [targetEventId       |-> 1,
                             redactedContentHash |-> compute_event_hash("t", MCBody, 0, GENESIS_HASH)]]

MCBodies      == {MCBody}
MCMixedBodies == {MCBody, MCPosted}

MCTenantOf == [u \in Users |-> "t"]

\* One field, or both: a second redaction may overlap the first.
MCFields == {{"a"}, {"a", "b"}}

\* Two redactions that share no field.
MCDisjointFields == {{"a"}, {"b"}}

\* One field of the ordinary events, or all, and one of the companions.
MCMixedFields == {{"a"}, {"a", "b", "redactedContentHash"}}

\* A field of the ordinary events, and one of the companions.
MCCompanionFields == {{"a"}, {"reason"}}

\* To keep redact_safety small: keys without redactions that fail half way or
\* events posted as companions, and rejected companions without posted ones.
UsesKeys == idem # {} \/ \E w \in Workers : req[w] # NULL /\ req[w].key # NULL
RejectsCompanion == \E w \in Workers : red[w].reason = "overlong"
PostsCompanion ==
    \/ \E id \in DOMAIN events : /\ events[id].event_type = Verification!REDACTION_EVENT_TYPE
                                 /\ origin[id].username # NULL
    \/ \E w \in Workers : req[w] # NULL /\ req[w].username # NULL /\ req[w].event_in = MCPosted

FewAtATime ==
    /\ UsesKeys => ~(RejectsCompanion \/ interrupted # {} \/ PostsCompanion)
    /\ RejectsCompanion => ~PostsCompanion
=============================================================================
