------------------------------ MODULE Hashing ------------------------------
(***************************************************************************)
(* The hashing helpers of app/services/hashing.py.                         *)
(*                                                                         *)
(* SHA-256 over canonical JSON is symbolic: the digest of a document is a  *)
(* tagged copy of the document, so two digests are equal exactly when the  *)
(* documents are (collision freedom is the one idealisation).  A JSON      *)
(* object is a TLA+ record or function, which has no key order: that is    *)
(* what canonicalize() (sort_keys=True, fixed separators) achieves.  An    *)
(* object keeps every field the code puts in it, and no other.             *)
(*                                                                         *)
(* An event's content, event_in, is a record [event_type, subject,         *)
(* payload]; subject stands for the triple (actor_id, resource_type,       *)
(* resource_id), which the code only ever copies and hashes together.      *)
(***************************************************************************)

Sha256(document) == <<"sha256", document>>

\* The previous_hash of the first record: no digest of any document.
GENESIS_HASH == <<"zeros">>

compute_event_hash(tenant_id, event_in, timestamp, previous_hash) ==
    Sha256([tenant_id     |-> tenant_id,
            event_type    |-> event_in.event_type,
            subject       |-> event_in.subject,
            payload       |-> event_in.payload,
            timestamp     |-> timestamp,
            previous_hash |-> previous_hash])

\* What the caller controls in a request, or in the row made from it (a row
\* has the fields of event_in).  Server-generated fields (timestamp,
\* previous_hash) are left out, so that a retry has the same fingerprint.
RequestContent(tenant_id, event_in) ==
    [tenant_id  |-> tenant_id,
     event_type |-> event_in.event_type,
     subject    |-> event_in.subject,
     payload    |-> event_in.payload]

compute_request_fingerprint(tenant_id, event_in) ==
    Sha256(RequestContent(tenant_id, event_in))

hash_field_value(value) == Sha256([value |-> value])

\* The document under a digest.  Not computable by the program: only the
\* properties use it, to speak of the content a record was created with.
Hashed(digest) == digest[2]
=============================================================================
