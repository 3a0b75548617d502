------------------------- MODULE MCRequestPipeline -------------------------
(***************************************************************************)
(* Values for the constants of RequestPipeline that a cfg cannot write     *)
(* down.                                                                   *)
(***************************************************************************)
EXTENDS RequestPipeline

With(key, service, users) == [secret_key |-> key, service |-> service, auth_users |-> users]

MCAdmin  == [ann |-> [role |-> "ADMIN",  tenant_id |-> "t1"]]
MCReader == [ann |-> [role |-> "READER", tenant_id |-> NULL]]

\* An admin, made a reader without tenant, removed; the service renamed; the
\* key replaced by another and by a weak one.
MCConfigs == {With("key1", "svc1", MCAdmin), With("key1", "svc1", MCReader),
              With("key1", "svc1", <<>>), With("key1", "svc2", MCReader),
              With("key2", "svc1", MCReader), With("weak", "svc1", MCAdmin)}
=============================================================================
