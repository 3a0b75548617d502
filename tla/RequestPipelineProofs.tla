----------------------- MODULE RequestPipelineProofs -----------------------
(***************************************************************************)
(* Proofs about the request pipeline, for any number of requests, users,   *)
(* configurations and restarts: whose id a request's lines and answer      *)
(* carry, who pays for a limited endpoint, where rights come from, and     *)
(* which lines an answer leaves.                                           *)
(***************************************************************************)
EXTENDS RequestPipeline, SequenceTheorems, TLAPS

-----------------------------------------------------------------------------
(* The inductive invariant, for each request and for the process.          *)

\* The events a request may leave a line for.
Events == {"export.performed", "compliance.report_accessed", "retention.applied",
           "redaction.applied", "auth.login.success", "auth.login.failure", "authz.denied",
           "chain.verification_failed", "unhandled_exception"}

InMiddleware == {"size", "token", "role", "limit", "parameters", "handler", "response"}

\* Each variable of the requests is a function of them.
PlaceInv ==
    /\ pc \in [Tasks -> InMiddleware \cup {"idle", "unwound", "answered"}]
    /\ req = [t \in Tasks |-> req[t]] /\ state_id = [t \in Tasks |-> state_id[t]]
    /\ context = [t \in Tasks |-> context[t]] /\ user = [t \in Tasks |-> user[t]]
    /\ charged \in [Tasks -> BOOLEAN] /\ lines = [t \in Tasks |-> lines[t]]
    /\ answer = [t \in Tasks |-> answer[t]]

\* The id is in the request's state while the request lasts, and in its
\* context until the middleware is left; every line carries it.
IdInv(t) ==
    /\ (pc[t] \in InMiddleware) => (context[t] = req[t].id)
    /\ (pc[t] # "idle") => (state_id[t] = req[t].id)
    /\ lines[t] \in Seq([event : Events, id : {req[t].id}])
    /\ (pc[t] = "idle") => (lines[t] = <<>>)
    /\ (answer[t] # NULL) => (pc[t] = "answered" /\ answer[t].id = req[t].id)

\* A request is charged between the limiter and its answer, when its endpoint
\* is limited, and only then.
ChargeInv(t) ==
    /\ charged[t] => /\ IsLimited(req[t].endpoint)
                     /\ pc[t] \in {"parameters", "handler", "response", "unwound", "answered"}
    /\ (pc[t] \in {"parameters", "handler", "response", "unwound"} /\ IsLimited(req[t].endpoint))
         => charged[t]
    /\ (pc[t] = "limit") => IsLimited(req[t].endpoint)
    /\ (answer[t] # NULL) => (pc[t] = "answered")
    /\ (answer[t] # NULL /\ IsLimited(req[t].endpoint)) =>
         /\ (answer[t].status \in {200, 500, 422}) => charged[t]
         /\ charged[t] => /\ answer[t].status \notin {403, 413, 429}
                          /\ (answer[t].status = 401) => (req[t].endpoint = "login")

\* Run k was configured with these rights, in a process that would still
\* accept a token of it.
Configured(k, sub, role, tenant_id, secret_key, service) ==
    /\ runs[k].settings.secret_key = secret_key
    /\ runs[k].settings.service = service
    /\ sub \in DOMAIN runs[k].settings.auth_users
    /\ runs[k].settings.auth_users[sub].role = role
    /\ runs[k].settings.auth_users[sub].tenant_id = tenant_id

ProcessInv ==
    /\ clock \in Nat
    /\ runs \in Seq([settings : Configs, from : Nat, until : Nat \cup {NULL}])
    /\ ~IsUp => \A t \in Tasks : pc[t] = "idle"

\* A token repeats what the run that issued it was configured with, and does
\* not outlive that run by more than ExpireTime.
TokenInv ==
    \A token \in tokens :
      /\ token.exp \in Nat /\ token.exp <= clock + ExpireTime
      /\ \E k \in DOMAIN runs :
           /\ Configured(k, token.sub, token.role, token.tenantId, token.secret_key, token.service)
           /\ (runs[k].until # NULL) => (token.exp <= runs[k].until + ExpireTime)

UserInv ==
    /\ \A t \in Tasks : (pc[t] = "idle") => (user[t] = NULL)
    /\ RightsWereConfigured

PipelineInv ==
    /\ PlaceInv /\ ProcessInv /\ TokenInv /\ UserInv
    /\ \A t \in Tasks : IdInv(t) /\ ChargeInv(t)

-----------------------------------------------------------------------------
(* Log lines.                                                              *)

\* What Log adds to a request's lines are lines with the id of its context.
LEMMA LogAdds ==
  ASSUME NEW id, NEW old \in Seq([event : Events, id : {id}]), NEW events \in Seq(Events)
  PROVE  old \o [i \in DOMAIN events |-> [event |-> events[i], id |-> id]]
           \in Seq([event : Events, id : {id}])
  <1> DEFINE S == [event : Events, id : {id}]
             new == [i \in DOMAIN events |-> [event |-> events[i], id |-> id]]
  <1>1. DOMAIN events = 1..Len(events) /\ Len(events) \in Nat
    OBVIOUS
  <1>2. \A i \in DOMAIN events : events[i] \in Events
    BY <1>1
  <1>3. new \in [1..Len(events) -> S]
    BY <1>1, <1>2
  <1>4. new \in Seq(S)
    BY <1>1, <1>3, SeqDef
  <1> HIDE DEF new, S
  <1>5. old \o new \in Seq(S)
    BY <1>4, ConcatProperties DEF S
  <1> QED
    BY <1>5 DEF new, S

\* One element is a sequence.
LEMMA OneElement == ASSUME NEW S, NEW e \in S PROVE <<e>> \in Seq(S)
  OBVIOUS

\* The line a handler may write.
LEMMA SuccessLines ==
  ASSUME NEW endpoint
  PROVE  SuccessLine(endpoint) \in Seq(Events)
  <1>1. SuccessLine(endpoint) \in
          {<<"export.performed">>, <<"compliance.report_accessed">>, <<"retention.applied">>,
           <<"redaction.applied">>, <<"auth.login.success">>, <<>>}
    BY DEF SuccessLine
  <1>2. \A event \in Events : <<event>> \in Seq(Events)
    BY OneElement
  <1>3. <<>> \in Seq(Events)
    BY EmptySeq
  <1> QED
    BY <1>1, <1>2, <1>3 DEF Events

-----------------------------------------------------------------------------
\* Nothing has been issued, and nobody is served.
LEMMA Initially == Init => PipelineInv
  <1> SUFFICES ASSUME Init PROVE PipelineInv
    OBVIOUS
  <1> USE DEF Init, Nobody
  <1>1. PlaceInv
    BY DEF PlaceInv
  <1>2. ProcessInv /\ TokenInv
    BY EmptySeq DEF ProcessInv, TokenInv
  <1>3. UserInv
    BY DEF UserInv, RightsWereConfigured
  <1>4. \A t \in Tasks : IdInv(t) /\ ChargeInv(t)
    BY EmptySeq DEF IdInv, ChargeInv, InMiddleware
  <1> QED
    BY <1>1, <1>2, <1>3, <1>4 DEF PipelineInv
-----------------------------------------------------------------------------
(* What a step of one request leaves alone.                                *)

\* A step that changes nothing of the process keeps what is said of it.
LEMMA SameProcess ==
  ASSUME PipelineInv, NEW t \in Tasks, pc[t] # "idle", shared' = shared,
         \A u \in Tasks \ {t} : pc'[u] = pc[u]
  PROVE  ProcessInv' /\ TokenInv'
  <1>1. ProcessInv'
    BY DEF PipelineInv, ProcessInv, IsUp, shared
  <1>2. TokenInv'
    BY DEF PipelineInv, TokenInv, Configured, shared
  <1> QED
    BY <1>1, <1>2

\* Nor does it touch the rights of others.
LEMMA SameUsers ==
  ASSUME PipelineInv, NEW t \in Tasks, UNCHANGED <<runs, user>>,
         \A u \in Tasks \ {t} : pc'[u] = pc[u], pc'[t] # "idle"
  PROVE  UserInv'
  BY DEF PipelineInv, UserInv, RightsWereConfigured, settings

\* What is said of a request depends on its own variables only.
LEMMA OtherRequests ==
  ASSUME PipelineInv, NEW u \in Tasks,
         pc'[u] = pc[u], req'[u] = req[u], state_id'[u] = state_id[u], context'[u] = context[u],
         charged'[u] = charged[u], lines'[u] = lines[u], answer'[u] = answer[u]
  PROVE  IdInv(u)' /\ ChargeInv(u)'
  <1>1. IdInv(u)'
    BY DEF PipelineInv, IdInv
  <1>2. ChargeInv(u)'
    BY DEF PipelineInv, ChargeInv
  <1> QED
    BY <1>1, <1>2

-----------------------------------------------------------------------------
(* The steps of a request.                                                 *)

\* A step of t keeps the invariant if it keeps the parts it can disturb.
LEMMA OneRequest ==
  ASSUME PipelineInv, NEW t \in Tasks,
         \A u \in Tasks \ {t} :
           /\ pc'[u] = pc[u] /\ req'[u] = req[u] /\ state_id'[u] = state_id[u]
           /\ context'[u] = context[u] /\ charged'[u] = charged[u]
           /\ lines'[u] = lines[u] /\ answer'[u] = answer[u],
         PlaceInv', ProcessInv', TokenInv', UserInv', IdInv(t)', ChargeInv(t)'
  PROVE  PipelineInv'
  <1>1. \A u \in Tasks \ {t} : IdInv(u)' /\ ChargeInv(u)'
    BY OtherRequests
  <1> QED
    BY <1>1 DEF PipelineInv

\* A request that is let through goes on with nothing changed but its place,
\* and perhaps with its charge counted.
LEMMA MoveStep ==
  ASSUME PipelineInv, NEW t \in Tasks, EnterRoute(t) \/ Authorize(t) \/ Charge(t) \/ Validate(t)
  PROVE  PipelineInv'
  <1> USE DEF EnterRoute, Authorize, Charge, Validate, Goto
  <1> DEFINE places == {"token", "limit", "parameters", "handler"}
  <1>1. PICK label \in places : pc' = [pc EXCEPT ![t] = label]
    OBVIOUS
  <1>2. UNCHANGED <<shared, req, state_id, context, user, lines, answer>> /\ pc[t] \in InMiddleware
    BY DEF InMiddleware
  <1>3. PlaceInv'
    BY <1>1, <1>2 DEF PipelineInv, PlaceInv, InMiddleware
  <1>4. pc'[t] \in places /\ (\A u \in Tasks \ {t} : pc'[u] = pc[u] /\ charged'[u] = charged[u])
    BY <1>1 DEF PipelineInv, PlaceInv
  <1>5. ProcessInv' /\ TokenInv' /\ UserInv'
    BY <1>2, <1>4, SameProcess, SameUsers DEF InMiddleware, shared
  <1>6. IdInv(t)'
    BY <1>2, <1>4 DEF PipelineInv, IdInv, InMiddleware
  <1>7. ChargeInv(t)'
    <2>1. CASE EnterRoute(t)
      <3>1. IsLimited(req[t].endpoint) => pc'[t] \in {"token", "limit"}
        BY <2>1, <1>4 DEF PipelineInv, PlaceInv, IsLimited, IsProtected
      <3> QED
        BY <2>1, <3>1, <1>2, <1>4 DEF PipelineInv, ChargeInv
    <2>2. CASE Authorize(t)
      BY <2>2, <1>2, <1>4 DEF PipelineInv, PlaceInv, ChargeInv
    <2>3. CASE Charge(t)
      <3>1. charged'[t] /\ pc'[t] = "parameters" /\ pc[t] = "limit"
        BY <2>3 DEF PipelineInv, PlaceInv
      <3>2. IsLimited(req[t].endpoint)
        BY <3>1 DEF PipelineInv, ChargeInv
      <3> QED
        BY <3>1, <3>2, <1>2 DEF PipelineInv, ChargeInv
    <2>4. CASE Validate(t)
      BY <2>4, <1>2, <1>4 DEF PipelineInv, PlaceInv, ChargeInv
    <2> QED
      BY <2>1, <2>2, <2>3, <2>4
  <1> QED
    BY <1>2, <1>3, <1>4, <1>5, <1>6, <1>7, OneRequest
\* An answer the limiter has no say in, or that is due with or without a
\* charge.
IsDue(t, status) ==
    IsLimited(req[t].endpoint) =>
      /\ (status \in {200, 500, 422}) => charged[t]
      /\ charged[t] => /\ status \notin {403, 413, 429}
                       /\ (status = 401) => (req[t].endpoint = "login")

\* A request is answered through the middleware, with lines of its own id.
LEMMA Answered ==
  ASSUME PipelineInv, NEW t \in Tasks, NEW status, pc[t] \in InMiddleware,
         Respond(t, status), IsDue(t, status), ProcessInv', TokenInv',
         UNCHANGED <<runs, req, state_id, user, charged>>,
         lines' = [u \in Tasks |-> lines'[u]], \A u \in Tasks \ {t} : lines'[u] = lines[u],
         lines'[t] \in Seq([event : Events, id : {req[t].id}])
  PROVE  PipelineInv'
  <1>1. PlaceInv'
    BY DEF PipelineInv, PlaceInv, InMiddleware, Respond, Goto
  <1>2. /\ pc'[t] = "answered" /\ answer'[t] = [status |-> status, id |-> req[t].id]
        /\ \A u \in Tasks \ {t} :
             pc'[u] = pc[u] /\ context'[u] = context[u] /\ answer'[u] = answer[u]
    BY DEF PipelineInv, PlaceInv, Respond, Goto
  <1>3. UserInv'
    BY <1>2, SameUsers
  <1>4. IdInv(t)'
    <2>1. state_id[t] = req[t].id
      BY DEF PipelineInv, IdInv, InMiddleware
    <2> QED
      BY <1>2, <2>1 DEF IdInv, InMiddleware
  <1>5. ChargeInv(t)'
    BY <1>2 DEF PipelineInv, ChargeInv, IsDue
  <1> QED
    BY <1>1, <1>2, <1>3, <1>4, <1>5, OneRequest

\* The answers that leave no line.
LEMMA SilentStep ==
  ASSUME PipelineInv, NEW t \in Tasks,
         \/ RefuseBySize(t) \/ RefuseMalformed(t) \/ RefuseToken(t) \/ RefuseByLimit(t)
         \/ RefuseParameters(t) \/ RefuseTenantlessReader(t) \/ RefuseInHandler(t)
         \/ SendResponse(t)
  PROVE  PipelineInv'
  <1> DEFINE Silently(status) == /\ Respond(t, status)
                                /\ UNCHANGED <<shared, req, state_id, user, charged, lines>>
                                /\ pc[t] \in InMiddleware
                                /\ IsDue(t, status)
  <1>1. \E status : Silently(status)
    <2> USE DEF InMiddleware, IsDue
    <2>1. CASE RefuseBySize(t)
      <3>1. Silently(413)
        BY <2>1 DEF RefuseBySize, PipelineInv, ChargeInv
      <3> QED BY <3>1
    <2>2. CASE RefuseMalformed(t)
      <3>1. Silently(422)
        BY <2>2 DEF RefuseMalformed, HasJsonBody, IsLimited
      <3> QED BY <3>1
    <2>3. CASE RefuseToken(t)
      <3>1. Silently(401)
        BY <2>3 DEF RefuseToken, PipelineInv, ChargeInv
      <3> QED BY <3>1
    <2>4. CASE RefuseByLimit(t)
      <3>1. Silently(429)
        BY <2>4 DEF RefuseByLimit, PipelineInv, ChargeInv
      <3> QED BY <3>1
    <2>5. CASE RefuseParameters(t)
      <3>1. Silently(422)
        BY <2>5 DEF RefuseParameters, PipelineInv, ChargeInv
      <3> QED BY <3>1
    <2>6. CASE RefuseTenantlessReader(t)
      <3>1. Silently(403)
        BY <2>6 DEF RefuseTenantlessReader, IsTenantlessReader, IsLimited
      <3> QED BY <3>1
    <2>7. CASE RefuseInHandler(t)
      <3>1. PICK status \in Refusals(req[t].endpoint) : Respond(t, status)
        BY <2>7 DEF RefuseInHandler
      <3>2. ~IsLimited(req[t].endpoint)
        BY <3>1 DEF Refusals, IsLimited
      <3>3. Silently(status)
        BY <2>7, <3>1, <3>2 DEF RefuseInHandler
      <3> QED BY <3>3
    <2>8. CASE SendResponse(t)
      <3>1. Silently(200)
        BY <2>8 DEF SendResponse, PipelineInv, ChargeInv
      <3> QED BY <3>1
    <2> QED
      BY <2>1, <2>2, <2>3, <2>4, <2>5, <2>6, <2>7, <2>8
  <1>2. PICK status : Silently(status)
    BY <1>1
  <1>3. /\ pc[t] # "idle" /\ \A u \in Tasks \ {t} : pc'[u] = pc[u]
    BY <1>2 DEF PipelineInv, PlaceInv, InMiddleware, Respond, Goto
  <1>4. ProcessInv' /\ TokenInv'
    BY <1>2, <1>3, SameProcess
  <1>5. /\ lines' = [u \in Tasks |-> lines'[u]]
        /\ lines'[t] \in Seq([event : Events, id : {req[t].id}])
    BY <1>2 DEF PipelineInv, PlaceInv, IdInv
  <1> QED
    BY <1>2, <1>4, <1>5, Answered DEF shared
\* Log writes lines of the request's own id, as long as it is in the
\* middleware.
LEMMA Logged ==
  ASSUME PipelineInv, NEW t \in Tasks, pc[t] \in InMiddleware,
         NEW events \in Seq(Events), Log(t, events)
  PROVE  /\ lines' = [u \in Tasks |-> lines'[u]]
         /\ \A u \in Tasks \ {t} : lines'[u] = lines[u]
         /\ lines'[t] \in Seq([event : Events, id : {req[t].id}])
  <1>1. /\ lines = [u \in Tasks |-> lines[u]] /\ context[t] = req[t].id
        /\ lines[t] \in Seq([event : Events, id : {req[t].id}])
    BY DEF PipelineInv, PlaceInv, IdInv
  <1> DEFINE added == [i \in DOMAIN events |-> [event |-> events[i], id |-> req[t].id]]
  <1>2. lines' = [lines EXCEPT ![t] = lines[t] \o added]
    BY <1>1 DEF Log
  <1>3. lines[t] \o added \in Seq([event : Events, id : {req[t].id}])
    BY <1>1, LogAdds
  <1> QED
    BY <1>1, <1>2, <1>3

\* The answers with which a denial or a failed login ends.
LEMMA LoggedRefusalStep ==
  ASSUME PipelineInv, NEW t \in Tasks, RefuseRole(t) \/ LoginFails(t)
  PROVE  PipelineInv'
  <1> DEFINE Ends(event, status) ==
        /\ event \in Events /\ Log(t, <<event>>) /\ Respond(t, status)
        /\ UNCHANGED <<shared, req, state_id, user, charged>>
        /\ pc[t] \in InMiddleware /\ IsDue(t, status)
  <1>1. \E event, status : Ends(event, status)
    <2> USE DEF InMiddleware, IsDue, Events
    <2>1. CASE RefuseRole(t)
      <3>1. Ends("authz.denied", 403)
        BY <2>1 DEF RefuseRole, PipelineInv, ChargeInv
      <3> QED BY <3>1
    <2>2. CASE LoginFails(t)
      <3>1. Ends("auth.login.failure", 401)
        BY <2>2 DEF LoginFails
      <3> QED BY <3>1
    <2> QED
      BY <2>1, <2>2
  <1>2. PICK event, status : Ends(event, status)
    BY <1>1
  <1>3. <<event>> \in Seq(Events)
    BY <1>2, OneElement
  <1>4. /\ pc[t] # "idle" /\ \A u \in Tasks \ {t} : pc'[u] = pc[u]
    BY <1>2 DEF PipelineInv, PlaceInv, InMiddleware, Respond, Goto
  <1>5. ProcessInv' /\ TokenInv'
    BY <1>2, <1>4, SameProcess
  <1> QED
    BY <1>2, <1>3, <1>5, Logged, Answered DEF shared

\* A login issues a token with the rights of the running configuration.
LEMMA LoginStep ==
  ASSUME PipelineInv, NEW t \in Tasks, Login(t)
  PROVE  PipelineInv'
  <1> USE DEF Login
  <1>1. /\ pc[t] = "handler" /\ req[t].endpoint = "login" /\ Respond(t, 200)
        /\ UNCHANGED <<runs, clock, made, req, state_id, user, charged>>
    OBVIOUS
  <1>2. \A u \in Tasks \ {t} : pc'[u] = pc[u]
    BY DEF PipelineInv, PlaceInv, Respond, Goto
  <1>3. IsUp /\ ProcessInv'
    BY <1>1, <1>2 DEF PipelineInv, ProcessInv, IsUp
  <1>4. TokenInv'
    <2>1. PICK username \in DOMAIN settings.auth_users :
             tokens' = tokens \cup {create_access_token(username)}
      OBVIOUS
    <2>2. SUFFICES ASSUME NEW token \in tokens'
                   PROVE  /\ token.exp \in Nat /\ token.exp <= clock + ExpireTime
                          /\ \E k \in DOMAIN runs :
                               /\ Configured(k, token.sub, token.role, token.tenantId,
                                             token.secret_key, token.service)
                               /\ (runs[k].until # NULL) => (token.exp <= runs[k].until + ExpireTime)
      BY <1>1 DEF TokenInv, Configured
    <2>3. CASE token \in tokens
      BY <2>3 DEF PipelineInv, TokenInv
    <2>4. CASE token = create_access_token(username)
      <3>1. Len(runs) \in DOMAIN runs
        BY <1>3 DEF PipelineInv, ProcessInv, IsUp
      <3>2. Configured(Len(runs), token.sub, token.role, token.tenantId, token.secret_key, token.service)
        BY <2>4 DEF Configured, create_access_token, settings
      <3>3. token.exp \in Nat /\ token.exp <= clock + ExpireTime
        BY <2>4, PipelineAssumption DEF create_access_token, PipelineInv, ProcessInv
      <3> QED
        BY <3>1, <3>2, <3>3, <1>3 DEF IsUp
    <2> QED
      BY <2>1, <2>3, <2>4
  <1>5. SuccessLine("login") \in Seq(Events) /\ Log(t, SuccessLine("login"))
    BY SuccessLines
  <1>6. IsDue(t, 200) /\ pc[t] \in InMiddleware
    BY <1>1 DEF PipelineInv, ChargeInv, IsDue, InMiddleware
  <1> HIDE DEF Login
  <1> QED
    BY <1>1, <1>3, <1>4, <1>5, <1>6, Logged, Answered

\* A handler's work and its line.
LEMMA HandleStep ==
  ASSUME PipelineInv, NEW t \in Tasks, Handle(t)
  PROVE  PipelineInv'
  <1>1. PICK broken \in BOOLEAN :
          Log(t, IF broken THEN <<"chain.verification_failed">> ELSE SuccessLine(req[t].endpoint))
    BY DEF Handle
  <1> DEFINE events == IF broken THEN <<"chain.verification_failed">> ELSE SuccessLine(req[t].endpoint)
  <1>2. events \in Seq(Events)
    <2>1. <<"chain.verification_failed">> \in Seq(Events)
      BY OneElement DEF Events
    <2> QED
      BY <2>1, SuccessLines
  <1>3. /\ pc[t] = "handler" /\ pc' = [pc EXCEPT ![t] = "response"]
        /\ UNCHANGED <<shared, req, state_id, context, user, charged, answer>>
    BY DEF Handle, Goto
  <1>4. /\ lines' = [u \in Tasks |-> lines'[u]]
        /\ \A u \in Tasks \ {t} : lines'[u] = lines[u]
        /\ lines'[t] \in Seq([event : Events, id : {req[t].id}])
    BY <1>1, <1>2, <1>3, Logged DEF InMiddleware
  <1>5. PlaceInv'
    BY <1>3, <1>4 DEF PipelineInv, PlaceInv, InMiddleware
  <1>6. pc'[t] = "response" /\ (\A u \in Tasks \ {t} : pc'[u] = pc[u])
    BY <1>3 DEF PipelineInv, PlaceInv
  <1>7. ProcessInv' /\ TokenInv' /\ UserInv'
    BY <1>3, <1>6, SameProcess, SameUsers DEF shared
  <1>8. IdInv(t)'
    BY <1>3, <1>4, <1>6 DEF PipelineInv, IdInv, InMiddleware
  <1>9. ChargeInv(t)'
    BY <1>3, <1>6 DEF PipelineInv, ChargeInv
  <1> QED
    BY <1>3, <1>4, <1>5, <1>6, <1>7, <1>8, <1>9, OneRequest
\* A token that is accepted was issued less than ExpireTime after the end, if
\* any, of a run that configured what it says.
LEMMA AuthenticateStep ==
  ASSUME PipelineInv, NEW t \in Tasks, Authenticate(t)
  PROVE  PipelineInv'
  <1>1. PICK token \in tokens :
          /\ IsValid(token)
          /\ user' = [user EXCEPT ![t] = [sub |-> token.sub, role |-> token.role,
                                          tenant_id |-> token.tenantId, at |-> clock]]
    BY DEF Authenticate
  <1>2. /\ pc[t] = "token" /\ pc' = [pc EXCEPT ![t] = "role"]
        /\ UNCHANGED <<shared, req, state_id, context, charged, lines, answer>>
    BY DEF Authenticate, Goto
  <1>3. PlaceInv'
    BY <1>1, <1>2 DEF PipelineInv, PlaceInv, InMiddleware
  <1>4. pc'[t] = "role" /\ (\A u \in Tasks \ {t} : pc'[u] = pc[u])
    BY <1>2 DEF PipelineInv, PlaceInv
  <1>5. ProcessInv' /\ TokenInv'
    BY <1>2, <1>4, SameProcess
  <1>6. UserInv'
    <2>1. PICK k \in DOMAIN runs :
            /\ Configured(k, token.sub, token.role, token.tenantId, token.secret_key, token.service)
            /\ (runs[k].until # NULL) => (token.exp <= runs[k].until + ExpireTime)
      BY <1>1 DEF PipelineInv, TokenInv
    <2>2. (runs[k].until # NULL) => (clock < runs[k].until + ExpireTime)
      <3>1. clock < token.exp /\ clock \in Nat /\ token.exp \in Nat
        BY <1>1 DEF IsValid, PipelineInv, ProcessInv, TokenInv
      <3>2. (runs[k].until # NULL) => (runs[k].until \in Nat)
        <4>1. runs \in Seq([settings : Configs, from : Nat, until : Nat \cup {NULL}]) /\ k \in 1..Len(runs)
          BY DEF PipelineInv, ProcessInv
        <4>2. runs[k] \in [settings : Configs, from : Nat, until : Nat \cup {NULL}]
          BY <4>1, ElementOfSeq
        <4> QED
          BY <4>2
      <3> QED
        BY <2>1, <3>1, <3>2, PipelineAssumption
    <2>3. Configured(k, token.sub, token.role, token.tenantId, settings.secret_key, settings.service)
      BY <1>1, <2>1 DEF IsValid, Configured
    <2>4. user'[t] = [sub |-> token.sub, role |-> token.role, tenant_id |-> token.tenantId, at |-> clock]
          /\ \A u \in Tasks \ {t} : user'[u] = user[u]
      BY <1>1 DEF PipelineInv, PlaceInv
    <2>5. runs' = runs
      BY <1>2 DEF shared
    <2>6. \A u \in Tasks : (pc'[u] = "idle") => (user'[u] = NULL)
      BY <1>4, <2>4 DEF PipelineInv, UserInv
    <2>7. RightsWereConfigured'
      BY <2>2, <2>3, <2>4, <2>5 DEF PipelineInv, UserInv, RightsWereConfigured, Configured, settings
    <2> QED
      BY <2>6, <2>7 DEF UserInv
  <1>7. IdInv(t)'
    BY <1>2, <1>4 DEF PipelineInv, IdInv, InMiddleware
  <1>8. ChargeInv(t)'
    BY <1>2, <1>4 DEF PipelineInv, ChargeInv
  <1> QED
    BY <1>2, <1>3, <1>4, <1>5, <1>6, <1>7, <1>8, OneRequest

\* A request comes in with its id, in both places.
LEMMA ArriveStep ==
  ASSUME PipelineInv, NEW t \in Tasks, Arrive(t)
  PROVE  PipelineInv'
  <1>1. PICK endpoint, id :
          /\ req' = [req EXCEPT ![t] = [endpoint |-> endpoint, id |-> id]]
          /\ state_id' = [state_id EXCEPT ![t] = id]
          /\ context' = [context EXCEPT ![t] = id]
    BY DEF Arrive
  <1>2. /\ pc[t] = "idle" /\ IsUp /\ pc' = [pc EXCEPT ![t] = "size"]
        /\ UNCHANGED <<runs, clock, tokens, user, charged, lines, answer>>
    BY DEF Arrive, Goto
  <1>3. /\ pc'[t] = "size" /\ state_id'[t] = id /\ context'[t] = id
        /\ req'[t] = [endpoint |-> endpoint, id |-> id]
        /\ \A u \in Tasks \ {t} : /\ pc'[u] = pc[u] /\ req'[u] = req[u]
                                   /\ state_id'[u] = state_id[u] /\ context'[u] = context[u]
    BY <1>1, <1>2 DEF PipelineInv, PlaceInv
  <1>4. PlaceInv'
    BY <1>1, <1>2 DEF PipelineInv, PlaceInv, InMiddleware
  <1>5. ProcessInv'
    BY <1>2 DEF PipelineInv, ProcessInv, IsUp
  <1>6. TokenInv'
    BY <1>2 DEF PipelineInv, TokenInv, Configured
  <1>7. UserInv'
    BY <1>2, <1>3, SameUsers
  <1>8. lines'[t] = <<>> /\ ~charged'[t] /\ answer'[t] = NULL
    <2>1. lines[t] = <<>> /\ answer[t] = NULL
      BY <1>2 DEF PipelineInv, IdInv
    <2>2. ~charged[t]
      BY <1>2 DEF PipelineInv, ChargeInv
    <2> QED
      BY <1>2, <2>1, <2>2
  <1>9. IdInv(t)'
    BY <1>3, <1>8, EmptySeq DEF IdInv
  <1>10. ChargeInv(t)'
    BY <1>3, <1>8 DEF ChargeInv
  <1> QED
    BY <1>2, <1>3, <1>4, <1>5, <1>6, <1>7, <1>9, <1>10, OneRequest

\* An exception leaves the middleware, and with it the context, behind.
LEMMA RaiseStep ==
  ASSUME PipelineInv, NEW t \in Tasks, Raise(t)
  PROVE  PipelineInv'
  <1>1. /\ pc[t] \in {"handler", "response"} /\ pc' = [pc EXCEPT ![t] = "unwound"]
        /\ context' = [context EXCEPT ![t] = NULL]
        /\ UNCHANGED <<shared, req, state_id, user, charged, lines, answer>>
    BY DEF Raise, Goto
  <1>2. /\ pc'[t] = "unwound"
        /\ \A u \in Tasks \ {t} : pc'[u] = pc[u] /\ context'[u] = context[u]
    BY <1>1 DEF PipelineInv, PlaceInv
  <1>3. PlaceInv'
    BY <1>1 DEF PipelineInv, PlaceInv
  <1>4. ProcessInv' /\ TokenInv' /\ UserInv'
    BY <1>1, <1>2, SameProcess, SameUsers DEF shared
  <1>5. IdInv(t)'
    <2>1. /\ state_id[t] = req[t].id /\ answer[t] = NULL
          /\ lines[t] \in Seq([event : Events, id : {req[t].id}])
      BY <1>1 DEF PipelineInv, IdInv
    <2> QED
      BY <1>1, <1>2, <2>1 DEF IdInv, InMiddleware
  <1>6. ChargeInv(t)'
    BY <1>1, <1>2 DEF PipelineInv, ChargeInv
  <1> QED
    BY <1>1, <1>2, <1>3, <1>4, <1>5, <1>6, OneRequest

\* The id that is left is the one in the request's state.
LEMMA HandleUnexpectedStep ==
  ASSUME PipelineInv, NEW t \in Tasks, HandleUnexpected(t)
  PROVE  PipelineInv'
  <1> DEFINE line == [event |-> "unhandled_exception", id |-> req[t].id]
  <1>1. pc[t] = "unwound" /\ state_id[t] = req[t].id
        /\ lines[t] \in Seq([event : Events, id : {req[t].id}])
    BY DEF HandleUnexpected, PipelineInv, IdInv
  <1>2. /\ lines' = [lines EXCEPT ![t] = Append(lines[t], line)]
        /\ answer' = [answer EXCEPT ![t] = [status |-> 500, id |-> req[t].id]]
        /\ pc' = [pc EXCEPT ![t] = "answered"]
        /\ UNCHANGED <<shared, req, state_id, context, user, charged>>
    BY <1>1 DEF HandleUnexpected, Goto
  <1>3. /\ pc'[t] = "answered" /\ answer'[t] = [status |-> 500, id |-> req[t].id]
        /\ lines'[t] = Append(lines[t], line)
        /\ \A u \in Tasks \ {t} :
             pc'[u] = pc[u] /\ lines'[u] = lines[u] /\ answer'[u] = answer[u]
    BY <1>2 DEF PipelineInv, PlaceInv
  <1>4. PlaceInv'
    BY <1>2 DEF PipelineInv, PlaceInv
  <1>5. ProcessInv' /\ TokenInv' /\ UserInv'
    BY <1>1, <1>2, <1>3, SameProcess, SameUsers DEF shared
  <1>6. Append(lines[t], line) \in Seq([event : Events, id : {req[t].id}])
    BY <1>1, AppendProperties DEF Events
  <1>7. IdInv(t)'
    <2>1. req'[t] = req[t] /\ state_id'[t] = req[t].id
      BY <1>1, <1>2
    <2> QED
      BY <1>3, <1>6, <2>1 DEF IdInv, InMiddleware
  <1>8. ChargeInv(t)'
    BY <1>1, <1>2, <1>3 DEF PipelineInv, ChargeInv
  <1> QED
    BY <1>2, <1>3, <1>4, <1>5, <1>7, <1>8, OneRequest

\* A request that is over leaves nothing.
LEMMA FinishStep ==
  ASSUME PipelineInv, NEW t \in Tasks, Finish(t)
  PROVE  PipelineInv'
  <1> USE DEF Finish, Goto
  <1>1. PlaceInv'
    BY DEF PipelineInv, PlaceInv
  <1>2. /\ pc'[t] = "idle" /\ lines'[t] = <<>> /\ answer'[t] = NULL /\ user'[t] = NULL
        /\ charged'[t] = FALSE
        /\ \A u \in Tasks \ {t} :
             /\ pc'[u] = pc[u] /\ req'[u] = req[u] /\ state_id'[u] = state_id[u]
             /\ user'[u] = user[u] /\ charged'[u] = charged[u] /\ lines'[u] = lines[u]
             /\ answer'[u] = answer[u]
    BY DEF PipelineInv, PlaceInv
  <1>3. UNCHANGED <<shared, context>> /\ pc[t] = "answered"
    OBVIOUS
  <1> HIDE DEF Finish
  <1>4. ProcessInv' /\ TokenInv'
    BY <1>2, <1>3, SameProcess
  <1>5. UserInv'
    BY <1>2, <1>3 DEF PipelineInv, UserInv, RightsWereConfigured, settings, shared
  <1>6. IdInv(t)' /\ ChargeInv(t)'
    BY <1>2, EmptySeq DEF IdInv, ChargeInv, InMiddleware
  <1> QED
    BY <1>1, <1>2, <1>3, <1>4, <1>5, <1>6, OneRequest
-----------------------------------------------------------------------------
(* The steps of the process, and stuttering.                               *)

\* A new run adds to the history of runs; nobody is being served yet.
LEMMA StartStep ==
  ASSUME PipelineInv, Start
  PROVE  PipelineInv'
  <1>1. PICK c \in Configs : runs' = Append(runs, [settings |-> c, from |-> clock, until |-> NULL])
    BY DEF Start
  <1> DEFINE Runs == [settings : Configs, from : Nat, until : Nat \cup {NULL}]
  <1>2. ~IsUp /\ UNCHANGED <<clock, tokens, made, request>>
    BY DEF Start
  <1>3. \A t \in Tasks : pc[t] = "idle" /\ user[t] = NULL
    BY <1>2 DEF PipelineInv, ProcessInv, UserInv
  <1>4. /\ runs' \in Seq(Runs) /\ DOMAIN runs \subseteq DOMAIN runs'
        /\ \A k \in DOMAIN runs : runs'[k] = runs[k]
    <2>1. runs \in Seq(Runs) /\ [settings |-> c, from |-> clock, until |-> NULL] \in Runs
      BY DEF PipelineInv, ProcessInv
    <2> QED
      BY <1>1, <2>1, AppendProperties
  <1>5. PlaceInv'
    BY <1>2 DEF PipelineInv, PlaceInv, request
  <1>6. ProcessInv'
    <2>1. clock' \in Nat
      BY <1>2 DEF PipelineInv, ProcessInv
    <2>2. \A t \in Tasks : pc'[t] = "idle"
      BY <1>2, <1>3 DEF request
    <2> QED
      BY <1>4, <2>1, <2>2 DEF ProcessInv
  <1>7. TokenInv'
    <2>1. SUFFICES ASSUME NEW token \in tokens
                   PROVE  /\ token.exp \in Nat /\ token.exp <= clock + ExpireTime
                          /\ \E k \in DOMAIN runs' :
                               /\ Configured(k, token.sub, token.role, token.tenantId,
                                             token.secret_key, token.service)'
                               /\ (runs'[k].until # NULL) => (token.exp <= runs'[k].until + ExpireTime)
      BY <1>2 DEF TokenInv
    <2>2. PICK k \in DOMAIN runs :
            /\ Configured(k, token.sub, token.role, token.tenantId, token.secret_key, token.service)
            /\ (runs[k].until # NULL) => (token.exp <= runs[k].until + ExpireTime)
      BY DEF PipelineInv, TokenInv
    <2>3. k \in DOMAIN runs' /\ runs'[k] = runs[k]
      BY <1>4
    <2>4. token.exp \in Nat /\ token.exp <= clock + ExpireTime
      BY DEF PipelineInv, TokenInv
    <2> QED
      BY <2>2, <2>3, <2>4 DEF Configured
  <1>8. UserInv'
    BY <1>2, <1>3 DEF UserInv, RightsWereConfigured, request
  <1>9. \A t \in Tasks : IdInv(t)' /\ ChargeInv(t)'
    BY <1>2, OtherRequests DEF request
  <1> QED
    BY <1>5, <1>6, <1>7, <1>8, <1>9 DEF PipelineInv

\* When a run ends, its tokens are at most ExpireTime from their end.
LEMMA StopStep ==
  ASSUME PipelineInv, Stop
  PROVE  PipelineInv'
  <1> DEFINE Runs == [settings : Configs, from : Nat, until : Nat \cup {NULL}]
             last == Len(runs)
  <1>1. /\ IsUp /\ runs' = [runs EXCEPT ![last].until = clock]
        /\ UNCHANGED <<clock, tokens, made>>
    BY DEF Stop
  <1>2. \A t \in Tasks : /\ pc'[t] = "idle" /\ user'[t] = NULL /\ charged'[t] = FALSE
                         /\ lines'[t] = <<>> /\ answer'[t] = NULL
    BY DEF Stop, Nobody
  <1>3. runs \in Seq(Runs) /\ last \in DOMAIN runs /\ clock \in Nat
    BY <1>1 DEF PipelineInv, ProcessInv, IsUp
  <1>4. /\ runs' \in Seq(Runs) /\ DOMAIN runs' = DOMAIN runs
        /\ \A k \in DOMAIN runs :
             /\ runs'[k].settings = runs[k].settings
             /\ runs'[k].until = IF k = last THEN clock ELSE runs[k].until
    <2>1. last \in 1..Len(runs)
      BY <1>3, LenProperties
    <2>2. runs[last] \in Runs
      BY <1>3, <2>1, ElementOfSeq
    <2>3. runs' = [runs EXCEPT ![last] = [runs[last] EXCEPT !.until = clock]]
      BY <1>1
    <2>4. [runs[last] EXCEPT !.until = clock] \in Runs
      BY <1>3, <2>2
    <2>5. runs' \in Seq(Runs)
      BY <1>3, <2>3, <2>4, ExceptSeq
    <2>6. DOMAIN runs' = DOMAIN runs
      BY <1>3, <2>3
    <2>7. /\ [runs[last] EXCEPT !.until = clock].settings = runs[last].settings
          /\ [runs[last] EXCEPT !.until = clock].until = clock
      BY <2>2
    <2>8. \A k \in DOMAIN runs :
            runs'[k] = IF k = last THEN [runs[last] EXCEPT !.until = clock] ELSE runs[k]
      BY <1>3, <2>3
    <2> QED
      BY <2>5, <2>6, <2>7, <2>8
  <1>5. PlaceInv'
    BY <1>2 DEF Stop, Nobody, PlaceInv
  <1>6. ProcessInv'
    BY <1>1, <1>2, <1>3, <1>4 DEF ProcessInv
  <1>7. TokenInv'
    BY <1>1, <1>4 DEF PipelineInv, TokenInv, Configured
  <1>8. UserInv'
    BY <1>2 DEF UserInv, RightsWereConfigured
  <1>9. \A t \in Tasks : IdInv(t)' /\ ChargeInv(t)'
    BY <1>2, EmptySeq DEF IdInv, ChargeInv, InMiddleware
  <1> QED
    BY <1>5, <1>6, <1>7, <1>8, <1>9 DEF PipelineInv

\* Time brings a token no further from its end.
LEMMA TickStep ==
  ASSUME PipelineInv, Tick
  PROVE  PipelineInv'
  <1>1. clock' = clock + 1 /\ UNCHANGED <<runs, tokens, made, request>>
    BY DEF Tick
  <1>2. PlaceInv'
    BY <1>1 DEF PipelineInv, PlaceInv, request
  <1>3. ProcessInv'
    BY <1>1 DEF PipelineInv, ProcessInv, IsUp, request
  <1>4. TokenInv'
    <2>1. \A token \in tokens : token.exp \in Nat /\ token.exp <= clock' + ExpireTime
      BY <1>1, PipelineAssumption DEF PipelineInv, ProcessInv, TokenInv
    <2> QED
      BY <1>1, <2>1 DEF PipelineInv, TokenInv, Configured
  <1>5. UserInv'
    BY <1>1 DEF PipelineInv, UserInv, RightsWereConfigured, settings, request
  <1>6. \A t \in Tasks : IdInv(t)' /\ ChargeInv(t)'
    BY <1>1, OtherRequests DEF request
  <1> QED
    BY <1>2, <1>3, <1>4, <1>5, <1>6 DEF PipelineInv

\* Nothing happens.
LEMMA StutterStep ==
  ASSUME PipelineInv, UNCHANGED vars
  PROVE  PipelineInv'
  <1> USE DEF vars, shared, request
  <1>1. PlaceInv'
    BY DEF PipelineInv, PlaceInv
  <1>2. ProcessInv' /\ TokenInv'
    BY DEF PipelineInv, ProcessInv, IsUp, TokenInv, Configured
  <1>3. UserInv'
    BY DEF PipelineInv, UserInv, RightsWereConfigured, settings
  <1>4. \A t \in Tasks : IdInv(t)' /\ ChargeInv(t)'
    BY OtherRequests
  <1> QED
    BY <1>1, <1>2, <1>3, <1>4 DEF PipelineInv

-----------------------------------------------------------------------------
(* The theorems.                                                           *)

\* The invariant is inductive.
LEMMA PipelineStep == PipelineInv /\ [Next]_vars => PipelineInv'
  <1> SUFFICES ASSUME PipelineInv, [Next]_vars PROVE PipelineInv'
    OBVIOUS
  <1>1. ASSUME NEW t \in Tasks,
               EnterRoute(t) \/ Authorize(t) \/ Charge(t) \/ Validate(t)
        PROVE  PipelineInv'
    BY <1>1, MoveStep
  <1>2. ASSUME NEW t \in Tasks,
               \/ RefuseBySize(t) \/ RefuseMalformed(t) \/ RefuseToken(t) \/ RefuseByLimit(t)
               \/ RefuseParameters(t) \/ RefuseTenantlessReader(t) \/ RefuseInHandler(t)
               \/ SendResponse(t)
        PROVE  PipelineInv'
    BY <1>2, SilentStep
  <1>3. ASSUME NEW t \in Tasks, RefuseRole(t) \/ LoginFails(t)
        PROVE  PipelineInv'
    BY <1>3, LoggedRefusalStep
  <1>4. ASSUME NEW t \in Tasks, Login(t) \/ Handle(t) \/ Authenticate(t)
        PROVE  PipelineInv'
    BY <1>4, LoginStep, HandleStep, AuthenticateStep
  <1>5. ASSUME NEW t \in Tasks, Arrive(t) \/ Raise(t) \/ HandleUnexpected(t) \/ Finish(t)
        PROVE  PipelineInv'
    BY <1>5, ArriveStep, RaiseStep, HandleUnexpectedStep, FinishStep
  <1>6. CASE Start \/ Stop \/ Tick
    BY <1>6, StartStep, StopStep, TickStep
  <1>7. CASE UNCHANGED vars
    BY <1>7, StutterStep
  <1> QED
    BY <1>1, <1>2, <1>3, <1>4, <1>5, <1>6, <1>7 DEF Next

\* So it holds always.
LEMMA PipelineInvariance == Spec => []PipelineInv
  BY Initially, PipelineStep, PTL DEF Spec

\* Whatever happens to a request and to others beside it, its log lines and
\* its answer carry its own id, also when an exception unwinds it.
THEOREM OneIdPerRequest == Spec => []IdsNameTheRequest
  <1>1. PipelineInv => IdsNameTheRequest
    <2> SUFFICES ASSUME PipelineInv, NEW t \in Tasks
                 PROVE  /\ \A i \in DOMAIN lines[t] : lines[t][i].id = req[t].id
                        /\ (answer[t] # NULL) => (answer[t].id = req[t].id)
      BY DEF IdsNameTheRequest
    <2>1. lines[t] \in Seq([event : Events, id : {req[t].id}])
      BY DEF PipelineInv, IdInv
    <2>2. ASSUME NEW i \in DOMAIN lines[t] PROVE lines[t][i].id = req[t].id
      <3>1. i \in 1..Len(lines[t])
        BY <2>1, <2>2, LenProperties
      <3>2. lines[t][i] \in [event : Events, id : {req[t].id}]
        BY <2>1, <3>1, ElementOfSeq
      <3> QED
        BY <3>2
    <2>3. (answer[t] # NULL) => (answer[t].id = req[t].id)
      BY DEF PipelineInv, IdInv
    <2> QED
      BY <2>2, <2>3
  <1> QED
    BY <1>1, PipelineInvariance, PTL

\* Budget is spent by those who may spend it, and nothing a limiter guards is
\* done uncounted.
THEOREM ChargesAreDue == Spec => []ChargedWhenAdmitted
  <1>1. PipelineInv => ChargedWhenAdmitted
    BY DEF PipelineInv, ChargeInv, ChargedWhenAdmitted
  <1> QED
    BY <1>1, PipelineInvariance, PTL

\* Whatever restarts change, the rights a request is served with were
\* configured less than ExpireTime before it was authenticated.
THEOREM RightsAreConfigured == Spec => []RightsWereConfigured
  <1>1. PipelineInv => RightsWereConfigured
    BY DEF PipelineInv, UserInv
  <1> QED
    BY <1>1, PipelineInvariance, PTL

-----------------------------------------------------------------------------
(* What a request has where it is, and which lines it leaves.              *)

Ids == RequestIds \cup {<<"uuid4", n>> : n \in 0..MaxRequests}

EventsOf(written) == [i \in DOMAIN written |-> written[i].event]

\* The lines of an operation that was done.
Done(endpoint) ==
    {SuccessLine(endpoint)} \cup
      IF endpoint = "verify" THEN {<<"chain.verification_failed">>} ELSE {}

\* The lines an answer accounts for.
Due(status, endpoint, denied) ==
    CASE status = 200 -> Done(endpoint)
      [] status = 500 -> {Append(done, "unhandled_exception") : done \in Done(endpoint) \cup {<<>>}}
      [] status = 403 /\ denied -> {<<"authz.denied">>}
      [] status = 401 /\ endpoint = "login" -> {<<"auth.login.failure">>}
      [] OTHER -> {<<>>}

Denied(t) == user[t].role \notin AllowedRoles(req[t].endpoint)

Unwritten == {"idle", "size", "token", "role", "limit", "parameters", "handler"}

\* Nothing is logged before the handler is through, but with an answer.
TraceInv(t) ==
    /\ (pc[t] # "idle") => (req[t].id \in Ids)
    /\ (pc[t] \notin InMiddleware) => (context[t] = NULL)
    /\ (pc[t] = "role") => (user[t] # NULL)
    /\ (pc[t] = "token") => IsProtected(req[t].endpoint)
    /\ (pc[t] \in Unwritten) => (lines[t] = <<>>)
    /\ (pc[t] = "response") => (EventsOf(lines[t]) \in Done(req[t].endpoint))
    /\ (pc[t] = "unwound") => (EventsOf(lines[t]) \in Done(req[t].endpoint) \cup {<<>>})
    /\ (pc[t] = "answered") =>
         /\ answer[t] # NULL /\ answer[t].status \in Statuses
         /\ EventsOf(lines[t]) \in Due(answer[t].status, req[t].endpoint, Denied(t))

\* The process's runs are in the past.
ClockInv ==
    /\ clock \in 0..MaxTime /\ made \in 0..MaxRequests
    /\ \A k \in DOMAIN runs : /\ runs[k].from \in 0..clock
                              /\ runs[k].until \in (0..clock) \cup {NULL}

RequestIInv == PipelineInv /\ ClockInv /\ \A t \in Tasks : TraceInv(t)

\* The events of lines that Log wrote are those it was given.
LEMMA EventsAdded ==
  ASSUME NEW events \in Seq(Events), NEW id
  PROVE  EventsOf(<<>> \o [i \in DOMAIN events |-> [event |-> events[i], id |-> id]]) = events
  <1> DEFINE S == [event : Events, id : {id}]
             new == [i \in DOMAIN events |-> [event |-> events[i], id |-> id]]
  <1>1. DOMAIN events = 1..Len(events) /\ Len(events) \in Nat
    OBVIOUS
  <1>2. \A i \in DOMAIN events : events[i] \in Events
    BY <1>1
  <1>3. new \in Seq(S)
    <2>1. new \in [1..Len(events) -> S]
      BY <1>1, <1>2
    <2> QED
      BY <1>1, <2>1, SeqDef
  <1>4. <<>> \o new = new
    <2> HIDE DEF new, S
    <2> QED
      BY <1>3, ConcatEmptySeq
  <1>5. EventsOf(new) = [i \in DOMAIN events |-> events[i]]
    BY DEF EventsOf
  <1>6. events = [i \in DOMAIN events |-> events[i]]
    OBVIOUS
  <1> QED
    BY <1>4, <1>5, <1>6

\* One more line is one more event.
LEMMA EventsAppended ==
  ASSUME NEW S, NEW old \in Seq(S), NEW line \in S
  PROVE  EventsOf(Append(old, line)) = Append(EventsOf(old), line.event)
  <1> DEFINE new == Append(old, line)
             R   == {s.event : s \in S}
  <1>1. /\ DOMAIN old = 1..Len(old) /\ Len(old) \in Nat
        /\ new \in Seq(S) /\ Len(new) = Len(old) + 1 /\ DOMAIN new = 1..(Len(old) + 1)
        /\ \A i \in 1..Len(old) : new[i] = old[i]
        /\ new[Len(old) + 1] = line
    OBVIOUS
  <1>2. EventsOf(old) \in Seq(R) /\ Len(EventsOf(old)) = Len(old)
    <2>1. \A i \in 1..Len(old) : old[i].event \in R
      BY <1>1
    <2>2. EventsOf(old) \in [1..Len(old) -> R]
      BY <1>1, <2>1 DEF EventsOf
    <2>3. EventsOf(old) \in Seq(R)
      BY <1>1, <2>2, SeqDef
    <2>4. DOMAIN EventsOf(old) = 1..Len(old)
      BY <1>1 DEF EventsOf
    <2> QED
      BY <1>1, <2>3, <2>4
  <1>3. line.event \in R
    OBVIOUS
  <1> DEFINE both == Append(EventsOf(old), line.event)
  <1> HIDE DEF new, R
  <1>4. /\ DOMAIN both = 1..(Len(old) + 1)
        /\ \A i \in 1..Len(old) : both[i] = EventsOf(old)[i]
        /\ both[Len(old) + 1] = line.event
    BY <1>1, <1>2, <1>3
  <1>5. both \in Seq(R)
    BY <1>2, <1>3
  <1>6. both = [i \in DOMAIN both |-> both[i]]
    BY <1>5
  <1>7. \A i \in 1..(Len(old) + 1) : both[i] = new[i].event
    <2>1. \A i \in 1..Len(old) : EventsOf(old)[i] = old[i].event
      BY <1>1 DEF EventsOf
    <2>2. \A i \in 1..(Len(old) + 1) : i \in 1..Len(old) \/ i = Len(old) + 1
      BY <1>1
    <2> QED
      BY <1>1, <1>4, <2>1, <2>2
  <1>8. EventsOf(new) = [i \in 1..(Len(old) + 1) |-> new[i].event]
    BY <1>1 DEF EventsOf
  <1> HIDE DEF both
  <1>9. EventsOf(new) = both
    BY <1>4, <1>6, <1>7, <1>8
  <1> QED
    BY <1>9 DEF both, new

\* A step of t keeps what is said of others, which it leaves alone.
LEMMA OneTrace ==
  ASSUME RequestIInv, NEW t \in Tasks,
         \A u \in Tasks \ {t} :
           /\ pc'[u] = pc[u] /\ req'[u] = req[u] /\ context'[u] = context[u]
           /\ user'[u] = user[u] /\ lines'[u] = lines[u] /\ answer'[u] = answer[u],
         TraceInv(t)'
  PROVE  \A u \in Tasks : TraceInv(u)'
  <1>1. ASSUME NEW u \in Tasks \ {t} PROVE TraceInv(u)'
    BY DEF RequestIInv, TraceInv, Denied
  <1> QED
    BY <1>1

\* A request that goes on, before its handler.
LEMMA MoveTrace ==
  ASSUME RequestIInv, NEW t \in Tasks,
         EnterRoute(t) \/ Authorize(t) \/ Charge(t) \/ Validate(t)
  PROVE  \A u \in Tasks : TraceInv(u)'
  <1> USE DEF EnterRoute, Authorize, Charge, Validate, Goto
  <1>1. PICK label \in {"token", "limit", "parameters", "handler"} :
          /\ pc' = [pc EXCEPT ![t] = label]
          /\ (label = "token") => IsProtected(req[t].endpoint)
    OBVIOUS
  <1>2. UNCHANGED <<req, context, user, lines, answer>> /\ pc[t] \in Unwritten \ {"idle"}
    BY DEF Unwritten
  <1>3. pc'[t] = label /\ (\A u \in Tasks \ {t} : pc'[u] = pc[u])
    BY <1>1 DEF RequestIInv, PipelineInv, PlaceInv
  <1>4. req[t].id \in Ids /\ lines[t] = <<>>
    BY <1>2 DEF RequestIInv, TraceInv
  <1>5. TraceInv(t)'
    BY <1>1, <1>2, <1>3, <1>4 DEF TraceInv, InMiddleware
  <1> QED
    BY <1>2, <1>3, <1>5, OneTrace

\* A user that was taken from a token is one.
LEMMA AuthenticateTrace ==
  ASSUME RequestIInv, NEW t \in Tasks, Authenticate(t)
  PROVE  \A u \in Tasks : TraceInv(u)'
  <1>1. PICK token \in tokens :
          user' = [user EXCEPT ![t] = [sub |-> token.sub, role |-> token.role,
                                       tenant_id |-> token.tenantId, at |-> clock]]
    BY DEF Authenticate
  <1>2. /\ pc[t] = "token" /\ pc' = [pc EXCEPT ![t] = "role"]
        /\ UNCHANGED <<shared, req, state_id, context, charged, lines, answer>>
    BY DEF Authenticate, Goto
  <1>3. /\ pc'[t] = "role"
        /\ user'[t] = [sub |-> token.sub, role |-> token.role, tenant_id |-> token.tenantId, at |-> clock]
        /\ \A u \in Tasks \ {t} : pc'[u] = pc[u] /\ user'[u] = user[u]
    BY <1>1, <1>2 DEF RequestIInv, PipelineInv, PlaceInv
  <1>4. user'[t] # NULL
    <2>1. PICK k \in DOMAIN runs :
            Configured(k, token.sub, token.role, token.tenantId, token.secret_key, token.service)
      BY <1>1 DEF RequestIInv, PipelineInv, TokenInv
    <2>2. runs[k].settings \in Configs
      <3>1. /\ runs \in Seq([settings : Configs, from : Nat, until : Nat \cup {NULL}])
            /\ k \in 1..Len(runs)
        BY DEF RequestIInv, PipelineInv, ProcessInv
      <3>2. runs[k] \in [settings : Configs, from : Nat, until : Nat \cup {NULL}]
        BY <3>1, ElementOfSeq
      <3> QED
        BY <3>2
    <2>3. /\ token.sub \in Users
          /\ runs[k].settings.auth_users[token.sub] \in [role : Roles, tenant_id : Tenants \cup {NULL}]
      BY <2>1, <2>2, ConfigsAssumption DEF Configured
    <2>4. token.role \in Roles /\ token.tenantId \in Tenants \cup {NULL}
      BY <2>1, <2>3 DEF Configured
    <2>5. clock \in Nat
      BY DEF RequestIInv, PipelineInv, ProcessInv
    <2> QED
      BY <1>3, <2>3, <2>4, <2>5, NoneAssumption
  <1>5. req[t].id \in Ids /\ lines[t] = <<>>
    BY <1>2 DEF RequestIInv, TraceInv, Unwritten
  <1>6. TraceInv(t)'
    BY <1>2, <1>3, <1>4, <1>5 DEF TraceInv, InMiddleware, Unwritten
  <1> QED
    BY <1>2, <1>3, <1>6, OneTrace

\* The answer of a request is one, and its lines are those due.
LEMMA AnsweredTrace ==
  ASSUME RequestIInv, NEW t \in Tasks, pc[t] # "idle", NEW status \in Statuses, Respond(t, status),
         UNCHANGED <<req, user>>, \A u \in Tasks \ {t} : lines'[u] = lines[u],
         EventsOf(lines'[t]) \in Due(status, req[t].endpoint, Denied(t))
  PROVE  \A u \in Tasks : TraceInv(u)'
  <1>1. /\ pc'[t] = "answered" /\ answer'[t] = [status |-> status, id |-> req[t].id] /\ context'[t] = NULL
        /\ \A u \in Tasks \ {t} :
             pc'[u] = pc[u] /\ context'[u] = context[u] /\ answer'[u] = answer[u]
    BY DEF RequestIInv, PipelineInv, PlaceInv, Respond, Goto
  <1>2. req[t].id \in Ids
    BY DEF RequestIInv, TraceInv
  <1>3. answer'[t] # NULL /\ answer'[t].status = status
    <2>1. status \in Nat
      BY DEF Statuses
    <2> QED
      BY <1>1, <1>2, <2>1, NoneAssumption DEF Ids
  <1>4. EventsOf(lines'[t]) \in Due(answer'[t].status, req'[t].endpoint, Denied(t)')
    BY <1>3 DEF Denied
  <1>5. TraceInv(t)'
    BY <1>1, <1>2, <1>3, <1>4 DEF TraceInv, InMiddleware, Unwritten
  <1> QED
    BY <1>1, <1>5, OneTrace

\* Which lines are due with an answer that is not a denial by role.
LEMMA DueLines ==
  ASSUME NEW endpoint, NEW denied \in BOOLEAN
  PROVE  /\ \A status \in {404, 409, 413, 422, 429} : <<>> \in Due(status, endpoint, denied)
         /\ (endpoint # "login") => <<>> \in Due(401, endpoint, denied)
         /\ ~denied => <<>> \in Due(403, endpoint, denied)
         /\ (endpoint = "login") => <<"auth.login.failure">> \in Due(401, endpoint, denied)
         /\ Due(200, endpoint, denied) = Done(endpoint)
  <1>1. \A status \in {404, 409, 413, 422, 429} : <<>> \in Due(status, endpoint, denied)
    BY DEF Due
  <1>2. (endpoint # "login") => <<>> \in Due(401, endpoint, denied)
    BY DEF Due
  <1>3. ~denied => <<>> \in Due(403, endpoint, denied)
    BY DEF Due
  <1>4. (endpoint = "login") => <<"auth.login.failure">> \in Due(401, endpoint, denied)
    BY DEF Due
  <1>5. Due(200, endpoint, denied) = Done(endpoint)
    BY DEF Due
  <1> QED
    BY <1>1, <1>2, <1>3, <1>4, <1>5

\* The answers that leave no line, before the handler or after its own.
LEMMA SilentTrace ==
  ASSUME RequestIInv, NEW t \in Tasks,
         \/ RefuseBySize(t) \/ RefuseMalformed(t) \/ RefuseToken(t) \/ RefuseByLimit(t)
         \/ RefuseParameters(t) \/ RefuseTenantlessReader(t) \/ RefuseInHandler(t)
         \/ SendResponse(t)
  PROVE  \A u \in Tasks : TraceInv(u)'
  <1>1. PICK status :
          /\ Respond(t, status) /\ UNCHANGED <<req, user, lines>> /\ pc[t] # "idle"
          /\ \/ pc[t] \in Unwritten /\ status \in {404, 409, 413, 422, 429}
             \/ pc[t] = "token" /\ status = 401
             \/ pc[t] \in Unwritten /\ status = 403 /\ ~Denied(t)
             \/ pc[t] = "response" /\ status = 200
    <2> USE DEF Unwritten
    <2>1. CASE RefuseBySize(t)
      BY <2>1 DEF RefuseBySize
    <2>2. CASE RefuseMalformed(t)
      BY <2>2 DEF RefuseMalformed
    <2>3. CASE RefuseToken(t)
      BY <2>3 DEF RefuseToken
    <2>4. CASE RefuseByLimit(t)
      BY <2>4 DEF RefuseByLimit
    <2>5. CASE RefuseParameters(t)
      BY <2>5 DEF RefuseParameters
    <2>6. CASE RefuseTenantlessReader(t)
      <3>1. ~Denied(t)
        BY <2>6 DEF RefuseTenantlessReader, IsTenantlessReader, Denied, AllowedRoles
      <3> QED
        BY <2>6, <3>1 DEF RefuseTenantlessReader
    <2>7. CASE RefuseInHandler(t)
      <3>1. PICK status \in Refusals(req[t].endpoint) : Respond(t, status)
        BY <2>7 DEF RefuseInHandler
      <3>2. status \in {404, 409, 422}
        BY <3>1 DEF Refusals
      <3> QED
        BY <2>7, <3>1, <3>2 DEF RefuseInHandler
    <2>8. CASE SendResponse(t)
      BY <2>8 DEF SendResponse
    <2> QED
      BY <2>1, <2>2, <2>3, <2>4, <2>5, <2>6, <2>7, <2>8
  <1>2. status \in Statuses
    BY <1>1 DEF Statuses
  <1>3. Denied(t) \in BOOLEAN
    BY DEF Denied
  <1>4. EventsOf(lines[t]) \in Due(status, req[t].endpoint, Denied(t))
    <2>1. (pc[t] \in Unwritten) => (EventsOf(lines[t]) = <<>>)
      <3>1. (pc[t] \in Unwritten) => (lines[t] = <<>>)
        BY DEF RequestIInv, TraceInv
      <3>2. EventsOf(<<>>) = <<>>
        BY DEF EventsOf
      <3> QED
        BY <3>1, <3>2
    <2>2. CASE pc[t] = "token" /\ status = 401
      <3>1. req[t].endpoint # "login"
        BY <2>2 DEF RequestIInv, TraceInv, IsProtected
      <3>2. pc[t] \in Unwritten
        BY <2>2 DEF Unwritten
      <3> QED
        BY <1>3, <2>1, <2>2, <3>1, <3>2, DueLines
    <2>3. CASE pc[t] = "response" /\ status = 200
      <3>1. EventsOf(lines[t]) \in Done(req[t].endpoint)
        BY <2>3 DEF RequestIInv, TraceInv
      <3> QED
        BY <1>3, <2>3, <3>1, DueLines
    <2>4. CASE pc[t] \in Unwritten /\ status \in {404, 409, 413, 422, 429}
      BY <1>3, <2>1, <2>4, DueLines
    <2>5. CASE pc[t] \in Unwritten /\ status = 403 /\ ~Denied(t)
      BY <1>3, <2>1, <2>5, DueLines
    <2> QED
      BY <1>1, <2>2, <2>3, <2>4, <2>5
  <1> QED
    BY <1>1, <1>2, <1>4, AnsweredTrace

\* What is logged before anything else are all the lines.
LEMMA FirstLines ==
  ASSUME RequestIInv, NEW t \in Tasks, pc[t] \in Unwritten, NEW events \in Seq(Events), Log(t, events)
  PROVE  EventsOf(lines'[t]) = events /\ \A u \in Tasks \ {t} : lines'[u] = lines[u]
  <1>1. lines = [u \in Tasks |-> lines[u]] /\ lines[t] = <<>>
    BY DEF RequestIInv, PipelineInv, PlaceInv, TraceInv
  <1> DEFINE added == [i \in DOMAIN events |-> [event |-> events[i], id |-> context[t]]]
  <1>2. lines' = [lines EXCEPT ![t] = <<>> \o added]
    BY <1>1 DEF Log
  <1>3. EventsOf(<<>> \o added) = events
    BY EventsAdded
  <1> QED
    BY <1>1, <1>2, <1>3

\* A refusal or a login writes its line, and says so where the request is then.
LEMMA LoggedTrace ==
  ASSUME RequestIInv, NEW t \in Tasks, RefuseRole(t) \/ LoginFails(t) \/ Login(t)
  PROVE  \A u \in Tasks : TraceInv(u)'
  <1>1. PICK events, status :
          /\ Log(t, events) /\ Respond(t, status) /\ UNCHANGED <<req, user>>
          /\ pc[t] \in {"role", "handler"}
          /\ \/ status = 403 /\ Denied(t) /\ events = <<"authz.denied">>
             \/ status = 401 /\ req[t].endpoint = "login" /\ events = <<"auth.login.failure">>
             \/ status = 200 /\ req[t].endpoint = "login" /\ events = SuccessLine("login")
    <2>1. CASE RefuseRole(t)
      BY <2>1 DEF RefuseRole, Denied
    <2>2. CASE LoginFails(t)
      BY <2>2 DEF LoginFails
    <2>3. CASE Login(t)
      BY <2>3 DEF Login
    <2> QED
      BY <2>1, <2>2, <2>3
  <1>2. events \in Seq(Events)
    <2>1. <<"authz.denied">> \in Seq(Events) /\ <<"auth.login.failure">> \in Seq(Events)
      BY OneElement DEF Events
    <2>2. SuccessLine("login") \in Seq(Events)
      BY SuccessLines
    <2>3. events \in {<<"authz.denied">>, <<"auth.login.failure">>, SuccessLine("login")}
      BY <1>1
    <2> QED
      BY <2>1, <2>2, <2>3, Zenon
  <1>3. events \in Due(status, req[t].endpoint, Denied(t))
    <2>1. Denied(t) \in BOOLEAN
      BY DEF Denied
    <2>2. CASE status = 403 /\ Denied(t) /\ events = <<"authz.denied">>
      <3>1. <<"authz.denied">> \in Due(403, req[t].endpoint, Denied(t))
        BY <2>2 DEF Due
      <3> QED
        BY <2>2, <3>1
    <2>3. CASE status = 401 /\ req[t].endpoint = "login" /\ events = <<"auth.login.failure">>
      BY <2>1, <2>3, DueLines
    <2>4. CASE status = 200 /\ req[t].endpoint = "login" /\ events = SuccessLine("login")
      <3>1. SuccessLine("login") \in Done("login")
        BY DEF Done
      <3> QED
        BY <2>1, <2>4, <3>1, DueLines
    <2> QED
      BY <1>1, <2>2, <2>3, <2>4
  <1>4. status \in Statuses /\ pc[t] \in Unwritten /\ pc[t] # "idle"
    BY <1>1 DEF Statuses, Unwritten
  <1>5. EventsOf(lines'[t]) = events /\ \A u \in Tasks \ {t} : lines'[u] = lines[u]
    BY <1>1, <1>2, <1>4, FirstLines
  <1> QED
    BY <1>1, <1>3, <1>4, <1>5, AnsweredTrace

\* A handler's work leaves the line of the operation.
LEMMA HandleTrace ==
  ASSUME RequestIInv, NEW t \in Tasks, Handle(t)
  PROVE  \A u \in Tasks : TraceInv(u)'
  <1>1. PICK broken \in IF req[t].endpoint = "verify" THEN BOOLEAN ELSE {FALSE} :
          Log(t, IF broken THEN <<"chain.verification_failed">> ELSE SuccessLine(req[t].endpoint))
    BY DEF Handle
  <1>2. PICK events :
          events = IF broken THEN <<"chain.verification_failed">> ELSE SuccessLine(req[t].endpoint)
    OBVIOUS
  <1>3. events \in Seq(Events)
    <2>1. <<"chain.verification_failed">> \in Seq(Events)
      BY OneElement DEF Events
    <2> QED
      BY <1>2, <2>1, SuccessLines
  <1>4. events \in Done(req[t].endpoint)
    BY <1>1, <1>2 DEF Done
  <1>5. /\ pc[t] = "handler" /\ pc' = [pc EXCEPT ![t] = "response"]
        /\ UNCHANGED <<req, context, user, answer>>
    BY DEF Handle, Goto
  <1>6. pc'[t] = "response" /\ (\A u \in Tasks \ {t} : pc'[u] = pc[u])
    BY <1>5 DEF RequestIInv, PipelineInv, PlaceInv
  <1>7. EventsOf(lines'[t]) = events /\ \A u \in Tasks \ {t} : lines'[u] = lines[u]
    BY <1>1, <1>2, <1>3, <1>5, FirstLines DEF Unwritten
  <1>8. req[t].id \in Ids
    BY <1>5 DEF RequestIInv, TraceInv
  <1>9. TraceInv(t)'
    BY <1>4, <1>5, <1>6, <1>7, <1>8 DEF TraceInv, InMiddleware, Unwritten
  <1> QED
    BY <1>5, <1>6, <1>7, <1>9, OneTrace

\* An exception takes the lines along.
LEMMA RaiseTrace ==
  ASSUME RequestIInv, NEW t \in Tasks, Raise(t)
  PROVE  \A u \in Tasks : TraceInv(u)'
  <1>1. /\ pc[t] \in {"handler", "response"} /\ pc' = [pc EXCEPT ![t] = "unwound"]
        /\ context' = [context EXCEPT ![t] = NULL]
        /\ UNCHANGED <<req, user, lines, answer>>
    BY DEF Raise, Goto
  <1>2. /\ pc'[t] = "unwound" /\ context'[t] = NULL
        /\ \A u \in Tasks \ {t} : pc'[u] = pc[u] /\ context'[u] = context[u]
    BY <1>1 DEF RequestIInv, PipelineInv, PlaceInv
  <1>3. req[t].id \in Ids
    BY <1>1 DEF RequestIInv, TraceInv
  <1>4. EventsOf(lines[t]) \in Done(req[t].endpoint) \cup {<<>>}
    <2>1. CASE pc[t] = "handler"
      <3>1. lines[t] = <<>>
        BY <2>1 DEF RequestIInv, TraceInv, Unwritten
      <3> QED
        BY <3>1 DEF EventsOf
    <2>2. CASE pc[t] = "response"
      BY <2>2 DEF RequestIInv, TraceInv
    <2> QED
      BY <1>1, <2>1, <2>2
  <1>5. TraceInv(t)'
    BY <1>1, <1>2, <1>3, <1>4 DEF TraceInv, InMiddleware, Unwritten
  <1> QED
    BY <1>1, <1>2, <1>5, OneTrace

\* The last resort adds its line to those of the operation.
LEMMA HandleUnexpectedTrace ==
  ASSUME RequestIInv, NEW t \in Tasks, HandleUnexpected(t)
  PROVE  \A u \in Tasks : TraceInv(u)'
  <1> DEFINE line == [event |-> "unhandled_exception", id |-> req[t].id]
  <1>1. /\ pc[t] = "unwound" /\ state_id[t] = req[t].id
        /\ lines[t] \in Seq([event : Events, id : {req[t].id}])
    BY DEF HandleUnexpected, RequestIInv, PipelineInv, IdInv
  <1>2. /\ lines' = [lines EXCEPT ![t] = Append(lines[t], line)]
        /\ answer' = [answer EXCEPT ![t] = [status |-> 500, id |-> req[t].id]]
        /\ pc' = [pc EXCEPT ![t] = "answered"]
        /\ UNCHANGED <<req, context, user>>
    BY <1>1 DEF HandleUnexpected, Goto
  <1>3. /\ pc'[t] = "answered" /\ answer'[t] = [status |-> 500, id |-> req[t].id]
        /\ lines'[t] = Append(lines[t], line)
        /\ \A u \in Tasks \ {t} :
             pc'[u] = pc[u] /\ lines'[u] = lines[u] /\ answer'[u] = answer[u]
    BY <1>2 DEF RequestIInv, PipelineInv, PlaceInv
  <1>4. /\ req[t].id \in Ids /\ context[t] = NULL
        /\ EventsOf(lines[t]) \in Done(req[t].endpoint) \cup {<<>>}
    BY <1>1 DEF RequestIInv, TraceInv, InMiddleware
  <1>5. EventsOf(lines'[t]) = Append(EventsOf(lines[t]), "unhandled_exception")
    <2>1. line \in [event : Events, id : {req[t].id}]
      BY DEF Events
    <2>2. EventsOf(Append(lines[t], line)) = Append(EventsOf(lines[t]), line.event)
      BY <1>1, <2>1, EventsAppended
    <2> QED
      BY <1>3, <2>2
  <1>6. \A denied : EventsOf(lines'[t]) \in Due(500, req[t].endpoint, denied)
    BY <1>4, <1>5 DEF Due
  <1>7. EventsOf(lines'[t]) \in Due(answer'[t].status, req'[t].endpoint, Denied(t)')
    BY <1>2, <1>3, <1>6
  <1>8. answer'[t] # NULL /\ answer'[t].status \in Statuses
    BY <1>3, <1>4, NoneAssumption DEF Ids, Statuses
  <1>9. TraceInv(t)'
    BY <1>2, <1>3, <1>4, <1>7, <1>8 DEF TraceInv, InMiddleware, Unwritten
  <1> QED
    BY <1>2, <1>3, <1>9, OneTrace

\* A request comes with an id or gets one, and leaves nothing behind.
LEMMA ArriveTrace ==
  ASSUME RequestIInv, NEW t \in Tasks, Arrive(t)
  PROVE  \A u \in Tasks : TraceInv(u)'
  <1>1. PICK endpoint, id :
          /\ id \in RequestIds \cup {<<"uuid4", made>>}
          /\ req' = [req EXCEPT ![t] = [endpoint |-> endpoint, id |-> id]]
          /\ context' = [context EXCEPT ![t] = id]
    BY DEF Arrive
  <1>2. /\ pc[t] = "idle" /\ pc' = [pc EXCEPT ![t] = "size"]
        /\ UNCHANGED <<user, lines, answer>>
    BY DEF Arrive, Goto
  <1>3. /\ pc'[t] = "size" /\ req'[t] = [endpoint |-> endpoint, id |-> id]
        /\ \A u \in Tasks \ {t} :
             pc'[u] = pc[u] /\ req'[u] = req[u] /\ context'[u] = context[u]
    BY <1>1, <1>2 DEF RequestIInv, PipelineInv, PlaceInv
  <1>4. id \in Ids
    BY <1>1 DEF Ids, RequestIInv, ClockInv
  <1>5. lines[t] = <<>>
    BY <1>2 DEF RequestIInv, TraceInv, Unwritten
  <1>6. TraceInv(t)'
    BY <1>2, <1>3, <1>4, <1>5 DEF TraceInv, InMiddleware, Unwritten
  <1> QED
    BY <1>2, <1>3, <1>6, OneTrace

\* The answer is out, and nothing is kept of the request.
LEMMA FinishTrace ==
  ASSUME RequestIInv, NEW t \in Tasks, Finish(t)
  PROVE  \A u \in Tasks : TraceInv(u)'
  <1> USE DEF Finish, Goto
  <1>1. /\ pc'[t] = "idle" /\ lines'[t] = <<>>
        /\ \A u \in Tasks \ {t} :
             /\ pc'[u] = pc[u] /\ req'[u] = req[u] /\ user'[u] = user[u]
             /\ lines'[u] = lines[u] /\ answer'[u] = answer[u]
    BY DEF RequestIInv, PipelineInv, PlaceInv
  <1>2. context' = context /\ context[t] = NULL
    BY DEF RequestIInv, TraceInv, InMiddleware
  <1> HIDE DEF Finish
  <1>3. TraceInv(t)'
    BY <1>1, <1>2 DEF TraceInv, InMiddleware, Unwritten
  <1> QED
    BY <1>1, <1>2, <1>3, OneTrace

\* Requests are not touched by the clock or by a start, and gone when the
\* process stops.
LEMMA ProcessTrace ==
  ASSUME RequestIInv, Start \/ Stop \/ Tick \/ UNCHANGED vars
  PROVE  \A u \in Tasks : TraceInv(u)'
  <1>1. CASE Stop
    <2>1. \A t \in Tasks : pc'[t] = "idle" /\ context'[t] = NULL /\ lines'[t] = <<>>
      BY <1>1 DEF Stop, Nobody
    <2> QED
      BY <2>1 DEF TraceInv, InMiddleware, Unwritten
  <1>2. CASE Start \/ Tick \/ UNCHANGED vars
    <2>1. UNCHANGED <<pc, req, context, user, lines, answer>>
      BY <1>2 DEF Start, Tick, vars, request
    <2> QED
      BY <2>1 DEF RequestIInv, TraceInv, Denied
  <1> QED
    BY <1>1, <1>2

\* Runs begin and end at the clock's reading.
LEMMA ClockStep ==
  ASSUME RequestIInv, [Next]_vars
  PROVE  ClockInv'
  <1> DEFINE Runs == [settings : Configs, from : Nat, until : Nat \cup {NULL}]
  <1>1. /\ runs \in Seq(Runs) /\ ClockInv /\ clock \in Nat /\ MaxTime \in Nat /\ MaxRequests \in Nat
    BY PipelineAssumption DEF RequestIInv, PipelineInv, ProcessInv
  <1>2. CASE UNCHANGED <<runs, clock>> /\ made' \in 0..MaxRequests
    BY <1>1, <1>2 DEF ClockInv
  <1>3. CASE Start
    <2>1. PICK c \in Configs : runs' = Append(runs, [settings |-> c, from |-> clock, until |-> NULL])
      BY <1>3 DEF Start
    <2>2. UNCHANGED <<clock, made>>
      BY <1>3 DEF Start
    <2>3. PICK run : run = [settings |-> c, from |-> clock, until |-> NULL]
      OBVIOUS
    <2>4. run \in Runs /\ run.from = clock /\ run.until = NULL
      BY <1>1, <2>3
    <2>5. /\ \A k \in DOMAIN runs' : k \in DOMAIN runs \/ k = Len(runs) + 1
          /\ \A k \in DOMAIN runs : runs'[k] = runs[k]
          /\ runs'[Len(runs) + 1] = run
      <3> HIDE DEF Runs
      <3> QED
        BY <1>1, <2>1, <2>3, <2>4, AppendProperties
    <2> QED
      BY <1>1, <2>2, <2>4, <2>5 DEF ClockInv
  <1>4. CASE Stop
    <2>1. /\ runs' = [runs EXCEPT ![Len(runs)].until = clock] /\ UNCHANGED <<clock, made>>
      BY <1>4 DEF Stop
    <2>2. ASSUME NEW k \in DOMAIN runs
          PROVE  /\ runs'[k].from = runs[k].from
                 /\ runs'[k].until = runs[k].until \/ runs'[k].until = clock
      <3>1. runs[k] \in Runs
        <4>1. k \in 1..Len(runs)
          BY <1>1
        <4> QED
          BY <1>1, <4>1, ElementOfSeq
      <3>2. runs'[k] = runs[k] \/ runs'[k] = [runs[k] EXCEPT !.until = clock]
        BY <1>1, <2>1
      <3> QED
        BY <3>1, <3>2
    <2>3. DOMAIN runs' = DOMAIN runs
      BY <1>1, <2>1
    <2> QED
      BY <1>1, <2>1, <2>2, <2>3 DEF ClockInv
  <1>5. CASE Tick
    <2>1. clock < MaxTime /\ clock' = clock + 1 /\ UNCHANGED <<runs, made>>
      BY <1>5 DEF Tick
    <2>2. \A n \in 0..clock : n \in 0..clock'
      BY <1>1, <2>1
    <2>3. clock' \in 0..MaxTime
      BY <1>1, <2>1
    <2> QED
      BY <1>1, <2>1, <2>2, <2>3 DEF ClockInv
  <1>6. CASE \E t \in Tasks : Arrive(t)
    BY <1>1, <1>2, <1>6 DEF Arrive, ClockInv
  <1> QED
    <2>1. ASSUME NEW t \in Tasks,
                 \/ RefuseBySize(t) \/ RefuseMalformed(t) \/ EnterRoute(t)
                 \/ RefuseToken(t) \/ Authenticate(t) \/ RefuseRole(t) \/ Authorize(t)
                 \/ Charge(t) \/ RefuseByLimit(t)
                 \/ RefuseParameters(t) \/ RefuseTenantlessReader(t) \/ Validate(t)
                 \/ Login(t) \/ LoginFails(t) \/ RefuseInHandler(t) \/ Handle(t)
                 \/ SendResponse(t) \/ Raise(t) \/ HandleUnexpected(t) \/ Finish(t)
          PROVE  UNCHANGED <<runs, clock, made>>
      BY <2>1 DEF RefuseBySize, RefuseMalformed, EnterRoute, RefuseToken, Authenticate, RefuseRole,
                  Authorize, Charge, RefuseByLimit, RefuseParameters, RefuseTenantlessReader, Validate,
                  Login, LoginFails, RefuseInHandler, Handle, SendResponse, Raise, HandleUnexpected,
                  Finish, shared
    <2>2. CASE UNCHANGED vars
      BY <1>1, <1>2, <2>2 DEF vars, shared, ClockInv
    <2>3. made \in 0..MaxRequests
      BY <1>1 DEF ClockInv
    <2> QED
      BY <1>2, <1>3, <1>4, <1>5, <1>6, <2>1, <2>2, <2>3 DEF Next

\* Each action keeps the invariant.
LEMMA RequestStep == RequestIInv /\ [Next]_vars => RequestIInv'
  <1> SUFFICES ASSUME RequestIInv, [Next]_vars PROVE RequestIInv'
    OBVIOUS
  <1>1. PipelineInv'
    BY PipelineStep DEF RequestIInv
  <1>2. ClockInv'
    BY ClockStep
  <1>3. \A u \in Tasks : TraceInv(u)'
    BY MoveTrace, AuthenticateTrace, SilentTrace, LoggedTrace, HandleTrace, RaiseTrace,
       HandleUnexpectedTrace, ArriveTrace, FinishTrace, ProcessTrace DEF Next
  <1> QED
    BY <1>1, <1>2, <1>3 DEF RequestIInv

\* The invariant holds in every reachable state.
LEMMA RequestInvariance == Spec => []RequestIInv
  <1>1. Init => RequestIInv
    <2> SUFFICES ASSUME Init PROVE RequestIInv
      OBVIOUS
    <2>1. PipelineInv
      BY Initially
    <2>2. ClockInv
      BY PipelineAssumption DEF Init, ClockInv
    <2>3. \A t \in Tasks : TraceInv(t)
      BY DEF Init, Nobody, TraceInv, InMiddleware, Unwritten
    <2> QED
      BY <2>1, <2>2, <2>3 DEF RequestIInv
  <1> QED
    BY <1>1, RequestStep, PTL DEF Spec

\* Each request has what its place requires: an id in its context in the
\* middleware and nowhere else, a user when its role is asked for, an answer
\* at the end; and runs and tokens are in the past or bounded by it.
THEOREM PipelineTypeCorrect == Spec => []TypeOK
  <1>1. ASSUME RequestIInv PROVE TypeOK
    <2>1. \A k \in DOMAIN runs : runs[k].settings \in Configs
      <3> SUFFICES ASSUME NEW k \in DOMAIN runs PROVE runs[k].settings \in Configs
        OBVIOUS
      <3>1. /\ runs \in Seq([settings : Configs, from : Nat, until : Nat \cup {NULL}])
            /\ k \in 1..Len(runs)
        BY <1>1 DEF RequestIInv, PipelineInv, ProcessInv
      <3>2. runs[k] \in [settings : Configs, from : Nat, until : Nat \cup {NULL}]
        BY <3>1, ElementOfSeq
      <3> QED
        BY <3>2
    <2>2. ClockInv
      BY <1>1 DEF RequestIInv
    <2>3. ASSUME NEW token \in tokens PROVE token.sub \in Users /\ token.exp <= clock + ExpireTime
      <3>1. PICK k \in DOMAIN runs :
              Configured(k, token.sub, token.role, token.tenantId, token.secret_key, token.service)
        BY <1>1 DEF RequestIInv, PipelineInv, TokenInv
      <3>2. token.sub \in Users
        BY <2>1, <3>1, ConfigsAssumption DEF Configured
      <3> QED
        BY <1>1, <3>2 DEF RequestIInv, PipelineInv, TokenInv
    <2>4. ASSUME NEW t \in Tasks
          PROVE  /\ (pc[t] \in {"idle", "unwound", "answered"}) <=> (context[t] = NULL)
                 /\ (pc[t] = "answered") <=> (answer[t] # NULL)
                 /\ (answer[t] # NULL) => (answer[t].status \in Statuses)
                 /\ (pc[t] = "role") => (user[t] # NULL)
      <3>1. /\ pc[t] \in InMiddleware \cup {"idle", "unwound", "answered"}
            /\ TraceInv(t) /\ IdInv(t)
        BY <1>1 DEF RequestIInv, PipelineInv, PlaceInv
      <3>2. \A id \in Ids : id # NULL
        BY NoneAssumption DEF Ids
      <3>3. (pc[t] \in InMiddleware) => (context[t] # NULL)
        BY <3>1, <3>2 DEF TraceInv, IdInv, InMiddleware
      <3>4. (pc[t] \in {"idle", "unwound", "answered"}) <=> (pc[t] \notin InMiddleware)
        BY <3>1 DEF InMiddleware
      <3>5. (pc[t] \in {"idle", "unwound", "answered"}) <=> (context[t] = NULL)
        BY <3>1, <3>3, <3>4 DEF TraceInv
      <3>6. (pc[t] = "answered") <=> (answer[t] # NULL)
        BY <3>1 DEF TraceInv, IdInv
      <3>7. (answer[t] # NULL) => (answer[t].status \in Statuses)
        BY <3>1, <3>6 DEF TraceInv
      <3> QED
        BY <3>1, <3>5, <3>6, <3>7 DEF TraceInv
    <2> QED
      BY <2>1, <2>2, <2>3, <2>4 DEF TypeOK, ClockInv
  <1> QED
    BY <1>1, RequestInvariance, PTL

\* Every answer has exactly the lines it should: one for a denial, a login,
\* a sensitive operation or an unexpected error, and none otherwise.
THEOREM LogAccounts == Spec => []LogAccountsForAnswers
  <1>1. ASSUME RequestIInv PROVE LogAccountsForAnswers
    <2> SUFFICES ASSUME NEW t \in Tasks, answer[t] # NULL
                 PROVE  EventsOf(lines[t]) \in Due(answer[t].status, req[t].endpoint, Denied(t))
      BY DEF LogAccountsForAnswers, EventsOf, Due, Done, Denied
    <2>1. pc[t] = "answered"
      BY <1>1 DEF RequestIInv, PipelineInv, IdInv
    <2> QED
      BY <1>1, <2>1 DEF RequestIInv, TraceInv
  <1> QED
    BY <1>1, RequestInvariance, PTL
=============================================================================
