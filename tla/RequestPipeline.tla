--------------------------- MODULE RequestPipeline ---------------------------
(***************************************************************************)
(* What a request passes through around its handler: the middleware of     *)
(* main.py (correlation id, body size), the dependencies of its route      *)
(* (token, role, rate limit) and its validation, then the handler, and the *)
(* handler of unexpected exceptions; logins, the life of a token, and the  *)
(* process's restarts with another configuration.                          *)
(*                                                                         *)
(* External: FastAPI reads and parses the body before it solves a route's  *)
(* dependencies, solves these in the order of the route's parameters, and  *)
(* validates what is left only then; each request runs in a context of its *)
(* own; a handler of Exception runs outside all middleware; PyJWT refuses  *)
(* a token of another key, issuer or audience, or one that has expired.    *)
(*                                                                         *)
(* What a request holds is chosen where the code first looks at it.  The   *)
(* limiters' verdict is chosen freely: RateLimiter models it.  CORS adds   *)
(* headers only.                                                           *)
(***************************************************************************)
EXTENDS Naturals, Sequences, FiniteSets

CONSTANTS
    Tasks,         \* requests served at a time
    Endpoints,     \* the endpoints that are called
    Users,
    Tenants,
    Configs,       \* settings a process may be started with
    WeakKeys,      \* secret keys that _reject_weak_secret_key refuses
    RequestIds,    \* values of X-Request-ID that clients send
    ExpireTime,    \* access_token_expire_minutes
    MaxTime,       \* bound: latest wall-clock reading
    MaxTokens,     \* bound: tokens issued
    MaxRequests,   \* bound: requests made
    MaxRuns,       \* bound: runs of the process
    NULL

Roles == {"WRITER", "READER", "AUDITOR", "ADMIN"}

ASSUME PipelineAssumption ==
    /\ ExpireTime \in Nat \ {0}
    /\ MaxTime \in Nat /\ MaxTokens \in Nat /\ MaxRequests \in Nat /\ MaxRuns \in Nat

\* None is no id, no user name, no tenant, no answer and no current user.
ASSUME NoneAssumption ==
    /\ NULL \notin RequestIds \cup Users \cup Tenants
    /\ \A n \in 0..MaxRequests : NULL # <<"uuid4", n>>
    /\ NULL \notin [status : Nat, id : RequestIds \cup {<<"uuid4", n>> : n \in 0..MaxRequests}]
    /\ NULL \notin [sub : Users, role : Roles, tenant_id : Tenants \cup {NULL}, at : Nat]

\* A configuration: [secret_key, service, auth_users], where service stands
\* for jwt_issuer and jwt_audience.
ASSUME ConfigsAssumption ==
    \A c \in Configs : /\ DOMAIN c.auth_users \subseteq Users
                       /\ \A u \in DOMAIN c.auth_users :
                            c.auth_users[u] \in [role : Roles, tenant_id : Tenants \cup {NULL}]

VARIABLES
    runs,      \* the process's runs so far: [settings, from, until]
    clock,     \* datetime.now(timezone.utc)
    tokens,    \* the tokens clients have
    made       \* number of requests made, for fresh ids

VARIABLES
    pc,        \* where each request is
    req,       \* [endpoint, id]: what is called, and the id it is known by
    state_id,  \* request.state.correlation_id
    context,   \* _correlation_id_var in the request's context
    user,      \* current_user, with the time of its authentication, or NULL
    charged,   \* whether a rate limiter counted the request
    lines,     \* log lines written for the request: [event, id]
    answer     \* [status, id] of the response, or NULL

shared  == <<runs, clock, tokens, made>>
request == <<pc, req, state_id, context, user, charged, lines, answer>>
vars    == <<shared, request>>

-----------------------------------------------------------------------------
(* Routes and settings.                                                    *)

\* The roles each route requires; the others are open to all.
AllowedRoles(endpoint) ==
    CASE endpoint = "append" -> {"WRITER", "ADMIN"}
      [] endpoint = "list"   -> {"READER", "AUDITOR", "ADMIN"}
      [] endpoint \in {"verify", "export", "report"} -> {"AUDITOR", "ADMIN"}
      [] endpoint \in {"retention", "redact"}        -> {"ADMIN"}

IsProtected(endpoint) == endpoint \notin {"login", "live"}
IsLimited(endpoint)   == endpoint \in {"login", "verify", "export", "report"}
HasJsonBody(endpoint) == endpoint \in {"append", "redact"}
HasParameters(endpoint) == endpoint \notin {"verify", "retention", "live"}

\* What a handler refuses: a conflicting key; an unknown event, no such field.
Refusals(endpoint) ==
    CASE endpoint = "append" -> {409}
      [] endpoint = "redact" -> {404, 422}
      [] OTHER               -> {}

\* The line a handler writes when it succeeds, if any.
SuccessLine(endpoint) ==
    CASE endpoint = "export"    -> <<"export.performed">>
      [] endpoint = "report"    -> <<"compliance.report_accessed">>
      [] endpoint = "retention" -> <<"retention.applied">>
      [] endpoint = "redact"    -> <<"redaction.applied">>
      [] endpoint = "login"     -> <<"auth.login.success">>
      [] OTHER                  -> <<>>

\* Settings() refuses to be constructed with a weak key.
IsAccepted(settings) == settings.secret_key \notin WeakKeys

IsUp == runs # <<>> /\ runs[Len(runs)].until = NULL

settings == runs[Len(runs)].settings

\* create_access_token.
create_access_token(username) ==
    [sub        |-> username,
     role       |-> settings.auth_users[username].role,
     tenantId   |-> settings.auth_users[username].tenant_id,
     service    |-> settings.service,
     exp        |-> clock + ExpireTime,
     secret_key |-> settings.secret_key]

\* Mutant: expiry is not verified.
IsValidForEver(token) ==
    token.secret_key = settings.secret_key /\ token.service = settings.service

\* jwt.decode does not raise.
IsValid(token) ==
    /\ token.secret_key = settings.secret_key
    /\ token.service = settings.service
    /\ clock < token.exp

-----------------------------------------------------------------------------
(* Steps of a request.                                                     *)

Goto(t, label) == pc' = [pc EXCEPT ![t] = label]

\* log_security_event, with the id of the context.
Log(t, events) ==
    lines' = [lines EXCEPT ![t] = @ \o [i \in DOMAIN events |-> [event |-> events[i], id |-> context[t]]]]

\* The response leaves through CorrelationIdMiddleware.
Respond(t, status) ==
    /\ answer' = [answer EXCEPT ![t] = [status |-> status, id |-> req[t].id]]
    /\ context' = [context EXCEPT ![t] = NULL]
    /\ Goto(t, "answered")

Nobody == [t \in Tasks |-> NULL]

Init ==
    /\ runs = <<>> /\ clock = 0 /\ tokens = {} /\ made = 0
    /\ pc = [t \in Tasks |-> "idle"]
    /\ req = Nobody /\ state_id = Nobody /\ context = Nobody /\ user = Nobody
    /\ charged = [t \in Tasks |-> FALSE]
    /\ lines = [t \in Tasks |-> <<>>]
    /\ answer = Nobody

\* CorrelationIdMiddleware, outermost: adopt the client's id or make one up.
Arrive(t) ==
    /\ pc[t] = "idle" /\ IsUp /\ made < MaxRequests
    /\ \E endpoint \in Endpoints, id \in RequestIds \cup {<<"uuid4", made>>} :
         /\ req' = [req EXCEPT ![t] = [endpoint |-> endpoint, id |-> id]]
         /\ state_id' = [state_id EXCEPT ![t] = id]
         /\ context' = [context EXCEPT ![t] = id]
    /\ made' = made + 1
    /\ Goto(t, "size")
    /\ UNCHANGED <<runs, clock, tokens, user, charged, lines, answer>>

\* MaxBodySizeMiddleware: the declared size is too large, 413.
RefuseBySize(t) ==
    /\ pc[t] = "size"
    /\ Respond(t, 413)
    /\ UNCHANGED <<shared, req, state_id, user, charged, lines>>

\* ... or the body is read, and is not JSON, 422.
RefuseMalformed(t) ==
    /\ pc[t] = "size" /\ HasJsonBody(req[t].endpoint)
    /\ Respond(t, 422)
    /\ UNCHANGED <<shared, req, state_id, user, charged, lines>>

EnterRoute(t) ==
    /\ pc[t] = "size"
    /\ Goto(t, CASE IsProtected(req[t].endpoint) -> "token"
                 [] IsLimited(req[t].endpoint)   -> "limit"
                 [] OTHER                        -> "handler")
    /\ UNCHANGED <<shared, req, state_id, context, user, charged, lines, answer>>

\* get_current_user: no token, or one that jwt.decode raises for, 401.
RefuseToken(t) ==
    /\ pc[t] = "token"
    /\ Respond(t, 401)
    /\ UNCHANGED <<shared, req, state_id, user, charged, lines>>

\* Mutant: the rate limit comes before the role.
AuthenticateAndCharge(t) ==
    /\ pc[t] = "token"
    /\ \E token \in tokens :
         /\ IsValid(token)
         /\ user' = [user EXCEPT ![t] = [sub |-> token.sub, role |-> token.role,
                                         tenant_id |-> token.tenantId, at |-> clock]]
    /\ charged' = [charged EXCEPT ![t] = IsLimited(req[t].endpoint)]
    /\ Goto(t, "role")
    /\ UNCHANGED <<shared, req, state_id, context, lines, answer>>

\* get_current_user: identity, role and tenant are the token's.
Authenticate(t) ==
    /\ pc[t] = "token"
    /\ \E token \in tokens :
         /\ IsValid(token)
         /\ user' = [user EXCEPT ![t] = [sub |-> token.sub, role |-> token.role,
                                         tenant_id |-> token.tenantId, at |-> clock]]
    /\ Goto(t, "role")
    /\ UNCHANGED <<shared, req, state_id, context, charged, lines, answer>>

\* Mutant: a denial leaves no line.
RefuseRoleSilently(t) ==
    /\ pc[t] = "role"
    /\ user[t].role \notin AllowedRoles(req[t].endpoint)
    /\ Respond(t, 403)
    /\ UNCHANGED <<shared, req, state_id, user, charged, lines>>

\* require_roles: not one of the allowed roles, 403.
RefuseRole(t) ==
    /\ pc[t] = "role"
    /\ user[t].role \notin AllowedRoles(req[t].endpoint)
    /\ Log(t, <<"authz.denied">>)
    /\ Respond(t, 403)
    /\ UNCHANGED <<shared, req, state_id, user, charged>>

Authorize(t) ==
    /\ pc[t] = "role"
    /\ user[t].role \in AllowedRoles(req[t].endpoint)
    /\ Goto(t, IF IsLimited(req[t].endpoint) THEN "limit" ELSE "parameters")
    /\ UNCHANGED <<shared, req, state_id, context, user, charged, lines, answer>>

\* enforce_login_rate_limit, enforce_sensitive_endpoint_rate_limit: counted
\* and let through, or not counted and turned away with 429.
Charge(t) ==
    /\ pc[t] = "limit"
    /\ charged' = [charged EXCEPT ![t] = TRUE]
    /\ Goto(t, "parameters")
    /\ UNCHANGED <<shared, req, state_id, context, user, lines, answer>>

RefuseByLimit(t) ==
    /\ pc[t] = "limit"
    /\ Respond(t, 429)
    /\ UNCHANGED <<shared, req, state_id, user, charged, lines>>

\* The parameters do not validate, or are refused by the handler before it
\* does anything (export without filter, a bad period, no tenant), 422.
RefuseParameters(t) ==
    /\ pc[t] = "parameters" /\ HasParameters(req[t].endpoint)
    /\ Respond(t, 422)
    /\ UNCHANGED <<shared, req, state_id, user, charged, lines>>

\* list_audit_events: a reader without a tenant, 403.
IsTenantlessReader(t) ==
    /\ req[t].endpoint = "list"
    /\ user[t].role = "READER" /\ user[t].tenant_id = NULL

RefuseTenantlessReader(t) ==
    /\ pc[t] = "parameters" /\ IsTenantlessReader(t)
    /\ Respond(t, 403)
    /\ UNCHANGED <<shared, req, state_id, user, charged, lines>>

Validate(t) ==
    /\ pc[t] = "parameters"
    /\ ~IsTenantlessReader(t)
    /\ (req[t].endpoint = "append") => (user[t].tenant_id # NULL)
    /\ Goto(t, "handler")
    /\ UNCHANGED <<shared, req, state_id, context, user, charged, lines, answer>>

\* login: the credentials are those of a configured user.
Login(t) ==
    /\ pc[t] = "handler" /\ req[t].endpoint = "login"
    /\ \E username \in DOMAIN settings.auth_users :
         LET token == create_access_token(username)
         IN  /\ Cardinality(tokens \cup {token}) <= MaxTokens
             /\ tokens' = tokens \cup {token}
    /\ Log(t, SuccessLine("login"))
    /\ Respond(t, 200)
    /\ UNCHANGED <<runs, clock, made, req, state_id, user, charged>>

\* login: an unknown user or a wrong password, 401.
LoginFails(t) ==
    /\ pc[t] = "handler" /\ req[t].endpoint = "login"
    /\ Log(t, <<"auth.login.failure">>)
    /\ Respond(t, 401)
    /\ UNCHANGED <<shared, req, state_id, user, charged>>

RefuseInHandler(t) ==
    /\ pc[t] = "handler"
    /\ \E status \in Refusals(req[t].endpoint) : Respond(t, status)
    /\ UNCHANGED <<shared, req, state_id, user, charged, lines>>

\* Any other handler does its work and writes its line; verification may find
\* a broken chain.
Handle(t) ==
    /\ pc[t] = "handler" /\ req[t].endpoint # "login"
    /\ \E broken \in IF req[t].endpoint = "verify" THEN BOOLEAN ELSE {FALSE} :
         Log(t, IF broken THEN <<"chain.verification_failed">> ELSE SuccessLine(req[t].endpoint))
    /\ Goto(t, "response")
    /\ UNCHANGED <<shared, req, state_id, context, user, charged, answer>>

\* The handler's result becomes the response.
SendResponse(t) ==
    /\ pc[t] = "response"
    /\ Respond(t, 200)
    /\ UNCHANGED <<shared, req, state_id, user, charged, lines>>

\* Mutant: the context is reset only when call_next returns.
RaiseKeepingContext(t) ==
    /\ pc[t] \in {"handler", "response"}
    /\ Goto(t, "unwound")
    /\ UNCHANGED <<shared, req, state_id, context, user, charged, lines, answer>>

\* An exception nobody handles, in the handler or while its response is built,
\* unwinds through CorrelationIdMiddleware, which resets the context.
Raise(t) ==
    /\ pc[t] \in {"handler", "response"}
    /\ context' = [context EXCEPT ![t] = NULL]
    /\ Goto(t, "unwound")
    /\ UNCHANGED <<shared, req, state_id, user, charged, lines, answer>>

\* Mutant: the id is taken from the context as everywhere else.
HandleUnexpectedFromContext(t) ==
    /\ pc[t] = "unwound"
    /\ lines' = [lines EXCEPT ![t] = Append(@, [event |-> "unhandled_exception", id |-> context[t]])]
    /\ answer' = [answer EXCEPT ![t] = [status |-> 500, id |-> context[t]]]
    /\ Goto(t, "answered")
    /\ UNCHANGED <<shared, req, state_id, context, user, charged>>

\* handle_unexpected_exception: the id is the one in request.state.
HandleUnexpected(t) ==
    /\ pc[t] = "unwound"
    /\ lines' = [lines EXCEPT ![t] = Append(@, [event |-> "unhandled_exception", id |-> state_id[t]])]
    /\ answer' = [answer EXCEPT ![t] = [status |-> 500, id |-> state_id[t]]]
    /\ Goto(t, "answered")
    /\ UNCHANGED <<shared, req, state_id, context, user, charged>>

\* The request is over.
Finish(t) ==
    /\ pc[t] = "answered"
    /\ Goto(t, "idle")
    /\ req' = [req EXCEPT ![t] = NULL] /\ state_id' = [state_id EXCEPT ![t] = NULL]
    /\ user' = [user EXCEPT ![t] = NULL]
    /\ charged' = [charged EXCEPT ![t] = FALSE]
    /\ lines' = [lines EXCEPT ![t] = <<>>] /\ answer' = [answer EXCEPT ![t] = NULL]
    /\ UNCHANGED <<shared, context>>

-----------------------------------------------------------------------------
(* The process.                                                            *)

\* Started with settings that pass their validation; with others it exits.
Start ==
    /\ ~IsUp /\ Len(runs) < MaxRuns
    /\ \E c \in Configs :
         /\ IsAccepted(c)
         /\ runs' = Append(runs, [settings |-> c, from |-> clock, until |-> NULL])
    /\ UNCHANGED <<clock, tokens, made, request>>

\* Stopped or crashed, with all it was doing.
Stop ==
    /\ IsUp
    /\ runs' = [runs EXCEPT ![Len(runs)].until = clock]
    /\ pc' = [t \in Tasks |-> "idle"]
    /\ req' = Nobody /\ state_id' = Nobody /\ context' = Nobody /\ user' = Nobody
    /\ charged' = [t \in Tasks |-> FALSE]
    /\ lines' = [t \in Tasks |-> <<>>]
    /\ answer' = Nobody
    /\ UNCHANGED <<clock, tokens, made>>

Tick ==
    /\ clock < MaxTime
    /\ clock' = clock + 1
    /\ UNCHANGED <<runs, tokens, made, request>>

Next ==
    \/ \E t \in Tasks :
         \/ Arrive(t) \/ RefuseBySize(t) \/ RefuseMalformed(t) \/ EnterRoute(t)
         \/ RefuseToken(t) \/ Authenticate(t) \/ RefuseRole(t) \/ Authorize(t)
         \/ Charge(t) \/ RefuseByLimit(t)
         \/ RefuseParameters(t) \/ RefuseTenantlessReader(t) \/ Validate(t)
         \/ Login(t) \/ LoginFails(t) \/ RefuseInHandler(t) \/ Handle(t)
         \/ SendResponse(t) \/ Raise(t) \/ HandleUnexpected(t) \/ Finish(t)
    \/ Start \/ Stop \/ Tick

Spec == Init /\ [][Next]_vars

-----------------------------------------------------------------------------
(* Correctness.                                                            *)

Statuses == {200, 401, 403, 404, 409, 413, 422, 429, 500}

\* Types: the process, and what each request has where it is.
TypeOK ==
    /\ \A k \in DOMAIN runs : /\ runs[k].settings \in Configs
                              /\ runs[k].from \in 0..clock
                              /\ runs[k].until \in (0..clock) \cup {NULL}
    /\ clock \in 0..MaxTime
    /\ \A token \in tokens : token.sub \in Users /\ token.exp <= clock + ExpireTime
    /\ \A t \in Tasks :
         /\ (pc[t] \in {"idle", "unwound", "answered"}) <=> (context[t] = NULL)
         /\ (pc[t] = "answered") <=> (answer[t] # NULL)
         /\ (answer[t] # NULL) => (answer[t].status \in Statuses)
         /\ (pc[t] = "role") => (user[t] # NULL)

\* Whatever other requests do at the same time, and whether its handler
\* answers or raises, each line a request leaves in the log and its response
\* carry the id it came in with or was given (security-logging-design.md: "one
\* id per request").
IdsNameTheRequest ==
    \A t \in Tasks :
      /\ \A i \in DOMAIN lines[t] : lines[t][i].id = req[t].id
      /\ (answer[t] # NULL) => (answer[t].id = req[t].id)

\* The log accounts for the answers: each denial by role, each login, each
\* sensitive operation and each unexpected error has its line, exactly one,
\* and no other answer has any.  A 500 may follow the line of an operation that
\* was done; the 403 of a reader without a tenant has no line.
LogAccountsForAnswers ==
    \A t \in Tasks : (answer[t] # NULL) =>
      LET status   == answer[t].status
          endpoint == req[t].endpoint
          events   == [i \in DOMAIN lines[t] |-> lines[t][i].event]
          Done     == {SuccessLine(endpoint)} \cup
                        IF endpoint = "verify" THEN {<<"chain.verification_failed">>} ELSE {}
      IN  events \in
            CASE status = 200 -> Done
              [] status = 500 -> {Append(done, "unhandled_exception") : done \in Done \cup {<<>>}}
              [] status = 403 /\ user[t].role \notin AllowedRoles(endpoint) -> {<<"authz.denied">>}
              [] status = 401 /\ endpoint = "login" -> {<<"auth.login.failure">>}
              [] OTHER -> {<<>>}

\* Budget is spent by those who may spend it: a caller refused for size, token
\* or role keeps its budget, and nothing a limiter guards is done uncounted.
\* (Bad parameters are found after the count: a 422 costs.  A call the limiter
\* turns away is not counted, rate_limit.py:56-58, although the docstring of
\* check, rate_limit.py:45-48, says "Every call counts against the limit".)
ChargedWhenAdmitted ==
    \A t \in Tasks : (answer[t] # NULL /\ IsLimited(req[t].endpoint)) =>
      /\ (answer[t].status \in {200, 500, 422}) => charged[t]
      /\ charged[t] => /\ answer[t].status \notin {403, 413, 429}
                       /\ (answer[t].status = 401) => (req[t].endpoint = "login")

\* A user's role and tenant in a request are those some run of the process was
\* configured with less than ExpireTime before, a run with the secret key,
\* issuer and audience of the present one: restarts change or take away rights
\* with that delay, and at once with a new key.
RightsWereConfigured ==
    \A t \in Tasks : (user[t] # NULL) =>
      \E k \in DOMAIN runs :
        LET then == runs[k].settings
        IN  /\ then.secret_key = settings.secret_key /\ then.service = settings.service
            /\ user[t].sub \in DOMAIN then.auth_users
            /\ then.auth_users[user[t].sub].role = user[t].role
            /\ then.auth_users[user[t].sub].tenant_id = user[t].tenant_id
            /\ (runs[k].until # NULL) => (user[t].at < runs[k].until + ExpireTime)

\* A request is never served as a user who is not configured any more
\* (get_current_user: "a well-formed token for a since-removed user" collapses
\* "to the same generic 401").
RemovedUsersAreRefused ==
    \A t \in Tasks : (user[t] # NULL) => (user[t].sub \in DOMAIN settings.auth_users)
=============================================================================
