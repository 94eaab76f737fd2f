------------------------------ MODULE Gateway ------------------------------
(***************************************************************************)
(* What stands between a client and a use case: routing, the rate limiter, *)
(* the check of the access token, parsing and validation of the input,     *)
(* and, on the way back, the translation of an error by the use case, what *)
(* metrics and the access log make of it, and its translation by the       *)
(* central error handler into a status, a code and a message.              *)
(*                                                                         *)
(* An error is what errors.Is and errors.As can find in its chain.         *)
(* fmt.Errorf with %w keeps that, so wrapping does not show.               *)
(***************************************************************************)
EXTENDS Integers, Sequences

CONSTANTS
    Users,    \* ids of users; 0 is the bootstrap admin
    TTL,      \* cfg.JWTTTL, in ticks
    Foreign,  \* access tokens that this server did not issue
    MaxTime   \* bound: the clock stops here

\* An access token; exp = -1 is one without expiry.
AccessToken == [user_id : Int, username : {"some", "blank"}, is_admin : BOOLEAN, alg : {"HS256", "other"}, secret : {"ours", "other"},
                issuer : {"ours", "other"}, nbf : Int, exp : Int]
NoToken == [user_id |-> 0, username |-> "blank", is_admin |-> FALSE, alg |-> "other", secret |-> "other",
            issuer |-> "other", nbf |-> 0, exp |-> -1]

ASSUME GatewayAssumption ==
    /\ Users \subseteq Nat \ {0}
    /\ TTL \in Nat \ {0} /\ MaxTime \in Nat
    /\ Foreign \subseteq AccessToken

\* validateIdentity: a user with a name; only the bootstrap admin has id 0.
validateIdentity(t) == t.user_id >= 0 /\ (t.user_id = 0 => t.is_admin) /\ t.username # "blank"

\* Who does not have this server's secret cannot make its tokens: a token from
\* elsewhere lacks at least one thing that every issued token has.
ASSUME UnforgeableAssumption ==
    \A t \in Foreign : ~ /\ t.alg = "HS256" /\ t.secret = "ours" /\ t.issuer = "ours"
                         /\ t.exp # -1 /\ validateIdentity(t)

VARIABLES
    now,      \* the clock
    issued,   \* history: access tokens this server has handed out
    ep,       \* endpoint of the request that is handled, or "none"
    rest,     \* stages it still has to pass
    token,    \* access token it carries
    seen,     \* when the token was checked, or -1
    cause,    \* why the use case failed, or "ok"
    err,      \* the error that the handlers return
    resp,     \* status of the response while the middleware runs
    outcome,  \* outcome that the use case has counted, or "none"
    gauge,    \* httpInFlight
    rec,      \* what Metrics and RequestLogger have recorded
    ans       \* the answer

vars == <<now, issued, ep, rest, token, seen, cause, err, resp, outcome, gauge, rec, ans>>

-----------------------------------------------------------------------------
(* Errors.                                                                 *)

Sentinels == {"notfound", "conflict", "validation", "credentials", "unauthorized", "forbidden",
              "reuse", "revoked", "deadline", "canceled"}

\* is: sentinels in the chain; fiber: status of a *fiber.Error, or 0 (fiber's own
\* for a request that it cannot read: malformed, too slow, its body or headers
\* too large, the connection lost); fields: validator.ValidationErrors.
ServerStatuses == {400, 408, 413, 431, 502}
FiberStatuses == ServerStatuses \cup {404, 405, 429}
Errors == [is : SUBSET Sentinels, fiber : FiberStatuses \cup {0}, fields : BOOLEAN]
Err(S) == [is |-> S, fiber |-> 0, fields |-> FALSE]
FiberErr(c) == [Err({}) EXCEPT !.fiber = c]
NoErr == Err({"nil"})

InTime(e) == {"deadline", "canceled"} \cap e.is = {}

StatusFor(e) ==
    IF e.fiber # 0 THEN e.fiber
    ELSE IF e.fields THEN 400
    ELSE IF "notfound" \in e.is THEN 404
    ELSE IF "conflict" \in e.is THEN 409
    ELSE IF "validation" \in e.is THEN 400
    ELSE IF {"credentials", "unauthorized"} \cap e.is # {} THEN 401
    ELSE IF "forbidden" \in e.is THEN 403
    ELSE IF ~InTime(e) THEN 503 ELSE 500

\* The second switch of CodeFor, on the status.
CodeOfStatus(s) ==
    CASE s = 400 -> "validation_error" [] s = 401 -> "unauthorized" [] s = 403 -> "forbidden"
      [] s = 404 -> "not_found" [] s = 405 -> "method_not_allowed" [] s = 409 -> "conflict"
      [] s = 413 -> "payload_too_large" [] s = 429 -> "rate_limited" [] s = 503 -> "unavailable"
      [] s \notin {400, 401, 403, 404, 405, 409, 413, 429, 503} ->
            IF 400 <= s /\ s < 500 THEN "bad_request" ELSE "internal_error"

\* Mutant: forbidden shares the case of unauthorized, as in StatusFor's neighbour.
CodeFor_ForbiddenIsUnauthorized(e) ==
    IF "notfound" \in e.is THEN "not_found"
    ELSE IF "conflict" \in e.is THEN "conflict"
    ELSE IF "validation" \in e.is THEN "validation_error"
    ELSE IF "credentials" \in e.is THEN "invalid_credentials"
    ELSE IF {"unauthorized", "forbidden"} \cap e.is # {} THEN "unauthorized"
    ELSE CodeOfStatus(StatusFor(e))

CodeFor(e) ==
    IF "notfound" \in e.is THEN "not_found"
    ELSE IF "conflict" \in e.is THEN "conflict"
    ELSE IF "validation" \in e.is THEN "validation_error"
    ELSE IF "credentials" \in e.is THEN "invalid_credentials"
    ELSE IF "unauthorized" \in e.is THEN "unauthorized"
    ELSE IF "forbidden" \in e.is THEN "forbidden"
    ELSE IF ~InTime(e) THEN "unavailable"
    ELSE IF e.fields THEN "validation_error"
    ELSE CodeOfStatus(StatusFor(e))

\* The outcome that Register and Login count.
outcomeOf(e) ==
    IF e = NoErr THEN "success"
    ELSE IF {"validation", "conflict", "notfound", "forbidden", "credentials", "unauthorized"} \cap e.is # {}
    THEN "rejected" ELSE "failure"

\* Mutant: the message of a timeout is sent as it is.
Fixed_500(s) == s = 500

\* NewErrorHandler replaces the message.
Fixed(s) == s \in {500, 503}

NoAnswer == [status |-> 0, code |-> "none", message |-> "none", retry |-> FALSE]

\* The answer to error e.  fiber's limiter has set Retry-After before it returns
\* its error, and the error handler keeps the header.
Failure(e) ==
    [status |-> StatusFor(e), code |-> CodeFor(e),
     message |-> IF Fixed(StatusFor(e)) THEN "fixed" ELSE "of the error",
     retry |-> StatusFor(e) \in {429, 503}]

NoRecord == [levels |-> {}, route |-> "none", status |-> 0]

Success(s) == [NoAnswer EXCEPT !.status = s, !.code = "ok", !.message = "body"]

-----------------------------------------------------------------------------
(* Routes.                                                                 *)

AuthPosts == {"register", "login", "refresh"}
OfTasks == {"task create", "task list", "task get", "task update", "task delete", "task toggle"}
OfUsers == {"user list", "user get", "user update", "user delete"}
Protected == OfTasks \cup OfUsers \cup {"me"}
OfProbes == {"healthz", "readyz", "metrics", "preflight"}
\* Requests without a route.  The last one asks for the metrics of a server
\* that has them on another listener, or not at all.
Unrouted == {"unknown path", "wrong method", "unknown api path", "wrong api method", "metrics elsewhere"}
Endpoints == AuthPosts \cup {"logout"} \cup Protected \cup OfProbes \cup Unrouted

\* The middleware of the route; that of the protected group is run for every
\* path below /api/v1 that has no other route.
Middleware(e) == IF e \in AuthPosts THEN <<"limit">>
                 ELSE IF e \in Protected \cup {"unknown api path", "wrong api method"} THEN <<"auth">> ELSE <<>>

\* The steps of the handler: parse the parameters and the body, validate it,
\* call the use case.
AuthHandler(e) == IF e = "me" THEN <<"call">> ELSE <<"body", "fields", "call">>
TaskHandler(e) ==
    CASE e = "task create" -> <<"body", "fields", "call">>
      [] e = "task list"   -> <<"query", "call">>
      [] e = "task update" -> <<"id", "body", "call">>
      [] e \in {"task get", "task delete", "task toggle"} -> <<"id", "call">>
UserHandler(e) ==
    CASE e = "user list"   -> <<"query", "call">>
      [] e = "user update" -> <<"id", "body", "fields", "call">>
      [] e \in {"user get", "user delete"} -> <<"id", "call">>
OtherHandler(e) == IF e = "readyz" THEN <<"ping">> ELSE IF e \in OfProbes THEN <<"call">> ELSE <<"route">>

Stages(e) ==
    Middleware(e) \o (IF e \in OfTasks THEN TaskHandler(e)
                      ELSE IF e \in OfUsers THEN UserHandler(e)
                      ELSE IF e \in OfProbes \cup Unrouted THEN OtherHandler(e) ELSE AuthHandler(e))

StatusOfSuccess(e) ==
    CASE e \in {"register", "task create"} -> 201
      [] e \in {"logout", "task delete", "user delete", "preflight"} -> 204
      [] OTHER -> 200

\* Why a use case may fail: "late" is the deadline, "dropped" the shutdown,
\* "broken" anything unexpected (in the database, bcrypt or the random source),
\* "no owner" the foreign key of a task whose creator has been deleted; Refresh
\* can also fail before the rotation and after it.
Failures(e) == IF e \in OfProbes \cup {"me"} THEN {}
               ELSE {"late", "dropped", "broken"} \cup IF e = "task create" THEN {"no owner"}
                                                      ELSE IF e = "refresh" THEN {"no random", "no token"} ELSE {}
AuthRefusals(e) ==
    CASE e = "register" -> {"invalid", "reserved", "duplicate"}
      [] e = "login"    -> {"mismatch", "no user", "changed", "user gone"}
      [] e = "refresh"  -> {"blank", "reuse", "revoked", "unknown", "expired"}
      [] e = "logout"   -> {"blank"}
      [] e = "me"       -> {}
TaskRefusals(e) ==
    {"not allowed"} \cup
    CASE e = "task create" -> {"invalid"}
      [] e = "task list"   -> {}
      [] e = "task update" -> {"invalid", "missing"}
      [] e = "task toggle" -> {"missing", "contended"}
      [] e \in {"task get", "task delete"} -> {"missing"}
UserRefusals(e) ==
    {"not allowed"} \cup
    CASE e = "user list"   -> {}
      [] e = "user update" -> {"invalid", "reserved", "duplicate", "missing"}
      [] e \in {"user get", "user delete"} -> {"missing"}
Refusals(e) == IF e \in OfTasks THEN TaskRefusals(e)
               ELSE IF e \in OfUsers THEN UserRefusals(e)
               ELSE IF e \in OfProbes \cup Unrouted THEN {} ELSE AuthRefusals(e)

\* The sentinel that the repository or a check returns.
Sentinel(c) ==
    CASE c \in {"no user", "user gone", "unknown", "missing"}          -> {"notfound"}
      [] c \in {"reserved", "duplicate", "changed", "contended"}       -> {"conflict"}
      [] c = "invalid"               -> {"validation"}
      [] c = "mismatch"              -> {"credentials"}
      [] c \in {"blank", "expired"}  -> {"unauthorized"}
      [] c = "not allowed"           -> {"forbidden"}
      [] c = "reuse"                 -> {"reuse"}
      [] c = "revoked"               -> {"revoked"}
      [] c = "late"                  -> {"deadline"}
      [] c = "dropped"               -> {"canceled"}
      [] c \in {"broken", "no owner", "no random", "no token"} -> {}

\* Mutant: Refresh forgets the case of ErrTokenRevoked.
Translate_NoRevoked(e, c) ==
    IF e = "login" /\ c \in {"no user", "changed"} THEN {"credentials"}
    ELSE IF e = "refresh" /\ c \in {"reuse", "unknown"} THEN {"unauthorized"}
    ELSE Sentinel(c)

\* What the use case makes of it: login and Refresh hide why.  A user deleted
\* while the login is in flight keeps ErrNotFound.
Translate(e, c) ==
    IF e = "login" /\ c \in {"no user", "changed"} THEN {"credentials"}
    ELSE IF e = "refresh" /\ c \in {"reuse", "revoked", "unknown"} THEN {"unauthorized"}
    ELSE Sentinel(c)

\* The series that exist from the start, so that the first increment shows.
knownMetricLabels(e) ==
    CASE e \in {"register", "login"} -> {"success", "rejected", "failure"}
      [] e = "refresh" -> {"success", "reuse", "unknown", "expired", "revoked", "failure"}
      [] OTHER -> {}

\* What Register, Login and Refresh count of a call that failed.
Counted(e, c) ==
    CASE e \in {"register", "login"} -> outcomeOf(Err(Translate(e, c)))
      [] e = "refresh" /\ c \in {"reuse", "revoked", "unknown", "expired"} -> c
      [] e = "refresh" /\ c \in {"late", "dropped", "broken"} -> "failure"
      [] e = "refresh" /\ c = "no token" -> "success"
      [] OTHER -> "none"

-----------------------------------------------------------------------------
(* Access tokens.                                                          *)

Generate(u, a) == [user_id |-> u, username |-> "some", is_admin |-> a, alg |-> "HS256", secret |-> "ours",
                   issuer |-> "ours", nbf |-> now, exp |-> now + TTL]

\* Mutant: the issuer is not compared.
Parse_AnyIssuer(t) ==
    /\ t.alg = "HS256" /\ t.secret = "ours"
    /\ t.exp # -1 /\ now < t.exp /\ t.nbf <= now
    /\ validateIdentity(t)

\* Parse accepts t.
Parse(t) ==
    /\ t.alg = "HS256" /\ t.secret = "ours"
    /\ t.exp # -1 /\ now < t.exp /\ t.nbf <= now
    /\ t.issuer = "ours"
    /\ validateIdentity(t)

-----------------------------------------------------------------------------
Init ==
    /\ now = 0
    /\ issued = {}
    /\ ep = "none" /\ rest = <<>> /\ token = NoToken /\ seen = -1
    /\ cause = "ok" /\ err = NoErr /\ resp = 200 /\ outcome = "none"
    /\ gauge = 0 /\ rec = NoRecord /\ ans = NoAnswer

Answered == ans # NoAnswer

Skipped == {"metrics", "metrics elsewhere"}

\* A request comes in, with or without an access token; Metrics counts it
\* unless its path is that of the metrics.
Receive ==
    /\ ep = "none"
    /\ \E e \in Endpoints : ep' = e /\ rest' = Stages(e) /\ gauge' = gauge + IF e \in Skipped THEN 0 ELSE 1
    /\ \E t \in issued \cup Foreign \cup {NoToken} : token' = t
    /\ UNCHANGED <<now, issued, seen, cause, err, resp, outcome, rec, ans>>

\* fiber cannot read the request, because its body is above BodyLimit or for
\* another reason: the error handler is called without the middleware.
Unread ==
    /\ ep = "none"
    /\ ep' = "unread"
    /\ \E c \in ServerStatuses : err' = FiberErr(c) /\ ans' = Failure(FiberErr(c))
    /\ UNCHANGED <<now, issued, rest, token, seen, cause, resp, outcome, gauge, rec>>

Stage(s) == rest # <<>> /\ Head(rest) = s

\* The handlers return error e.
Fail(e) == err' = e /\ rest' = <<>>
Pass == rest' = Tail(rest) /\ UNCHANGED err

\* The limiter, BodyParser, the id and the query parameters.
Check(s, status) ==
    /\ Stage(s)
    /\ Pass \/ Fail(FiberErr(status))
    /\ UNCHANGED <<now, issued, ep, token, seen, cause, resp, outcome, gauge, rec, ans>>

Limit == Check("limit", 429)
Body == Check("body", 400)

\* Mutant: a bad id is unprocessable.
IdParam_Unprocessable == Check("id", 422)

IdParam == Check("id", 400)
Query == Check("query", 400)

\* No route is left, or only one with another method.
NoRoute ==
    /\ Stage("route")
    /\ Fail(FiberErr(IF ep \in {"wrong method", "wrong api method"} THEN 405 ELSE 404))
    /\ UNCHANGED <<now, issued, ep, token, seen, cause, resp, outcome, gauge, rec, ans>>

\* validator.Struct.
Validate ==
    /\ Stage("fields")
    /\ Pass \/ Fail([Err({}) EXCEPT !.fields = TRUE])
    /\ UNCHANGED <<now, issued, ep, token, seen, cause, resp, outcome, gauge, rec, ans>>

\* middleware.Auth.
Auth ==
    /\ Stage("auth")
    /\ IF Parse(token) THEN Pass /\ seen' = now
       ELSE Fail(Err({"unauthorized"})) /\ UNCHANGED seen
    /\ UNCHANGED <<now, issued, ep, token, cause, resp, outcome, gauge, rec, ans>>

\* The use case succeeds; login and Refresh issue an access token.
Succeed ==
    /\ Stage("call")
    /\ resp' = StatusOfSuccess(ep)
    /\ rest' = <<>>
    /\ outcome' = IF ep \in AuthPosts THEN outcomeOf(NoErr) ELSE "none"
    /\ IF ep \in {"login", "refresh"}
       THEN \E u \in Users, a \in BOOLEAN :
               /\ a => ep = "login"
               /\ issued' = issued \cup {Generate(IF a THEN 0 ELSE u, a)}
       ELSE UNCHANGED issued
    /\ UNCHANGED <<now, ep, token, seen, cause, err, gauge, rec, ans>>

Refuse ==
    /\ Stage("call")
    /\ \E c \in Refusals(ep) \cup Failures(ep) :
          cause' = c /\ Fail(Err(Translate(ep, c))) /\ outcome' = Counted(ep, c)
    /\ UNCHANGED <<now, issued, ep, token, seen, resp, gauge, rec, ans>>

\* A handler panics; recover, innermost but for CORS, makes an error of it.
Panic ==
    /\ Stage("call")
    /\ cause' = "panic" /\ Fail(Err({}))
    /\ UNCHANGED <<now, issued, ep, token, seen, resp, outcome, gauge, rec, ans>>

\* ReadyHandler: a check that fails is an answer, not an error.
Ready ==
    /\ Stage("ping")
    /\ \/ resp' = 200 /\ UNCHANGED cause
       \/ resp' = 503 /\ cause' = "not ready"
    /\ rest' = <<>>
    /\ UNCHANGED <<now, issued, ep, token, seen, err, outcome, gauge, rec, ans>>

-----------------------------------------------------------------------------
(* The way back through the middleware.                                    *)

\* Path of the last route that fiber reached.
Route ==
    IF ep \in {"unknown path", "wrong method", "preflight"} THEN "/"
    ELSE IF seen = -1 /\ ep \in OfTasks \cup OfUsers THEN "/api/v1"
    ELSE IF ep \in Unrouted THEN "/api/v1" ELSE ep

routeLabel(e) == IF e.fiber = 404 /\ "notfound" \notin e.is THEN "unmatched" ELSE Route

\* Mutant: the status of the response, which the error handler has yet to set.
observedStatus_Response == resp

\* Metrics and RequestLogger run before the error handler.
observedStatus == IF err = NoErr THEN resp ELSE StatusFor(err)

\* The level of the line in the access log.
LogLevel(s) == IF s >= 500 THEN "error" ELSE IF s >= 400 THEN "warn" ELSE "info"

\* The error handler logs what went wrong on this side, with the detail that the
\* client is not given.
ErrorHandlerLog(e) ==
    IF e = NoErr THEN {} ELSE IF StatusFor(e) = 500 THEN {"error"} ELSE IF StatusFor(e) = 503 THEN {"warn"} ELSE {}

\* RequestLogger and Metrics record the request, its deferred DecInFlight runs,
\* and fiber hands an error to the error handler.
Unwind ==
    /\ ep # "none" /\ rest = <<>> /\ ~Answered
    /\ rec' = [levels |-> {LogLevel(observedStatus)} \cup ErrorHandlerLog(err),
               route |-> IF ep \in Skipped THEN "none" ELSE routeLabel(err),
               status |-> IF ep \in Skipped THEN 0 ELSE observedStatus]
    /\ gauge' = gauge - IF ep \in Skipped THEN 0 ELSE 1
    /\ ans' = IF err = NoErr THEN Success(resp) ELSE Failure(err)
    /\ UNCHANGED <<now, issued, ep, rest, token, seen, cause, err, resp, outcome>>

Return ==
    /\ Answered
    /\ ep' = "none" /\ token' = NoToken /\ seen' = -1
    /\ cause' = "ok" /\ err' = NoErr /\ resp' = 200 /\ outcome' = "none" /\ rec' = NoRecord /\ ans' = NoAnswer
    /\ UNCHANGED <<now, issued, rest, gauge>>

Tick ==
    /\ now < MaxTime
    /\ now' = now + 1
    /\ UNCHANGED <<issued, ep, rest, token, seen, cause, err, resp, outcome, gauge, rec, ans>>

Next ==
    \/ Receive \/ Unread \/ Limit \/ Body \/ IdParam \/ Query \/ NoRoute \/ Validate \/ Auth
    \/ Succeed \/ Refuse \/ Panic \/ Ready \/ Unwind \/ Return \/ Tick

Spec == Init /\ [][Next]_vars

-----------------------------------------------------------------------------
Failed == {"late", "dropped", "broken", "no owner", "no random", "no token", "panic"}
Late == {"late", "dropped"}

TypeOK ==
    /\ now \in 0 .. MaxTime
    /\ issued \subseteq AccessToken
    /\ ep \in Endpoints \cup {"none", "unread"}
    /\ token \in AccessToken
    /\ seen \in -1 .. MaxTime
    /\ err \in Errors \cup {NoErr}
    /\ resp \in {200, 201, 204, 503}
    /\ outcome \in {"none", "success", "rejected", "failure", "reuse", "revoked", "unknown", "expired"}
    /\ gauge \in {0, 1}
    /\ ans.status \in {0, 200, 201, 204, 400, 401, 403, 404, 405, 408, 409, 413, 429, 431, 500, 502, 503}

\* What the client did wrong is a 4xx, what did not finish in time a 503 and
\* nothing else a 500: on no path does a use case let a domain error through
\* that the error handler takes for an internal one (README, Error responses).
StatusTellsWhoseFault ==
    Answered => /\ cause \in Failed => ans.status = IF cause \in Late THEN 503 ELSE 500
                /\ cause \notin Failed \cup {"ok", "not ready"} => ans.status \in 400 .. 499

\* Two functions with different orders of cases agree: the code of an error
\* response always belongs to its status.
CodeMatchesStatus ==
    Answered /\ err # NoErr =>
        \/ ans.code = CodeOfStatus(ans.status)
        \/ ans.code = "invalid_credentials" /\ ans.status = 401

\* No text of an unexpected error or of a timeout reaches the client, and the
\* error responses that are worth a retry, and only they, say when: timeouts and
\* the answers of the rate limiter.
FailuresTellNothing ==
    Answered => /\ cause \in Failed => ans.message = "fixed"
                /\ ans.retry <=> cause \in Late \/ ans.status = 429

\* Dashboards see what the client sees, a panic included: the recorded status is
\* the one that is sent although the error handler runs later; no request that
\* has a route is "unmatched", a 404 of a use case included; the gauge is back to
\* zero; and the outcomes that alerts use have a series from the start and blame
\* the service exactly when it failed (README, Metrics).
MetricsAgree ==
    Answered /\ ep # "unread" =>
        /\ ep \notin Skipped => rec.status = ans.status
        /\ rec.route = "unmatched" => ep \in Unrouted
        /\ gauge = 0
        /\ outcome \in knownMetricLabels(ep) \cup {"none"}
        /\ outcome = "failure" => ans.status \in {500, 503}
        /\ outcome \in {"rejected", "reuse", "revoked", "unknown", "expired"} => ans.status \in 400 .. 499
        /\ ep \in {"register", "login"} /\ cause \notin {"ok", "panic"} => outcome \in {"rejected", "failure"}

\* A use case of a protected route runs only for an access token that this
\* server issued and that had not expired when it was checked.
ClaimsAreGenuine ==
    ep \in Protected /\ seen # -1 => token \in issued /\ token.nbf <= seen /\ seen < token.exp

=============================================================================
