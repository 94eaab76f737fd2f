--------------------------- MODULE Gateway_proofs ---------------------------
(***************************************************************************)
(* Proofs about Gateway, for every set of users, lifetime of tokens and    *)
(* set of foreign tokens.                                                  *)
(***************************************************************************)
EXTENDS Gateway, TLAPS

-----------------------------------------------------------------------------
(* Errors and their answers.                                               *)

FieldsErr == [Err({}) EXCEPT !.fields = TRUE]
DomainSentinels == {"notfound", "conflict", "validation", "credentials", "unauthorized", "forbidden"}

\* What the middleware and the parsers return, and what use cases return: errors
\* of the request, of the domain, of time and of anything else.
RequestErrs == {FiberErr(c) : c \in FiberStatuses} \cup {FieldsErr, Err({"unauthorized"})}
DomainErrs == {Err({x}) : x \in DomainSentinels}
LateErrs == {Err({"deadline"}), Err({"canceled"})}
KnownErrs == RequestErrs \cup DomainErrs \cup LateErrs \cup {Err({})}

CodeFits(e) ==
    \/ CodeFor(e) = CodeOfStatus(StatusFor(e))
    \/ CodeFor(e) = "invalid_credentials" /\ StatusFor(e) = 401

LEMMA FiberAnswers ==
    ASSUME NEW c \in FiberStatuses
    PROVE  StatusFor(FiberErr(c)) = c /\ CodeFits(FiberErr(c)) /\ FiberErr(c) \in Errors /\ FiberErr(c) # NoErr
  <1>1. FiberErr(c).is = {} /\ FiberErr(c).fiber = c /\ FiberErr(c).fields = FALSE /\ c # 0
    BY DEF FiberErr, Err, FiberStatuses, ServerStatuses
  <1>2. StatusFor(FiberErr(c)) = c
    BY <1>1 DEF StatusFor
  <1>3. CodeFor(FiberErr(c)) = CodeOfStatus(c)
    BY <1>1, <1>2 DEF CodeFor, InTime
  <1>4. FiberErr(c) \in Errors
    <2> DEFINE r == Err({})
               F == FiberStatuses \cup {0}
    <2>1. r \in [is : SUBSET Sentinels, fiber : F, fields : BOOLEAN] /\ FiberErr(c) = [r EXCEPT !.fiber = c]
      BY DEF FiberErr, Err
    <2> HIDE DEF r
    <2>2. c \in F
      OBVIOUS
    <2> HIDE DEF F
    <2>3. [r EXCEPT !.fiber = c] \in [is : SUBSET Sentinels, fiber : F, fields : BOOLEAN]
      BY <2>1, <2>2
    <2> QED
      BY <2>1, <2>3 DEF Errors, F
  <1>5. FiberErr(c) # NoErr
    BY <1>1 DEF NoErr, Err
  <1> QED
    BY <1>2, <1>3, <1>4, <1>5 DEF CodeFits

LEMMA FieldsAnswers ==
    StatusFor(FieldsErr) = 400 /\ CodeFits(FieldsErr) /\ FieldsErr \in Errors /\ FieldsErr # NoErr
  <1>1. FieldsErr.is = {} /\ FieldsErr.fiber = 0 /\ FieldsErr.fields = TRUE
    BY DEF FieldsErr, Err
  <1>2. StatusFor(FieldsErr) = 400
    BY <1>1 DEF StatusFor
  <1>3. CodeFor(FieldsErr) = "validation_error"
    BY <1>1 DEF CodeFor, InTime
  <1>4. FieldsErr \in Errors
    BY DEF FieldsErr, Err, Errors
  <1> QED
    BY <1>1, <1>2, <1>3, <1>4 DEF CodeFits, CodeOfStatus, NoErr, Err

StatusOf(x) ==
    CASE x = "notfound" -> 404 [] x = "conflict" -> 409 [] x = "validation" -> 400
      [] x \in {"credentials", "unauthorized"} -> 401 [] x = "forbidden" -> 403
      [] x \in {"deadline", "canceled"} -> 503

LEMMA SentinelAnswers ==
    ASSUME NEW x \in DomainSentinels \cup {"deadline", "canceled"}
    PROVE  StatusFor(Err({x})) = StatusOf(x) /\ CodeFits(Err({x})) /\ Err({x}) \in Errors /\ Err({x}) # NoErr
  <1>1. Err({x}).is = {x} /\ Err({x}).fiber = 0 /\ Err({x}).fields = FALSE
    BY DEF Err
  <1>2. StatusFor(Err({x})) = StatusOf(x)
    BY <1>1 DEF StatusFor, StatusOf, InTime, DomainSentinels
  <1>3. CodeFits(Err({x}))
    BY <1>1, <1>2 DEF CodeFits, CodeFor, CodeOfStatus, StatusOf, InTime, DomainSentinels
  <1>4. Err({x}) \in Errors
    BY DEF Err, Errors, Sentinels, DomainSentinels
  <1>5. Err({x}) # NoErr
    BY <1>1 DEF NoErr, Err, DomainSentinels
  <1> QED
    BY <1>2, <1>3, <1>4, <1>5

LEMMA UnexpectedAnswers ==
    StatusFor(Err({})) = 500 /\ CodeFits(Err({})) /\ Err({}) \in Errors /\ Err({}) # NoErr
  <1>1. Err({}).is = {} /\ Err({}).fiber = 0 /\ Err({}).fields = FALSE
    BY DEF Err
  <1>2. StatusFor(Err({})) = 500
    BY <1>1 DEF StatusFor, InTime
  <1>3. CodeFits(Err({}))
    BY <1>1, <1>2 DEF CodeFits, CodeFor, InTime
  <1> QED
    BY <1>1, <1>2, <1>3 DEF Errors, NoErr, Err

\* The answers to every error that the handlers return.
LEMMA KnownAnswers ==
    /\ \A e \in KnownErrs : CodeFits(e) /\ e \in Errors /\ e # NoErr
    /\ \A e \in RequestErrs : StatusFor(e) \in {401} \cup FiberStatuses
    /\ \A e \in DomainErrs : StatusFor(e) \in {400, 401, 403, 404, 409}
    /\ \A e \in LateErrs : StatusFor(e) = 503
    /\ StatusFor(Err({})) = 500
  <1>1. \A e \in RequestErrs : CodeFits(e) /\ e \in Errors /\ e # NoErr /\ StatusFor(e) \in {401} \cup FiberStatuses
    <2>1. \A c \in FiberStatuses :
            StatusFor(FiberErr(c)) = c /\ CodeFits(FiberErr(c)) /\ FiberErr(c) \in Errors /\ FiberErr(c) # NoErr
      BY FiberAnswers
    <2>2. /\ StatusFor(Err({"unauthorized"})) = 401 /\ CodeFits(Err({"unauthorized"}))
          /\ Err({"unauthorized"}) \in Errors /\ Err({"unauthorized"}) # NoErr
      BY SentinelAnswers DEF DomainSentinels, StatusOf
    <2> QED
      BY <2>1, <2>2, FieldsAnswers DEF RequestErrs, FiberStatuses, ServerStatuses
  <1>2. \A e \in DomainErrs : CodeFits(e) /\ e \in Errors /\ e # NoErr /\ StatusFor(e) \in {400, 401, 403, 404, 409}
    <2>1. \A x \in DomainSentinels : StatusOf(x) \in {400, 401, 403, 404, 409}
      BY DEF DomainSentinels, StatusOf
    <2> TAKE e \in DomainErrs
    <2>2. PICK x \in DomainSentinels : e = Err({x})
      BY DEF DomainErrs
    <2> QED
      BY <2>1, <2>2, SentinelAnswers
  <1>3. \A e \in LateErrs : CodeFits(e) /\ e \in Errors /\ e # NoErr /\ StatusFor(e) = 503
    BY SentinelAnswers DEF LateErrs, StatusOf
  <1> QED
    BY <1>1, <1>2, <1>3, UnexpectedAnswers DEF KnownErrs

-----------------------------------------------------------------------------
(* Routes and use cases.                                                   *)

\* The stages that a request to e may have before it.
Allowed(e) ==
    IF e \in Unrouted THEN {"auth", "route"}
    ELSE IF e = "readyz" THEN {"ping"}
    ELSE {"limit", "auth", "body", "fields", "id", "query", "call"}

LEMMA Tuples ==
    ASSUME NEW S
    PROVE  /\ <<>> \in Seq(S)
           /\ \A a \in S : <<a>> \in Seq(S)
           /\ \A a, b \in S : <<a, b>> \in Seq(S)
           /\ \A a, b, c \in S : <<a, b, c>> \in Seq(S)
           /\ \A a, b, c, d \in S : <<a, b, c, d>> \in Seq(S)
  OBVIOUS

\* The handlers there are: the steps of each are allowed where all of them are.
Handlers == {<<"body", "fields", "call">>, <<"query", "call">>, <<"id", "body", "call">>, <<"id", "call">>,
             <<"id", "body", "fields", "call">>, <<"call">>}

LEMMA HandlersAllowed ==
    ASSUME NEW S, {"body", "fields", "id", "query", "call"} \subseteq S
    PROVE  \A h \in Handlers : h \in Seq(S)
  <1>1. "body" \in S /\ "fields" \in S /\ "id" \in S /\ "query" \in S /\ "call" \in S
    OBVIOUS
  <1>2. <<"body", "fields", "call">> \in Seq(S) /\ <<"id", "body", "call">> \in Seq(S)
    BY <1>1, Tuples
  <1>3. <<"query", "call">> \in Seq(S) /\ <<"id", "call">> \in Seq(S) /\ <<"call">> \in Seq(S)
    BY <1>1, Tuples
  <1>4. <<"id", "body", "fields", "call">> \in Seq(S)
    BY <1>1, Tuples
  <1> QED
    BY <1>2, <1>3, <1>4 DEF Handlers

LEMMA StagesAllowed ==
    ASSUME NEW e \in Endpoints
    PROVE  Stages(e) \in Seq(Allowed(e))
  <1> DEFINE h == IF e \in OfTasks THEN TaskHandler(e)
                  ELSE IF e \in OfUsers THEN UserHandler(e)
                  ELSE IF e \in OfProbes \cup Unrouted THEN OtherHandler(e) ELSE AuthHandler(e)
  <1>1. Middleware(e) \in Seq(Allowed(e))
    <2>1. \/ Middleware(e) = <<>>
          \/ Middleware(e) = <<"limit">> /\ "limit" \in Allowed(e)
          \/ Middleware(e) = <<"auth">> /\ "auth" \in Allowed(e)
      BY DEF Middleware, Allowed, AuthPosts, Protected, OfTasks, OfUsers, Unrouted
    <2> QED
      BY <2>1, Tuples
  <1>2. h \in Seq(Allowed(e))
    <2>1. CASE e \in Unrouted
      <3>1. h = <<"route">> /\ "route" \in Allowed(e)
        BY <2>1 DEF OfTasks, OfUsers, OfProbes, Unrouted, OtherHandler, Allowed
      <3> HIDE DEF h
      <3> QED
        BY <3>1, Tuples
    <2>2. CASE e = "readyz"
      <3>1. h = <<"ping">> /\ "ping" \in Allowed(e)
        BY <2>2 DEF OfTasks, OfUsers, OfProbes, Unrouted, OtherHandler, Allowed
      <3> HIDE DEF h
      <3> QED
        BY <3>1, Tuples
    <2>3. CASE e \notin Unrouted \cup {"readyz"}
      <3>1. {"body", "fields", "id", "query", "call"} \subseteq Allowed(e)
        BY <2>3 DEF Allowed
      <3>2. h \in Handlers
        BY <2>3 DEF Endpoints, Protected, OfTasks, OfUsers, OfProbes, Unrouted, AuthPosts, TaskHandler, UserHandler,
           OtherHandler, AuthHandler, Handlers
      <3> HIDE DEF h
      <3> QED
        BY <3>1, <3>2, HandlersAllowed
    <2> QED
      BY <2>1, <2>2, <2>3
  <1> HIDE DEF h
  <1>3. Middleware(e) \o h \in Seq(Allowed(e))
    BY <1>1, <1>2
  <1> QED
    BY <1>3 DEF Stages, h

\* An endpoint whose use case is called.
Called == Endpoints \ (Unrouted \cup {"readyz"})
Refused == {"invalid", "reserved", "duplicate", "mismatch", "no user", "changed", "user gone", "blank", "reuse",
            "revoked", "unknown", "expired", "not allowed", "missing", "contended"}

LEMMA CausesKnown ==
    ASSUME NEW e \in Called, NEW c \in Refusals(e) \cup Failures(e)
    PROVE  /\ c \in Refused \cup (Failed \ {"panic"})
           /\ c \in {"reuse", "revoked"} => e = "refresh"
  <1>1. c \in Failures(e) => c \in Failed \ {"panic"}
    BY DEF Failures, Failed
  <1>2. c \in Refusals(e) => c \in Refused /\ (c \in {"reuse", "revoked"} => e = "refresh")
    <2>1. CASE e \in OfTasks
      BY <2>1 DEF Refusals, TaskRefusals, OfTasks, Refused
    <2>2. CASE e \in OfUsers
      BY <2>2 DEF Refusals, UserRefusals, OfTasks, OfUsers, Refused
    <2>3. CASE e \in OfProbes \cup Unrouted
      BY <2>3 DEF Refusals, OfTasks, OfUsers, OfProbes, Unrouted
    <2>4. CASE e \in AuthPosts \cup {"logout", "me"}
      BY <2>4 DEF Refusals, AuthRefusals, OfTasks, OfUsers, OfProbes, Unrouted, AuthPosts, Refused
    <2> QED
      BY <2>1, <2>2, <2>3, <2>4 DEF Called, Endpoints, Protected
  <1> QED
    BY <1>1, <1>2 DEF Refused, Failed

\* What a use case makes of its failures: late ones, unexpected ones, and domain
\* errors that the error handler knows.
LEMMA TranslatedErrors ==
    ASSUME NEW e \in Called, NEW c \in Refusals(e) \cup Failures(e)
    PROVE  /\ c \in Late => Err(Translate(e, c)) \in LateErrs
           /\ c \in Failed \ Late => Err(Translate(e, c)) = Err({})
           /\ c \notin Failed => Err(Translate(e, c)) \in DomainErrs
           /\ c \notin {"ok", "not ready", "panic"}
  <1>1. c \in Refused \cup (Failed \ {"panic"}) /\ (c \in {"reuse", "revoked"} => e = "refresh")
    BY CausesKnown
  <1>2. c \in Late => Translate(e, c) \in {{"deadline"}, {"canceled"}}
    BY DEF Late, Translate, Sentinel
  <1>3. c \in Failed \ Late => Translate(e, c) = {}
    BY <1>1 DEF Failed, Late, Refused, Translate, Sentinel
  <1>4. c \notin Failed => \E x \in DomainSentinels : Translate(e, c) = {x}
    BY <1>1 DEF Failed, Refused, Translate, Sentinel, DomainSentinels
  <1> QED
    BY <1>1, <1>2, <1>3, <1>4 DEF LateErrs, DomainErrs, Refused, Failed

\* What Register, Login and Refresh count of it.
LEMMA CountedOutcomes ==
    ASSUME NEW e \in Called, NEW c \in Refusals(e) \cup Failures(e)
    PROVE  /\ Counted(e, c) \in knownMetricLabels(e) \cup {"none"}
           /\ Counted(e, c) = "failure" => c \in Failed
           /\ Counted(e, c) \in {"rejected", "reuse", "revoked", "unknown", "expired"} => c \notin Failed
           /\ e \in {"register", "login"} => Counted(e, c) \in {"rejected", "failure"}
  <1>1. c \in Refused \cup (Failed \ {"panic"}) /\ (c \in {"reuse", "revoked"} => e = "refresh")
    BY CausesKnown
  <1>2. CASE e \in {"register", "login"}
    <2> DEFINE x == Err(Translate(e, c))
    <2>1. Counted(e, c) = outcomeOf(x)
      BY <1>2 DEF Counted
    <2>2. c \in Failed => x.is \cap DomainSentinels = {} /\ x # NoErr
      <3>1. c \in Failed => x \in LateErrs \cup {Err({})}
        BY TranslatedErrors
      <3>2. \A y \in LateErrs \cup {Err({})} : y.is \cap DomainSentinels = {} /\ y # NoErr
        BY KnownAnswers DEF LateErrs, KnownErrs, Err, DomainSentinels
      <3> QED
        BY <3>1, <3>2
    <2>3. c \notin Failed => x.is \cap DomainSentinels # {} /\ x # NoErr
      <3>1. c \notin Failed => x \in DomainErrs
        BY TranslatedErrors
      <3>2. \A y \in DomainErrs : y.is \cap DomainSentinels # {} /\ y # NoErr
        BY KnownAnswers DEF DomainErrs, KnownErrs, Err
      <3> QED
        BY <3>1, <3>2
    <2>4. outcomeOf(x) = IF c \in Failed THEN "failure" ELSE "rejected"
      BY <2>2, <2>3 DEF outcomeOf, DomainSentinels
    <2> QED
      BY <1>2, <2>1, <2>4 DEF knownMetricLabels
  <1>3. CASE e = "refresh"
    BY <1>1, <1>3 DEF Counted, knownMetricLabels, Failed, Refused
  <1>4. CASE e \notin {"register", "login", "refresh"}
    BY <1>4 DEF Counted, knownMetricLabels
  <1> QED
    BY <1>2, <1>3, <1>4

-----------------------------------------------------------------------------
(* The inductive invariant.                                                *)

Untouched == err = NoErr /\ cause = "ok" /\ resp = 200 /\ outcome = "none"

\* A request has stages of its endpoint before it, and nothing has happened to it
\* until the last of them.
Tracks ==
    /\ rest \in Seq(Allowed(ep))
    /\ ep \in {"none", "unread"} \/ Answered => rest = <<>>
    /\ rest # <<>> \/ ep = "none" => Untouched
    /\ ep = "none" => ~Answered
    /\ ep = "unread" => Answered /\ cause = "ok" /\ outcome = "none"

InFlight == gauge = IF ep \in {"none", "unread"} \cup Skipped \/ Answered THEN 0 ELSE 1

\* The error tells the cause, and so does the outcome that has been counted.
Explained ==
    /\ cause = "ok" => \/ err = NoErr /\ resp \in {200, 201, 204}
                       \/ err \in RequestErrs /\ outcome = "none"
    /\ cause = "not ready" => err = NoErr /\ resp = 503 /\ ep = "readyz" /\ outcome = "none"
    /\ cause \in Late => err \in LateErrs
    /\ cause \in Failed \ Late => err = Err({})
    /\ cause \notin Failed \cup {"ok", "not ready"} => err \in DomainErrs
    /\ outcome \in knownMetricLabels(ep) \cup {"none"}
    /\ outcome = "failure" => cause \in Failed
    /\ outcome \in {"rejected", "reuse", "revoked", "unknown", "expired"} => cause \notin Failed \cup {"ok", "not ready"}
    /\ ep \in {"register", "login"} /\ cause \notin {"ok", "panic"} => outcome \in {"rejected", "failure"}

\* Only a request without a route has the router's 404, and no other 404.
Routed ==
    /\ err = FiberErr(404) => ep \in Unrouted
    /\ ep \in Unrouted => err \in {NoErr, FiberErr(404), FiberErr(405), Err({"unauthorized"})}

\* The answer and the record are those of the error.
Replied ==
    Answered => /\ ans = IF err = NoErr THEN Success(resp) ELSE Failure(err)
                /\ ep # "unread" =>
                      rec = [levels |-> {LogLevel(observedStatus)} \cup ErrorHandlerLog(err),
                             route |-> IF ep \in Skipped THEN "none" ELSE routeLabel(err),
                             status |-> IF ep \in Skipped THEN 0 ELSE observedStatus]

\* Where the token comes from, and what Auth has seen of it.
Genuine ==
    /\ token \in issued \cup Foreign \cup {NoToken}
    /\ seen # -1 => token \in issued /\ token.nbf <= seen /\ seen < token.exp
    /\ ep = "none" => seen = -1

GateInv == TypeOK /\ Tracks /\ InFlight /\ Explained /\ Routed /\ Replied /\ Genuine

-----------------------------------------------------------------------------
(* The stages.                                                             *)

LEMMA EndpointsNamed == \A e \in Endpoints : e \notin {"none", "unread"}
  BY DEF Endpoints, Protected, OfTasks, OfUsers, OfProbes, Unrouted, AuthPosts

\* A stage is passed before anything has happened to the request.
LEMMA StageFacts ==
    ASSUME GateInv, NEW s, Stage(s)
    PROVE  /\ rest # <<>> /\ s \in Allowed(ep) /\ Tail(rest) \in Seq(Allowed(ep))
           /\ err = NoErr /\ cause = "ok" /\ resp = 200 /\ outcome = "none"
           /\ ep \in Endpoints
  <1>1. rest # <<>> /\ Head(rest) = s /\ rest \in Seq(Allowed(ep))
    BY DEF Stage, GateInv, Tracks
  <1>2. s \in Allowed(ep) /\ Tail(rest) \in Seq(Allowed(ep))
    BY <1>1
  <1> QED
    BY <1>1, <1>2 DEF GateInv, Tracks, Untouched, TypeOK

\* What the router's 404 is not.
LEMMA ErrorsDiffer ==
    /\ \A c \in FiberStatuses \ {404} : FiberErr(c) # FiberErr(404)
    /\ FieldsErr # FiberErr(404) /\ NoErr # FiberErr(404)
    /\ \A e \in DomainErrs \cup LateErrs \cup {Err({})} : e # FiberErr(404)
  <1>1. /\ \A c \in FiberStatuses \cup {404} : FiberErr(c).fiber = c
        /\ FieldsErr.fiber = 0 /\ NoErr.fiber = 0
    BY DEF FiberErr, FieldsErr, Err, NoErr
  <1>2. \A e \in DomainErrs \cup LateErrs \cup {Err({})} : e.fiber = 0
    BY DEF Err, DomainErrs, LateErrs
  <1> QED
    BY <1>1, <1>2

\* Only the router's error is a *fiber.Error with status 404.
LEMMA FiberErrors == \A e \in KnownErrs \cup {NoErr} : e.fiber = 404 => e = FiberErr(404)
  <1>1. \A c \in FiberStatuses : FiberErr(c).fiber = c
    BY DEF FiberErr, Err
  <1>2. FieldsErr.fiber = 0 /\ NoErr.fiber = 0 /\ Err({"unauthorized"}).fiber = 0
    BY DEF FieldsErr, Err, NoErr
  <1>3. \A e \in DomainErrs \cup LateErrs \cup {Err({})} : e.fiber = 0
    BY DEF Err, DomainErrs, LateErrs
  <1>4. \A e \in RequestErrs : e.fiber = 404 => e = FiberErr(404)
    BY <1>1, <1>2 DEF RequestErrs
  <1> QED
    BY <1>2, <1>3, <1>4 DEF KnownErrs

Typed == /\ err \in Errors \cup {NoErr}
         /\ resp \in {200, 201, 204, 503}
         /\ outcome \in {"none", "success", "rejected", "failure", "reuse", "revoked", "unknown", "expired"}

\* A stage lets the request pass: only Auth leaves a trace.
Forward ==
    /\ rest # <<>> /\ rest' = Tail(rest) /\ ep \in Endpoints
    /\ seen' = seen \/ (seen' = now /\ Parse(token))
    /\ UNCHANGED <<now, issued, ep, token, cause, err, resp, outcome, gauge, rec, ans>>

\* A stage ends the way to the use case, or is the use case: what it leaves is
\* explained.
Stop ==
    /\ rest # <<>> /\ rest' = <<>> /\ ep \in Endpoints
    /\ issued \subseteq issued' /\ issued' \subseteq AccessToken
    /\ UNCHANGED <<now, ep, token, seen, gauge, rec, ans>>
    /\ Typed' /\ Explained' /\ Routed'

\* A request that is refused on its way.
LEMMA RequestFails ==
    ASSUME GateInv, NEW s, Stage(s), rest' = <<>>, err' \in RequestErrs \ {FiberErr(404)},
           ep \in Unrouted => err' \in {FiberErr(405), Err({"unauthorized"})},
           UNCHANGED <<now, issued, ep, token, seen, cause, resp, outcome, gauge, rec, ans>>
    PROVE  Stop
  <1>1. /\ rest # <<>> /\ cause' = "ok" /\ resp' = 200 /\ outcome' = "none" /\ ep \in Endpoints
        /\ issued \subseteq AccessToken
    BY StageFacts DEF GateInv, TypeOK
  <1>2. Typed'
    BY <1>1, KnownAnswers DEF Typed, KnownErrs
  <1>3. Explained'
    BY <1>1 DEF Explained, Failed, Late
  <1>4. Routed'
    BY DEF Routed
  <1> QED
    BY <1>1, <1>2, <1>3, <1>4 DEF Stop

LEMMA NotRouted ==
    ASSUME NEW e \in Endpoints, NEW s \in Allowed(e)
    PROVE  /\ s \notin {"auth", "route"} => e \notin Unrouted
           /\ s = "route" => e \in Unrouted
           /\ s = "ping" => e = "readyz"
           /\ s = "call" => e \in Called
  BY DEF Allowed, Called

LEMMA CheckStages ==
    ASSUME GateInv, Limit \/ Body \/ IdParam \/ Query \/ Validate
    PROVE  Forward \/ Stop
  <1>1. PICK s \in {"limit", "body", "id", "query", "fields"} :
            /\ Stage(s)
            /\ Pass \/ \E e \in {FiberErr(429), FiberErr(400), FieldsErr} : Fail(e)
            /\ UNCHANGED <<now, issued, ep, token, seen, cause, resp, outcome, gauge, rec, ans>>
    BY DEF Limit, Body, IdParam, Query, Validate, Check, FieldsErr
  <1>2. rest # <<>> /\ s \in Allowed(ep) /\ ep \in Endpoints
    BY <1>1, StageFacts
  <1>3. ep \notin Unrouted
    BY <1>1, <1>2, NotRouted
  <1>4. CASE Pass
    BY <1>1, <1>2, <1>4 DEF Pass, Forward
  <1>5. CASE \E e \in {FiberErr(429), FiberErr(400), FieldsErr} : Fail(e)
    <2>1. rest' = <<>> /\ err' \in RequestErrs \ {FiberErr(404)}
      BY <1>5, ErrorsDiffer DEF Fail, RequestErrs, FiberStatuses, ServerStatuses
    <2> QED
      BY <1>1, <1>3, <2>1, RequestFails
  <1> QED
    BY <1>1, <1>4, <1>5

LEMMA AuthStage ==
    ASSUME GateInv, Auth
    PROVE  Forward \/ Stop
  <1>1. Stage("auth") /\ UNCHANGED <<now, issued, ep, token, cause, resp, outcome, gauge, rec, ans>>
    BY DEF Auth
  <1>2. rest # <<>> /\ ep \in Endpoints
    BY <1>1, StageFacts
  <1>3. CASE Parse(token)
    BY <1>1, <1>2, <1>3 DEF Auth, Pass, Forward
  <1>4. CASE ~Parse(token)
    <2>1. rest' = <<>> /\ err' = Err({"unauthorized"}) /\ seen' = seen
      BY <1>4 DEF Auth, Fail
    <2>2. err' \in RequestErrs \ {FiberErr(404)}
      BY <2>1, ErrorsDiffer DEF RequestErrs, DomainErrs, DomainSentinels
    <2> QED
      BY <1>1, <2>1, <2>2, RequestFails
  <1> QED
    BY <1>3, <1>4

LEMMA RouteStage ==
    ASSUME GateInv, NoRoute
    PROVE  Stop
  <1>1. /\ Stage("route") /\ rest' = <<>>
        /\ UNCHANGED <<now, issued, ep, token, seen, cause, resp, outcome, gauge, rec, ans>>
    BY DEF NoRoute, Fail
  <1>2. /\ rest # <<>> /\ cause' = "ok" /\ resp' = 200 /\ outcome' = "none" /\ ep \in Endpoints
        /\ "route" \in Allowed(ep) /\ issued \subseteq AccessToken
    BY <1>1, StageFacts DEF GateInv, TypeOK
  <1>3. ep \in Unrouted
    BY <1>2, NotRouted
  <1>4. err' \in {FiberErr(404), FiberErr(405)} /\ err' \in RequestErrs
    <2>1. err' = FiberErr(404) \/ err' = FiberErr(405)
      <3>1. CASE ep \in {"wrong method", "wrong api method"}
        BY <3>1, Zenon DEF NoRoute, Fail
      <3>2. CASE ep \notin {"wrong method", "wrong api method"}
        <4>1. (IF ep \in {"wrong method", "wrong api method"} THEN 405 ELSE 404) = 404
          BY <3>2
        <4>2. err' = FiberErr(IF ep \in {"wrong method", "wrong api method"} THEN 405 ELSE 404)
          BY DEF NoRoute, Fail
        <4> DEFINE c == IF ep \in {"wrong method", "wrong api method"} THEN 405 ELSE 404
        <4> HIDE DEF c
        <4>3. c = 404 /\ err' = FiberErr(c)
          BY <4>1, <4>2 DEF c
        <4> QED
          BY <4>3
      <3> QED
        BY <3>1, <3>2
    <2> QED
      BY <2>1 DEF RequestErrs, FiberStatuses
  <1>5. Typed'
    BY <1>2, <1>4, KnownAnswers DEF Typed, KnownErrs
  <1>6. Explained'
    BY <1>1, <1>2, <1>4 DEF Explained, Failed, Late
  <1>7. Routed'
    BY <1>1, <1>3, <1>4 DEF Routed
  <1> QED
    BY <1>1, <1>2, <1>5, <1>6, <1>7 DEF Stop

LEMMA ReadyStage ==
    ASSUME GateInv, Ready
    PROVE  Stop
  <1>1. /\ Stage("ping") /\ rest' = <<>>
        /\ UNCHANGED <<now, issued, ep, token, seen, err, outcome, gauge, rec, ans>>
    BY DEF Ready
  <1>r. (resp' = 200 /\ cause' = cause) \/ (resp' = 503 /\ cause' = "not ready")
    BY DEF Ready
  <1>2. /\ rest # <<>> /\ cause = "ok" /\ err' = NoErr /\ outcome' = "none" /\ ep \in Endpoints
        /\ "ping" \in Allowed(ep) /\ issued \subseteq AccessToken
    BY <1>1, StageFacts DEF GateInv, TypeOK
  <1>3. ep = "readyz"
    BY <1>2, NotRouted
  <1>4. Typed'
    BY <1>r, <1>2 DEF Typed
  <1>5. Explained'
    BY <1>r, <1>1, <1>2, <1>3 DEF Explained, Failed, Late
  <1>6. Routed'
    <2>1. ep' \notin Unrouted
      BY <1>1, <1>3 DEF Unrouted
    <2> QED
      BY <1>2, <2>1, ErrorsDiffer DEF Routed
  <1> QED
    BY <1>1, <1>2, <1>4, <1>5, <1>6 DEF Stop

LEMMA CallStage ==
    ASSUME GateInv, Succeed \/ Refuse \/ Panic
    PROVE  Stop
  <1>1. Stage("call") /\ rest' = <<>> /\ UNCHANGED <<now, ep, token, seen, gauge, rec, ans>>
    BY DEF Succeed, Refuse, Panic, Fail
  <1>2. /\ rest # <<>> /\ cause = "ok" /\ err = NoErr /\ resp = 200 /\ outcome = "none" /\ ep \in Endpoints
        /\ "call" \in Allowed(ep) /\ issued \subseteq AccessToken /\ now \in Nat
    BY <1>1, StageFacts DEF GateInv, TypeOK
  <1>3. ep \in Called /\ ep \notin Unrouted
    BY <1>2, NotRouted DEF Called
  <1>4. CASE Succeed
    <2>1. resp' \in {200, 201, 204} /\ err' = NoErr /\ cause' = "ok" /\ outcome' = IF ep \in AuthPosts THEN "success" ELSE "none"
      BY <1>2, <1>4 DEF Succeed, StatusOfSuccess, outcomeOf
    <2>2. issued \subseteq issued' /\ issued' \subseteq AccessToken
      <3>1. \A u \in Users, a \in BOOLEAN : Generate(IF a THEN 0 ELSE u, a) \in AccessToken
        BY <1>2, GatewayAssumption DEF Generate, AccessToken
      <3> QED
        BY <1>2, <1>4, <3>1 DEF Succeed
    <2>3. Typed'
      BY <2>1 DEF Typed
    <2>4. Explained'
      BY <1>1, <2>1 DEF Explained, Failed, Late, knownMetricLabels, AuthPosts
    <2>5. Routed'
      BY <1>1, <1>3, <2>1, ErrorsDiffer DEF Routed
    <2> QED
      BY <1>1, <1>2, <2>2, <2>3, <2>4, <2>5 DEF Stop
  <1>5. CASE Refuse
    <2>1. PICK c \in Refusals(ep) \cup Failures(ep) :
              /\ cause' = c /\ err' = Err(Translate(ep, c)) /\ outcome' = Counted(ep, c)
              /\ UNCHANGED <<issued, resp>>
      BY <1>5 DEF Refuse, Fail
    <2>2. /\ c \in Late => err' \in LateErrs
          /\ c \in Failed \ Late => err' = Err({})
          /\ c \notin Failed => err' \in DomainErrs
          /\ c \notin {"ok", "not ready", "panic"}
      BY <1>3, <2>1, TranslatedErrors
    <2>3. /\ outcome' \in knownMetricLabels(ep) \cup {"none"}
          /\ outcome' = "failure" => c \in Failed
          /\ outcome' \in {"rejected", "reuse", "revoked", "unknown", "expired"} => c \notin Failed
          /\ ep \in {"register", "login"} => outcome' \in {"rejected", "failure"}
      BY <1>3, <2>1, CountedOutcomes
    <2>4. err' \in DomainErrs \cup LateErrs \cup {Err({})}
      BY <2>2 DEF Late, Failed
    <2>5. Typed'
      <3>1. err' \in Errors
        BY <2>4, KnownAnswers DEF KnownErrs
      <3>2. outcome' \in {"none", "success", "rejected", "failure", "reuse", "revoked", "unknown", "expired"}
        BY <2>3 DEF knownMetricLabels
      <3> QED
        BY <1>2, <2>1, <3>1, <3>2 DEF Typed
    <2>6. Explained'
      BY <1>1, <2>1, <2>2, <2>3 DEF Explained
    <2>7. Routed'
      BY <1>1, <1>3, <2>4, ErrorsDiffer DEF Routed
    <2> QED
      BY <1>1, <1>2, <2>1, <2>5, <2>6, <2>7 DEF Stop
  <1>6. CASE Panic
    <2>1. cause' = "panic" /\ err' = Err({}) /\ outcome' = "none" /\ resp' = 200 /\ issued' = issued
      BY <1>2, <1>6 DEF Panic, Fail
    <2>2. Typed'
      BY <2>1, KnownAnswers DEF Typed, KnownErrs
    <2>3. Explained'
      BY <1>1, <2>1 DEF Explained, Failed, Late
    <2>4. Routed'
      BY <1>1, <1>3, <2>1, ErrorsDiffer DEF Routed
    <2> QED
      BY <1>1, <1>2, <2>1, <2>2, <2>3, <2>4 DEF Stop
  <1> QED
    BY <1>4, <1>5, <1>6

\* Every step is one of seven kinds.
LEMMA StepKinds ==
    ASSUME GateInv, Next
    PROVE  Receive \/ Unread \/ Forward \/ Stop \/ Unwind \/ Return \/ Tick
  BY CheckStages, AuthStage, RouteStage, ReadyStage, CallStage DEF Next

-----------------------------------------------------------------------------
(* Each kind of step keeps the invariant.                                  *)

LEMMA ReplyIsAnswer ==
    /\ \A e \in KnownErrs : Failure(e) # NoAnswer
    /\ \A s \in {200, 201, 204, 503} : Success(s) # NoAnswer /\ Success(s).status = s
  <1>1. \A e \in KnownErrs : StatusFor(e) # 0
    BY KnownAnswers DEF KnownErrs, FiberStatuses, ServerStatuses
  <1>2. \A e : Failure(e).status = StatusFor(e)
    BY DEF Failure
  <1>3. NoAnswer.status = 0
    BY DEF NoAnswer
  <1>4. \A s : Success(s).status = s
    BY DEF Success, NoAnswer
  <1> QED
    BY <1>1, <1>2, <1>3, <1>4

\* The error of a request is none, or one that has been seen to above.
LEMMA ErrKnown ==
    ASSUME GateInv
    PROVE  err = NoErr \/ err \in KnownErrs
  BY DEF GateInv, Explained, KnownErrs, Failed, Late

LEMMA TypeStep ==
    ASSUME GateInv, Next
    PROVE  TypeOK'
  <1>t. TypeOK
    BY DEF GateInv
  <1>1. CASE Receive
    <2>1. gauge = 0 /\ gauge' \in {0, 1}
      BY <1>1 DEF Receive, GateInv, InFlight
    <2>2. ep' \in Endpoints /\ token' \in AccessToken
      <3>1. NoToken \in AccessToken
        BY DEF NoToken, AccessToken
      <3> QED
        BY <1>t, <1>1, <3>1, GatewayAssumption DEF Receive, TypeOK
    <2> QED
      BY <1>t, <1>1, <2>1, <2>2 DEF Receive, TypeOK
  <1>2. CASE Unread
    <2>0. PICK c \in ServerStatuses : err' = FiberErr(c) /\ ans' = Failure(FiberErr(c))
      BY <1>2 DEF Unread
    <2>1. err' \in Errors /\ ans'.status \in {400, 408, 413, 431, 502}
      <3>1. StatusFor(FiberErr(c)) = c /\ FiberErr(c) \in Errors
        BY FiberAnswers DEF FiberStatuses
      <3>2. Failure(FiberErr(c)).status = StatusFor(FiberErr(c))
        BY DEF Failure
      <3> QED
        BY <2>0, <3>1, <3>2 DEF ServerStatuses
    <2> QED
      BY <1>t, <1>2, <2>1 DEF Unread, TypeOK
  <1>3. CASE Forward
    BY <1>t, <1>3 DEF Forward, TypeOK
  <1>4. CASE Stop
    BY <1>t, <1>4 DEF Stop, Typed, TypeOK
  <1>5. CASE Unwind
    <2>1. gauge' = 0
      BY <1>5 DEF Unwind, GateInv, InFlight, Tracks
    <2>2. ans'.status \in {0, 200, 201, 204, 400, 401, 403, 404, 405, 408, 409, 413, 429, 431, 500, 502, 503}
      <3>1. CASE err = NoErr
        BY <1>t, <1>5, <3>1, ReplyIsAnswer DEF Unwind, TypeOK
      <3>2. CASE err # NoErr
        <4>1. err \in KnownErrs /\ ans' = Failure(err)
          BY <1>5, <3>2, ErrKnown DEF Unwind
        <4>2. ans'.status = StatusFor(err)
          BY <4>1 DEF Failure
        <4> QED
          BY <4>1, <4>2, KnownAnswers DEF KnownErrs, FiberStatuses, ServerStatuses
      <3> QED
        BY <3>1, <3>2
    <2> QED
      BY <1>t, <1>5, <2>1, <2>2 DEF Unwind, TypeOK
  <1>6. CASE Return
    <2>1. NoToken \in AccessToken /\ NoAnswer.status = 0
      BY DEF NoToken, AccessToken, NoAnswer
    <2> QED
      BY <1>t, <1>6, <2>1, GatewayAssumption DEF Return, TypeOK
  <1>7. CASE Tick
    BY <1>t, <1>7, GatewayAssumption DEF Tick, TypeOK
  <1> QED
    BY <1>1, <1>2, <1>3, <1>4, <1>5, <1>6, <1>7, StepKinds

LEMMA TracksStep ==
    ASSUME GateInv, Next
    PROVE  Tracks'
  <1>t. Tracks
    BY DEF GateInv
  <1>1. CASE Receive
    <2>1. ep' \in Endpoints /\ rest' = Stages(ep') /\ ep = "none"
      BY <1>1 DEF Receive
    <2>2. ep' \notin {"none", "unread"} /\ rest' \in Seq(Allowed(ep'))
      BY <2>1, EndpointsNamed, StagesAllowed
    <2>3. Untouched' /\ ~Answered'
      BY <1>t, <1>1, <2>1 DEF Receive, Tracks, Untouched, Answered
    <2> QED
      BY <2>2, <2>3 DEF Tracks
  <1>2. CASE Unread
    <2>1. Answered'
      <3>1. \A c \in ServerStatuses : FiberErr(c) \in KnownErrs
        BY DEF KnownErrs, RequestErrs, FiberStatuses
      <3> QED
        BY <1>2, <3>1, ReplyIsAnswer DEF Unread, Answered
    <2>2. rest' = <<>> /\ rest' \in Seq(Allowed(ep'))
      BY <1>t, <1>2 DEF Unread, Tracks
    <2> QED
      BY <1>t, <1>2, <2>1, <2>2 DEF Unread, Tracks, Untouched
  <1>3. CASE Forward
    <2>1. rest' \in Seq(Allowed(ep')) /\ ep \notin {"none", "unread"}
      BY <1>t, <1>3, EndpointsNamed DEF Forward, Tracks
    <2> QED
      BY <1>t, <1>3, <2>1 DEF Forward, Tracks, Untouched, Answered
  <1>4. CASE Stop
    <2>1. rest' \in Seq(Allowed(ep')) /\ ep' \notin {"none", "unread"}
      BY <1>4, EndpointsNamed DEF Stop
    <2> QED
      BY <1>t, <1>4, <2>1 DEF Stop, Tracks, Answered
  <1>5. CASE Unwind
    <2>1. ep' \notin {"none", "unread"} /\ rest' = <<>> /\ rest' \in Seq(Allowed(ep'))
      BY <1>t, <1>5 DEF Unwind, Tracks
    <2> QED
      BY <2>1 DEF Tracks
  <1>6. CASE Return
    <2>1. rest' = <<>> /\ rest' \in Seq(Allowed(ep')) /\ ep' = "none" /\ Untouched' /\ ~Answered'
      BY <1>t, <1>6 DEF Return, Tracks, Untouched, Answered
    <2> QED
      BY <2>1 DEF Tracks
  <1>7. CASE Tick
    BY <1>t, <1>7 DEF Tick, Tracks, Untouched, Answered
  <1> QED
    BY <1>1, <1>2, <1>3, <1>4, <1>5, <1>6, <1>7, StepKinds

LEMMA InFlightStep ==
    ASSUME GateInv, Next
    PROVE  InFlight'
  <1>t. InFlight /\ Tracks /\ TypeOK
    BY DEF GateInv
  <1>1. CASE Receive
    <2>1. ep' \in Endpoints /\ ep = "none" /\ gauge' = gauge + IF ep' \in Skipped THEN 0 ELSE 1
      BY <1>1 DEF Receive
    <2>2. gauge = 0 /\ ep' \notin {"none", "unread"} /\ ~Answered'
      BY <1>t, <1>1, <2>1, EndpointsNamed DEF Receive, InFlight, Tracks, Answered
    <2> QED
      BY <2>1, <2>2 DEF InFlight
  <1>2. CASE Unread
    BY <1>t, <1>2 DEF Unread, InFlight
  <1>3. CASE Forward
    BY <1>t, <1>3 DEF Forward, InFlight, Answered
  <1>4. CASE Stop
    BY <1>t, <1>4 DEF Stop, InFlight, Answered
  <1>5. CASE Unwind
    <2>1. gauge' = 0
      BY <1>t, <1>5 DEF Unwind, InFlight, Tracks
    <2>2. Answered'
      BY <1>t, <1>5, ErrKnown, ReplyIsAnswer DEF Unwind, Answered, TypeOK
    <2> QED
      BY <2>1, <2>2 DEF InFlight
  <1>6. CASE Return
    BY <1>t, <1>6 DEF Return, InFlight
  <1>7. CASE Tick
    BY <1>t, <1>7 DEF Tick, InFlight, Answered
  <1> QED
    BY <1>1, <1>2, <1>3, <1>4, <1>5, <1>6, <1>7, StepKinds

LEMMA ExplanationKept ==
    ASSUME Explained, Routed, ep' = ep, cause' = cause, err' = err, resp' = resp, outcome' = outcome
    PROVE  Explained' /\ Routed'
  <1>1. Explained'
    BY DEF Explained
  <1>2. Routed'
    BY DEF Routed
  <1> QED
    BY <1>1, <1>2

LEMMA ExplainedStep ==
    ASSUME GateInv, Next
    PROVE  Explained' /\ Routed'
  <1>t. Explained /\ Routed /\ Tracks
    BY DEF GateInv
  <1>u. ASSUME err' = NoErr, cause' = "ok", resp' = 200, outcome' = "none"
        PROVE  Explained' /\ Routed'
    BY <1>u, ErrorsDiffer DEF Explained, Routed, Failed, Late
  <1>1. CASE Receive
    BY <1>t, <1>1, <1>u DEF Receive, Tracks, Untouched
  <1>2. CASE Unread
    <2>1. /\ cause' = "ok" /\ outcome' = "none" /\ ep' = "unread"
          /\ \E c \in ServerStatuses : err' = FiberErr(c)
      BY <1>t, <1>2 DEF Unread, Tracks, Untouched
    <2>2. err' \in RequestErrs /\ err' # FiberErr(404)
      <3>1. ServerStatuses \subseteq FiberStatuses \ {404}
        BY DEF ServerStatuses, FiberStatuses
      <3> QED
        BY <2>1, <3>1, ErrorsDiffer DEF RequestErrs
    <2>3. ep' \notin Unrouted
      BY <2>1 DEF Unrouted
    <2> QED
      BY <2>1, <2>2, <2>3 DEF Explained, Routed, Failed, Late
  <1>3. CASE Forward
    BY <1>t, <1>3, ExplanationKept DEF Forward
  <1>4. CASE Stop
    BY <1>4 DEF Stop
  <1>5. CASE Unwind
    BY <1>t, <1>5, ExplanationKept DEF Unwind
  <1>6. CASE Return
    BY <1>6, <1>u DEF Return
  <1>7. CASE Tick
    BY <1>t, <1>7, ExplanationKept DEF Tick
  <1> QED
    BY <1>1, <1>2, <1>3, <1>4, <1>5, <1>6, <1>7, StepKinds

LEMMA RepliedStep ==
    ASSUME GateInv, Next
    PROVE  Replied'
  <1>t. Replied /\ Tracks
    BY DEF GateInv
  <1>n. ASSUME ans' = NoAnswer
        PROVE  Replied'
    BY <1>n DEF Replied, Answered
  <1>1. CASE Receive
    BY <1>t, <1>1, <1>n DEF Receive, Tracks, Answered
  <1>2. CASE Unread
    <2>1. err' # NoErr /\ ans' = Failure(err') /\ ep' = "unread"
      BY <1>2, FiberAnswers DEF Unread, FiberStatuses
    <2> QED
      BY <2>1 DEF Replied
  <1>3. CASE Forward
    BY <1>t, <1>3, <1>n DEF Forward, Tracks, Answered
  <1>4. CASE Stop
    BY <1>t, <1>4, <1>n DEF Stop, Tracks, Answered
  <1>5. CASE Unwind
    BY <1>5 DEF Unwind, Replied, observedStatus, routeLabel, Route
  <1>6. CASE Return
    BY <1>6, <1>n DEF Return
  <1>7. CASE Tick
    BY <1>t, <1>7 DEF Tick, Replied, Answered, observedStatus, routeLabel, Route
  <1> QED
    BY <1>1, <1>2, <1>3, <1>4, <1>5, <1>6, <1>7, StepKinds

LEMMA GenuineStep ==
    ASSUME GateInv, Next
    PROVE  Genuine'
  <1>t. Genuine /\ TypeOK /\ Tracks
    BY DEF GateInv
  <1>1. CASE Receive
    BY <1>t, <1>1 DEF Receive, Genuine, Tracks
  <1>2. CASE Unread
    BY <1>t, <1>2 DEF Unread, Genuine
  <1>3. CASE Forward
    <2>1. CASE seen' = seen
      BY <1>t, <1>3, <2>1 DEF Forward, Genuine
    <2>2. CASE seen' = now /\ Parse(token)
      <3>1. token \notin Foreign /\ token # NoToken
        BY <2>2, UnforgeableAssumption DEF Parse, NoToken
      <3>2. token.nbf <= now /\ now < token.exp
        BY <2>2 DEF Parse
      <3> QED
        BY <1>t, <1>3, <2>2, <3>1, <3>2, EndpointsNamed DEF Forward, Genuine
    <2> QED
      BY <1>3, <2>1, <2>2 DEF Forward
  <1>4. CASE Stop
    BY <1>t, <1>4 DEF Stop, Genuine
  <1>5. CASE Unwind
    BY <1>t, <1>5 DEF Unwind, Genuine
  <1>6. CASE Return
    BY <1>t, <1>6 DEF Return, Genuine
  <1>7. CASE Tick
    BY <1>t, <1>7 DEF Tick, Genuine
  <1> QED
    BY <1>1, <1>2, <1>3, <1>4, <1>5, <1>6, <1>7, StepKinds

LEMMA InitGate ==
    ASSUME Init
    PROVE  GateInv
  <1>1. TypeOK
    BY GatewayAssumption DEF Init, TypeOK, NoToken, AccessToken, NoAnswer
  <1>2. Tracks /\ InFlight
    BY DEF Init, Tracks, InFlight, Untouched, Answered
  <1>3. Explained /\ Routed
    BY ErrorsDiffer DEF Init, Explained, Routed, Failed, Late
  <1>4. Replied /\ Genuine
    BY DEF Init, Replied, Genuine, Answered
  <1> QED
    BY <1>1, <1>2, <1>3, <1>4 DEF GateInv

LEMMA NextGate ==
    ASSUME GateInv, [Next]_vars
    PROVE  GateInv'
  <1>1. CASE Next
    BY <1>1, TypeStep, TracksStep, InFlightStep, ExplainedStep, RepliedStep, GenuineStep DEF GateInv
  <1>2. CASE UNCHANGED vars
    <2>1. TypeOK' /\ InFlight' /\ Genuine'
      BY <1>2 DEF vars, GateInv, TypeOK, InFlight, Genuine, Answered
    <2>2. Tracks'
      BY <1>2 DEF vars, GateInv, Tracks, Untouched, Answered
    <2>3. Explained' /\ Routed'
      BY <1>2, ExplanationKept DEF vars, GateInv
    <2>4. Replied'
      BY <1>2 DEF vars, GateInv, Replied, Answered, observedStatus, routeLabel, Route
    <2> QED
      BY <2>1, <2>2, <2>3, <2>4 DEF GateInv
  <1> QED
    BY <1>1, <1>2

-----------------------------------------------------------------------------
(* The theorems.                                                           *)

\* The inductive invariant of the way through the middleware and back.
THEOREM GateInvariant == Spec => []GateInv
  <1> QED
    BY InitGate, NextGate, PTL DEF Spec

\* Errors, statuses, tokens and the gauge keep their types on every route.
THEOREM GatewayTypes == Spec => []TypeOK
  <1>1. GateInv => TypeOK
    BY DEF GateInv
  <1> QED
    BY <1>1, GateInvariant, PTL

LEMMA AnswerStatus ==
    /\ \A e : Failure(e).status = StatusFor(e) /\ Failure(e).code = CodeFor(e)
    /\ \A e : Failure(e).message = IF Fixed(StatusFor(e)) THEN "fixed" ELSE "of the error"
    /\ \A e : Failure(e).retry <=> StatusFor(e) \in {429, 503}
    /\ \A s : Success(s).status = s /\ ~Success(s).retry
  BY DEF Failure, Success, NoAnswer

\* What the answer says: it is the error's, or the response that the handler set.
LEMMA AnswerFacts ==
    ASSUME GateInv, Answered
    PROVE  /\ err = NoErr => ans.status = resp /\ ~ans.retry
           /\ err # NoErr => /\ ans.status = StatusFor(err)
                             /\ Fixed(StatusFor(err)) => ans.message = "fixed"
                             /\ ans.retry <=> StatusFor(err) \in {429, 503}
  <1>1. ans = IF err = NoErr THEN Success(resp) ELSE Failure(err)
    BY DEF GateInv, Replied
  <1>2. CASE err = NoErr
    <2>1. ans = Success(resp)
      BY <1>1, <1>2
    <2>2. Success(resp).status = resp /\ ~Success(resp).retry
      BY AnswerStatus
    <2> QED
      BY <1>2, <2>1, <2>2
  <1>3. CASE err # NoErr
    <2>1. ans = Failure(err)
      BY <1>1, <1>3
    <2>2. /\ Failure(err).status = StatusFor(err)
          /\ Failure(err).message = IF Fixed(StatusFor(err)) THEN "fixed" ELSE "of the error"
          /\ Failure(err).retry <=> StatusFor(err) \in {429, 503}
      BY AnswerStatus
    <2> QED
      BY <1>3, <2>1, <2>2
  <1> QED
    BY <1>2, <1>3

\* The kinds of cause: each request has exactly one.
LateCause == cause \in Late
BrokenCause == cause \in Failed \ Late
DomainCause == cause \notin Failed \cup {"ok", "not ready"}

\* The status of an answer, by its cause.
LEMMA StatusByCause ==
    ASSUME GateInv, Answered
    PROVE  /\ LateCause => err # NoErr /\ ans.status = 503
           /\ BrokenCause => err # NoErr /\ ans.status = 500
           /\ cause = "not ready" => err = NoErr /\ ans.status = 503
           /\ cause = "ok" => ans.status \in {200, 201, 204, 401} \cup FiberStatuses
           /\ DomainCause => err # NoErr /\ ans.status \in {400, 401, 403, 404, 409}
  <1>e. Explained
    BY DEF GateInv
  <1>2. LateCause => err \in LateErrs
    BY <1>e DEF Explained, LateCause
  <1>3. BrokenCause => err = Err({})
    BY <1>e DEF Explained, BrokenCause
  <1>4. DomainCause => err \in DomainErrs
    BY <1>e DEF Explained, DomainCause
  <1>5. cause = "ok" => (err = NoErr /\ resp \in {200, 201, 204}) \/ err \in RequestErrs
    BY <1>e DEF Explained
  <1>6. cause = "not ready" => err = NoErr /\ resp = 503
    BY <1>e DEF Explained
  <1>7. /\ err = NoErr => ans.status = resp
        /\ err # NoErr => ans.status = StatusFor(err)
    BY AnswerFacts
  <1>8. \A e \in KnownErrs : e # NoErr
    BY KnownAnswers
  <1>9. err \in LateErrs => err # NoErr /\ ans.status = 503
    BY <1>7, <1>8, KnownAnswers DEF KnownErrs
  <1>10. err = Err({}) => err # NoErr /\ ans.status = 500
    BY <1>7, <1>8, KnownAnswers DEF KnownErrs
  <1>11. err \in DomainErrs => err # NoErr /\ ans.status \in {400, 401, 403, 404, 409}
    BY <1>7, <1>8, KnownAnswers DEF KnownErrs
  <1>12. err \in RequestErrs => err # NoErr /\ ans.status \in {401} \cup FiberStatuses
    BY <1>7, <1>8, KnownAnswers DEF KnownErrs
  <1>13. cause = "ok" => ans.status \in {200, 201, 204, 401} \cup FiberStatuses
    BY <1>5, <1>7, <1>12
  <1> QED
    <2>1. LateCause => err # NoErr /\ ans.status = 503
      BY <1>2, <1>9
    <2>2. BrokenCause => err # NoErr /\ ans.status = 500
      BY <1>3, <1>10
    <2>3. cause = "not ready" => err = NoErr /\ ans.status = 503
      BY <1>6, <1>7
    <2>4. DomainCause => err # NoErr /\ ans.status \in {400, 401, 403, 404, 409}
      BY <1>4, <1>11
    <2> QED
      BY <2>1, <2>2, <2>3, <2>4, <1>13, Zenon

LEMMA CauseKinds ==
    /\ cause \in Failed <=> LateCause \/ BrokenCause
    /\ LateCause => cause \in Failed /\ cause \notin {"ok", "not ready"}
    /\ BrokenCause => cause \in Failed /\ cause \notin {"ok", "not ready"} /\ ~LateCause
    /\ DomainCause \/ cause \in {"ok", "not ready"} => ~LateCause /\ cause \notin Failed
    /\ LateCause \/ BrokenCause \/ DomainCause \/ cause = "ok" \/ cause = "not ready"
  BY DEF LateCause, BrokenCause, DomainCause, Failed, Late

\* A domain error never leaves as a 500, and what the service did not do in time
\* or did not expect never as a 4xx: use cases, StatusFor and the error handler
\* agree on every route.
THEOREM StatusIsFair == Spec => []StatusTellsWhoseFault
  <1>1. GateInv => StatusTellsWhoseFault
    <2> SUFFICES ASSUME GateInv, Answered
                 PROVE  /\ cause \in Failed => ans.status = IF cause \in Late THEN 503 ELSE 500
                        /\ cause \notin Failed \cup {"ok", "not ready"} => ans.status \in 400 .. 499
      BY DEF StatusTellsWhoseFault
    <2>1. LateCause => ans.status = 503
      BY StatusByCause
    <2>2. BrokenCause => ans.status = 500
      BY StatusByCause
    <2>3. DomainCause => ans.status \in {400, 401, 403, 404, 409}
      BY StatusByCause
    <2>4. {400, 401, 403, 404, 409} \subseteq 400 .. 499
      OBVIOUS
    <2>5. cause \in Failed => ans.status = IF cause \in Late THEN 503 ELSE 500
      <3>1. CASE cause \in Late
        BY <2>1, <3>1 DEF LateCause
      <3>2. CASE cause \in Failed \ Late
        BY <2>2, <3>2 DEF BrokenCause
      <3> QED
        BY <3>1, <3>2
    <2>6. cause \notin Failed \cup {"ok", "not ready"} => ans.status \in 400 .. 499
      <3> DEFINE st == ans.status
      <3>1. DomainCause => st \in {400, 401, 403, 404, 409}
        BY <2>3
      <3> HIDE DEF st
      <3>2. DomainCause => st \in 400 .. 499
        BY <2>4, <3>1
      <3> QED
        BY <3>2 DEF st, DomainCause
    <2> QED
      BY <2>5, <2>6
  <1> QED
    BY <1>1, GateInvariant, PTL

\* CodeFor and StatusFor order their cases differently and still agree on every
\* error that a handler returns.
THEOREM CodesFit == Spec => []CodeMatchesStatus
  <1>1. GateInv => CodeMatchesStatus
    <2> SUFFICES ASSUME GateInv, Answered, err # NoErr
                 PROVE  \/ ans.code = CodeOfStatus(ans.status)
                        \/ ans.code = "invalid_credentials" /\ ans.status = 401
      BY DEF CodeMatchesStatus
    <2>1. ans = Failure(err)
      BY DEF GateInv, Replied
    <2>2. CodeFits(err)
      BY ErrKnown, KnownAnswers
    <2>3. ans.code = CodeFor(err) /\ ans.status = StatusFor(err)
      BY <2>1, AnswerStatus
    <2> QED
      BY <2>2, <2>3 DEF CodeFits
  <1> QED
    BY <1>1, GateInvariant, PTL

\* NewErrorHandler replaces the text of every unexpected error and every timeout;
\* a retry is asked for after a timeout and by the rate limiter, nowhere else.
THEOREM FailuresAreOpaque == Spec => []FailuresTellNothing
  <1>1. GateInv => FailuresTellNothing
    <2> SUFFICES ASSUME GateInv, Answered
                 PROVE  /\ cause \in Failed => ans.message = "fixed"
                        /\ ans.retry <=> cause \in Late \/ ans.status = 429
      BY DEF FailuresTellNothing
    <2> DEFINE st == ans.status
    <2>1. /\ err = NoErr => ~ans.retry /\ st = resp
          /\ err # NoErr => /\ st \in {500, 503} => ans.message = "fixed"
                            /\ ans.retry <=> st \in {429, 503}
      BY AnswerFacts DEF Fixed
    <2>r. resp # 429
      BY DEF GateInv, TypeOK
    <2>l. LateCause => err # NoErr /\ st = 503
      BY StatusByCause
    <2>b. BrokenCause => err # NoErr /\ st = 500
      BY StatusByCause
    <2>n. cause = "not ready" => err = NoErr
      BY StatusByCause
    <2>o. cause = "ok" => err = NoErr \/ st # 503
      <3>1. cause = "ok" => (err = NoErr \/ err \in RequestErrs)
        BY DEF GateInv, Explained
      <3>2. err \in RequestErrs => st \in {401} \cup FiberStatuses
        BY AnswerFacts, KnownAnswers DEF KnownErrs
      <3> HIDE DEF st
      <3> QED
        BY <3>1, <3>2 DEF FiberStatuses, ServerStatuses
    <2>d. DomainCause => err # NoErr /\ st \in {400, 401, 403, 404, 409}
      BY StatusByCause
    <2> HIDE DEF st
    <2>2. CASE LateCause
      BY <2>1, <2>2, <2>l DEF LateCause
    <2>3. CASE BrokenCause
      <3>1. ans.message = "fixed" /\ ~ans.retry /\ st # 429
        BY <2>1, <2>3, <2>b
      <3> QED
        BY <2>3, <3>1 DEF BrokenCause, st
    <2>4. CASE cause \in {"ok", "not ready"} \/ DomainCause
      <3>1. err = NoErr => (ans.retry <=> st = 429)
        BY <2>1, <2>r
      <3>2. err # NoErr => (ans.retry <=> st = 429)
        <4>0. DomainCause => st # 503
          BY <2>d
        <4>1. err # NoErr => st # 503
          BY <2>4, <2>n, <2>o, <4>0, Zenon
        <4> QED
          BY <2>1, <4>1
      <3>3. ans.retry <=> st = 429
        BY <3>1, <3>2
      <3>4. cause \notin Failed /\ cause \notin Late
        BY <2>4, CauseKinds DEF LateCause
      <3> QED
        BY <3>3, <3>4 DEF st
    <2> QED
      BY <2>2, <2>3, <2>4, CauseKinds DEF st
  <1> QED
    BY <1>1, GateInvariant, PTL

\* Auth lets only tokens of Generate pass, and only within their lifetime: no
\* token from elsewhere carries the claims of a protected route.
THEOREM ClaimsHold == Spec => []ClaimsAreGenuine
  <1>1. GateInv => ClaimsAreGenuine
    BY DEF GateInv, Genuine, ClaimsAreGenuine
  <1> QED
    BY <1>1, GateInvariant, PTL

\* Metrics and the client agree about every request, although the error handler
\* runs later.
THEOREM MetricsHold == Spec => []MetricsAgree
  <1>1. GateInv => MetricsAgree
    <2> SUFFICES ASSUME GateInv, Answered, ep # "unread"
                 PROVE  MetricsAgree
      BY DEF MetricsAgree
    <2> DEFINE st == ans.status
    <2>1. st = observedStatus
      BY AnswerFacts DEF observedStatus
    <2>2. /\ rec.status = IF ep \in Skipped THEN 0 ELSE observedStatus
          /\ rec.route = IF ep \in Skipped THEN "none" ELSE routeLabel(err)
      BY DEF GateInv, Replied
    <2>3. LateCause \/ BrokenCause \/ cause = "not ready" => st \in {500, 503}
      <3>1. LateCause => st = 503
        BY StatusByCause
      <3>2. BrokenCause => st = 500
        BY StatusByCause
      <3>3. cause = "not ready" => st = 503
        BY StatusByCause
      <3> HIDE DEF st
      <3> QED
        BY <3>1, <3>2, <3>3
    <2>4. DomainCause => st \in {400, 401, 403, 404, 409}
      BY StatusByCause
    <2> HIDE DEF st
    <2>6. gauge = 0
      BY DEF GateInv, InFlight
    <2>7. /\ outcome \in knownMetricLabels(ep) \cup {"none"}
          /\ outcome = "failure" => st \in {500, 503}
          /\ outcome \in {"rejected", "reuse", "revoked", "unknown", "expired"} => st \in 400 .. 499
          /\ ep \in {"register", "login"} /\ cause \notin {"ok", "panic"} => outcome \in {"rejected", "failure"}
      <3>1. /\ outcome \in knownMetricLabels(ep) \cup {"none"}
            /\ outcome = "failure" => cause \in Failed
            /\ outcome \in {"rejected", "reuse", "revoked", "unknown", "expired"} => DomainCause
            /\ ep \in {"register", "login"} /\ cause \notin {"ok", "panic"} => outcome \in {"rejected", "failure"}
        BY DEF GateInv, Explained, DomainCause
      <3>2. cause \in Failed => st \in {500, 503}
        BY <2>3, CauseKinds
      <3>3. DomainCause => st \in 400 .. 499
        <4>1. {400, 401, 403, 404, 409} \subseteq 400 .. 499
          OBVIOUS
        <4> QED
          BY <2>4, <4>1
      <3> QED
        BY <3>1, <3>2, <3>3
    <2>8. rec.route = "unmatched" => ep \in Unrouted
      <3>1. Route # "unmatched"
        <4>1. "unmatched" \notin Endpoints \cup {"none", "unread"}
          BY DEF Endpoints, Protected, OfTasks, OfUsers, OfProbes, Unrouted, AuthPosts
        <4>2. ep # "unmatched"
          BY <4>1 DEF GateInv, TypeOK
        <4> QED
          BY <4>2 DEF Route
      <3>2. err.fiber = 404 => ep \in Unrouted
        BY ErrKnown, FiberErrors DEF GateInv, Routed
      <3> QED
        BY <2>2, <3>1, <3>2 DEF routeLabel
    <2> QED
      BY <2>1, <2>2, <2>6, <2>7, <2>8 DEF MetricsAgree, st
  <1> QED
    BY <1>1, GateInvariant, PTL
=============================================================================
