----------------------------- MODULE Lifecycle -----------------------------
(***************************************************************************)
(* The life of the server process: main and run of cmd/server from the     *)
(* configuration to the exit, with awaitStop and httpserver.Drain, against *)
(* the goroutines that are working meanwhile - the API and metrics         *)
(* listeners, request handlers, the cleanup goroutine.                     *)
(*                                                                         *)
(* A listener is "serving" until it fails on its own or is shut down; then *)
(* its goroutine puts one value into its channel, which awaitStop reads.   *)
(***************************************************************************)
EXTENDS Config, FiniteSets

CONSTANTS
    Requests,      \* requests a client may send
    SourceInputs,  \* configurations that a process may find
    ConnBits       \* width of the pool's connection counts (an int32)

Listeners == {"api", "metrics"}

ASSUME LifecycleAssumption == SourceInputs \subseteq Sources /\ ConnBits \in Nat \ {0}

VARIABLES
    sources,   \* what config.Load finds; not looked at afterwards
    cfg,       \* the settings, until everything has been built from them
    main,      \* where main or run is
    signal,    \* SIGINT or SIGTERM arrived: signalCtx is done
    listener,  \* listener[l]: "none", "bound" (its goroutine has not reached
               \* Accept), "serving", "failed" or "closed"
    missed,    \* history: Drain came while the API listener was only bound
    chan,      \* chan[l]: value in its channel, "empty" or "read"
    stopping,  \* stopping[l]: its ShutdownWithContext: "no", "waiting", "ok", "err"
    expired,   \* the grace period of Drain is over
    ctxLive,   \* requestCtx is not cancelled
    req,       \* req[r]: "new", "running", "query" (holds a connection), "done", "dropped"
    janitor,   \* "none", "idle", "query" (holds a connection) or "stopped"
    cleanupOn, \* cleanupCtx is not cancelled by stopCleanup
    pool,      \* "none", "open", "closing" (Close waits), "closed"
    exitErr,   \* awaitStop's exitErr: the listener that it reports, or "nil"
    drainErr,  \* Drain returned an error
    result     \* what run returns: "none" while it has not

vars == <<sources, cfg, main, signal, listener, missed, chan, stopping, expired, ctxLive, req,
          janitor, cleanupOn, pool, exitErr, drainErr, result>>

startvars == <<sources, cfg, missed>>
procvars == <<startvars, main, stopping, exitErr, drainErr, result>>

Running(r) == req[r] \in {"running", "query"}
Idle == \A r \in Requests : ~Running(r)

\* The deferred cancellations run on the way out; signalCtx is the parent of
\* cleanupCtx.
CleanupLive == cleanupOn /\ ~signal

Init ==
    /\ sources \in SourceInputs
    /\ cfg = Nothing
    /\ main = "load"
    /\ signal = FALSE
    /\ listener = [l \in Listeners |-> "none"]
    /\ missed = FALSE
    /\ chan = [l \in Listeners |-> "empty"]
    /\ stopping = [l \in Listeners |-> "no"]
    /\ expired = FALSE
    /\ ctxLive = TRUE
    /\ req = [r \in Requests |-> "new"]
    /\ janitor = "none"
    /\ cleanupOn = TRUE
    /\ pool = "none"
    /\ exitErr = "nil"
    /\ drainErr = FALSE
    /\ result = "none"

-----------------------------------------------------------------------------
(* Start-up: main and the first part of run.                               *)

\* run returns an error; l is where its deferred calls begin.
GiveUp(l) == main' = l /\ result' = "start"

\* The settings and the sources they came from are used up.
Forget == cfg' = Nothing

\* Unless something can be wrong with it, a step of run just goes on.
Proceed(l) == main' = l /\ UNCHANGED result

\* config.Load; a refusal is os.Exit(1) before anything is opened.
Load ==
    /\ main = "load"
    /\ cfg' = LoadFrom(sources)
    /\ sources' = NoSources
    /\ IF Accepted(sources) THEN Proceed("migrate") ELSE GiveUp("exited")
    /\ UNCHANGED <<signal, listener, missed, chan, stopping, expired, ctxLive, req, janitor, cleanupOn, pool, exitErr, drainErr>>

\* runMigrations does not look at signalCtx.
Migrate ==
    /\ main = "migrate"
    /\ \/ Proceed("connect") /\ UNCHANGED cfg
       \/ cfg["RUN_MIGRATIONS"].n = 1 /\ GiveUp("exited") /\ Forget
    /\ UNCHANGED <<sources, signal, listener, missed, chan, stopping, expired, ctxLive, req, janitor, cleanupOn, pool, exitErr, drainErr>>

\* int32(n) keeps the lower bits.
Narrow(n) ==
    LET m == n % 2^ConnBits
    IN IF m >= 2^(ConnBits - 1) THEN m - 2^ConnBits ELSE m

\* pgxpool does not make a pool without room for a connection.
HasRoom(c) == Narrow(c["DB_MAX_CONNECTIONS"].n) >= 1

\* NewPool(signalCtx) pings the database: a signal that has arrived fails it.
Connect ==
    /\ main = "connect"
    /\ \/ ~signal /\ HasRoom(cfg) /\ Proceed("build") /\ pool' = "open" /\ UNCHANGED cfg
       \/ GiveUp("exited") /\ Forget /\ UNCHANGED pool
    /\ UNCHANGED <<sources, signal, listener, missed, chan, stopping, expired, ctxLive, req, janitor, cleanupOn, exitErr, drainErr>>

\* token.NewService.
NewService(c) == c["JWT_MIN_SECRET_LENGTH"].n > 0 /\ c["JWT_SECRET"].n >= c["JWT_MIN_SECRET_LENGTH"].n /\ c["JWT_TTL"].n > 0

\* password.NewHasher, with bcrypt.MinCost and bcrypt.MaxCost.
NewHasher(c) == c["PASSWORD_BCRYPT_COST"].n \in 4 .. 31 /\ c["PASSWORD_MAX_CONCURRENT_HASHES"].n >= 1

\* The services are built and the cleanup goroutine is started.  Whatever the
\* settings, metrics.Register may refuse the collector of the pool.
Build ==
    /\ main = "build"
    /\ \/ NewService(cfg) /\ NewHasher(cfg) /\ Proceed("bindMetrics") /\ janitor' = "idle" /\ UNCHANGED cfg
       \/ GiveUp("closePool") /\ Forget /\ UNCHANGED janitor
    /\ UNCHANGED <<sources, signal, listener, missed, chan, stopping, expired, ctxLive, req, cleanupOn, pool, exitErr, drainErr>>

SeparateMetrics == cfg["METRICS_ENABLED"].n = 1 /\ Given(cfg["METRICS_ADDRESS"])

\* NewMetricsServer; a busy port fails the start.  net/http serves at once.
BindMetrics ==
    /\ main = "bindMetrics"
    /\ \/ ~SeparateMetrics /\ Proceed("bindApi") /\ UNCHANGED <<cfg, listener>>
       \/ SeparateMetrics /\ Proceed("bindApi") /\ listener' = [listener EXCEPT !["metrics"] = "serving"] /\ UNCHANGED cfg
       \/ SeparateMetrics /\ GiveUp("stopCleanup") /\ Forget /\ UNCHANGED listener
    /\ UNCHANGED <<sources, signal, missed, chan, stopping, expired, ctxLive, req, janitor, cleanupOn, pool, exitErr, drainErr>>

\* The listeners that a shutdown reaches are closed.
Closed == [l \in Listeners |-> IF listener[l] = "serving" THEN "closed" ELSE listener[l]]

\* startAPI: without the port, the metrics server is stopped first.
BindApi ==
    /\ main = "bindApi"
    /\ \/ Proceed("select") /\ listener' = [listener EXCEPT !["api"] = "bound"]
       \/ GiveUp("stopMetrics") /\ listener' = Closed
    /\ Forget
    /\ UNCHANGED <<sources, signal, missed, chan, stopping, expired, ctxLive, req, janitor, cleanupOn, pool, exitErr, drainErr>>

\* Its ShutdownWithContext returns, at the latest after the grace period.
StopMetrics ==
    /\ main = "stopMetrics"
    /\ Proceed("stopCleanup")
    /\ UNCHANGED <<startvars, signal, listener, chan, stopping, expired, ctxLive, req, janitor, cleanupOn, pool, exitErr, drainErr>>

-----------------------------------------------------------------------------
(* The environment and the other goroutines; the process exit ends them.   *)

Alive == main # "exited"

\* signal.NotifyContext is the first thing run does.
Signal ==
    /\ Alive /\ main # "load" /\ ~signal
    /\ signal' = TRUE
    /\ UNCHANGED <<procvars, listener, chan, expired, ctxLive, req, janitor, cleanupOn, pool>>

\* A listener stops on its own.
Fail(l) ==
    /\ Alive /\ listener[l] = "serving"
    /\ listener' = [listener EXCEPT ![l] = "failed"]
    /\ UNCHANGED <<procvars, signal, chan, expired, ctxLive, req, janitor, cleanupOn, pool>>

\* The goroutine of serveAPI gets to run and fiber knows its listener.
Register ==
    /\ Alive /\ listener["api"] = "bound"
    /\ listener' = [listener EXCEPT !["api"] = "serving"]
    /\ UNCHANGED <<procvars, signal, chan, expired, ctxLive, req, janitor, cleanupOn, pool>>

\* go func() { served <- app.Listener(ln) }(): one report, buffered.
Report(l) ==
    /\ Alive /\ listener[l] \in {"failed", "closed"} /\ chan[l] = "empty"
    /\ chan' = [chan EXCEPT ![l] = IF listener[l] = "failed" THEN "err" ELSE "nil"]
    /\ UNCHANGED <<procvars, signal, listener, expired, ctxLive, req, janitor, cleanupOn, pool>>

Accept(r) ==
    /\ Alive /\ listener["api"] = "serving" /\ req[r] = "new"
    /\ req' = [req EXCEPT ![r] = "running"]
    /\ UNCHANGED <<procvars, signal, listener, chan, expired, ctxLive, janitor, cleanupOn, pool>>

\* pool.Acquire: refused when the context is done or the pool is closing.
Query(r) ==
    /\ Alive /\ req[r] = "running" /\ ctxLive /\ pool = "open"
    /\ req' = [req EXCEPT ![r] = "query"]
    /\ UNCHANGED <<procvars, signal, listener, chan, expired, ctxLive, janitor, cleanupOn, pool>>

\* The query ends, by its result or by its context, and the connection is back.
QueryEnds(r) ==
    /\ Alive /\ req[r] = "query"
    /\ req' = [req EXCEPT ![r] = "running"]
    /\ UNCHANGED <<procvars, signal, listener, chan, expired, ctxLive, janitor, cleanupOn, pool>>

Finish(r) ==
    /\ Alive /\ req[r] = "running"
    /\ req' = [req EXCEPT ![r] = IF ctxLive THEN "done" ELSE "dropped"]
    /\ UNCHANGED <<procvars, signal, listener, chan, expired, ctxLive, janitor, cleanupOn, pool>>

\* SessionCleaner.Run: a tick starts CleanupOnce ...
Sweep ==
    /\ Alive /\ janitor = "idle" /\ pool = "open"
    /\ janitor' = "query"
    /\ UNCHANGED <<procvars, signal, listener, chan, expired, ctxLive, req, cleanupOn, pool>>

\* ... which ends with the statement or with its context ...
SweepEnds ==
    /\ Alive /\ janitor = "query"
    /\ janitor' = "idle"
    /\ UNCHANGED <<procvars, signal, listener, chan, expired, ctxLive, req, cleanupOn, pool>>

\* ... and the loop returns once cleanupCtx is done.
JanitorStops ==
    /\ Alive /\ janitor = "idle" /\ ~CleanupLive
    /\ janitor' = "stopped"
    /\ UNCHANGED <<procvars, signal, listener, chan, expired, ctxLive, req, cleanupOn, pool>>

-----------------------------------------------------------------------------
(* awaitStop.                                                              *)

\* Mutant: the error is returned as it is, without naming the listener.
Wake_BareError ==
    /\ main = "select"
    /\ \/ /\ signal
          /\ UNCHANGED <<chan, exitErr>>
       \/ \E l \in Listeners :
             /\ chan[l] \in {"err", "nil"}
             /\ chan' = [chan EXCEPT ![l] = "read"]
             /\ exitErr' = chan[l]
    /\ main' = "drain"
    /\ UNCHANGED <<startvars, signal, listener, stopping, expired, ctxLive, req, janitor, cleanupOn, pool, drainErr, result>>

\* What select may take: any channel that is ready.
Wake ==
    /\ main = "select"
    /\ \/ /\ signal
          /\ UNCHANGED <<chan, exitErr>>
       \/ \E l \in Listeners :
             /\ chan[l] \in {"err", "nil"}
             /\ chan' = [chan EXCEPT ![l] = "read"]
             /\ exitErr' = IF chan[l] = "err" THEN l ELSE "nil"
    /\ main' = "drain"
    /\ UNCHANGED <<startvars, signal, listener, stopping, expired, ctxLive, req, janitor, cleanupOn, pool, drainErr, result>>

\* Mutant: nobody waits for the requests of a failed listener.
StartDrain_NotAfterFailure ==
    /\ main = "drain"
    /\ main' = IF exitErr = "nil" THEN "draining" ELSE "collect"
    /\ listener' = Closed
    /\ missed' = (listener["api"] = "bound")
    /\ stopping' = [l \in Listeners |-> IF listener[l] \in {"none", "bound"} THEN "ok" ELSE "waiting"]
    /\ UNCHANGED <<sources, cfg, signal, chan, expired, ctxLive, req, janitor, cleanupOn, pool, exitErr, drainErr, result>>

\* Whatever woke the select, Drain starts ShutdownWithContext of every server:
\* no more connections.  Nothing is to be done for a metrics server that is not
\* there, and fiber does nothing before it knows its listener.
StartDrain ==
    /\ main = "drain"
    /\ main' = "draining"
    /\ listener' = Closed
    /\ missed' = (listener["api"] = "bound")
    /\ stopping' = [l \in Listeners |-> IF listener[l] \in {"none", "bound"} THEN "ok" ELSE "waiting"]
    /\ UNCHANGED <<sources, cfg, signal, chan, expired, ctxLive, req, janitor, cleanupOn, pool, exitErr, drainErr, result>>

\* The grace period ends.
Expire ==
    /\ main = "draining" /\ ~expired
    /\ expired' = TRUE
    /\ UNCHANGED <<procvars, signal, listener, chan, ctxLive, req, janitor, cleanupOn, pool>>

\* A server's shutdown returns when its requests are done (scrapes of the
\* metrics listener may be open at any time) or the grace period is over.
Stopped(l) ==
    /\ main = "draining" /\ stopping[l] = "waiting"
    /\ \/ /\ l = "metrics" \/ Idle
          /\ stopping' = [stopping EXCEPT ![l] = "ok"]
       \/ /\ expired
          /\ stopping' = [stopping EXCEPT ![l] = "err"]
    /\ UNCHANGED <<startvars, main, signal, listener, chan, expired, ctxLive, req, janitor, cleanupOn, pool, exitErr, drainErr, result>>

\* Mutant: the requests are cancelled as soon as one server has stopped.
Drained_First ==
    /\ main = "draining"
    /\ \E l \in Listeners : stopping[l] \in {"ok", "err"}
    /\ ctxLive' = FALSE
    /\ drainErr' = (\E l \in Listeners : stopping[l] = "err")
    /\ main' = "collect"
    /\ UNCHANGED <<startvars, signal, listener, chan, stopping, expired, req, janitor, cleanupOn, pool, exitErr, result>>

\* Mutant: the errors of the servers are not joined.
Drained_NoError ==
    /\ main = "draining"
    /\ \A l \in Listeners : stopping[l] \in {"ok", "err"}
    /\ ctxLive' = FALSE
    /\ drainErr' = FALSE
    /\ main' = "collect"
    /\ UNCHANGED <<startvars, signal, listener, chan, stopping, expired, req, janitor, cleanupOn, pool, exitErr, result>>

\* All servers answered: cancelInFlight, and the errors are joined.
Drained ==
    /\ main = "draining"
    /\ \A l \in Listeners : stopping[l] \in {"ok", "err"}
    /\ ctxLive' = FALSE
    /\ drainErr' = (\E l \in Listeners : stopping[l] = "err")
    /\ main' = "collect"
    /\ UNCHANGED <<startvars, signal, listener, chan, stopping, expired, req, janitor, cleanupOn, pool, exitErr, result>>

\* Mutant: the channel that woke the select is read again.
Unread_Again(l) == listener[l] # "none" /\ (chan[l] # "read" \/ exitErr = l)

\* Listeners whose report has not been read yet.
Unread(l) == listener[l] # "none" /\ chan[l] # "read"

\* <-stops.serve, <-stops.metrics: the value is thrown away.
Collect(l) ==
    /\ main = "collect" /\ Unread(l)
    /\ chan[l] \in {"err", "nil"}
    /\ chan' = [chan EXCEPT ![l] = "read"]
    /\ UNCHANGED <<procvars, signal, listener, expired, ctxLive, req, janitor, cleanupOn, pool>>

\* awaitStop returns.
Collected ==
    /\ main = "collect"
    /\ \A l \in Listeners : ~Unread(l)
    /\ result' = IF exitErr # "nil" THEN exitErr ELSE IF drainErr THEN "drain" ELSE "nil"
    /\ main' = "stopCleanup"
    /\ UNCHANGED <<startvars, signal, listener, chan, stopping, expired, ctxLive, req, janitor, cleanupOn, pool, exitErr, drainErr>>

-----------------------------------------------------------------------------
(* The deferred calls of run, last in, first out.                          *)

StopCleanup ==
    /\ main = "stopCleanup"
    /\ cleanupOn' = FALSE
    /\ main' = "waitCleanup"
    /\ UNCHANGED <<startvars, signal, listener, chan, stopping, expired, ctxLive, req, janitor, pool, exitErr, drainErr, result>>

WaitCleanup ==
    /\ main = "waitCleanup"
    /\ janitor = "stopped"
    /\ main' = "closePool"
    /\ UNCHANGED <<startvars, signal, listener, chan, stopping, expired, ctxLive, req, janitor, cleanupOn, pool, exitErr, drainErr, result>>

\* pool.Close refuses new acquisitions, then waits for the connections.
ClosePool ==
    /\ main = "closePool"
    /\ \/ pool = "open" /\ pool' = "closing" /\ UNCHANGED main
       \/ /\ pool = "closing"
          /\ janitor # "query" /\ \A r \in Requests : req[r] # "query"
          /\ pool' = "closed"
          /\ main' = "exited"
    /\ UNCHANGED <<startvars, signal, listener, chan, stopping, expired, ctxLive, req, janitor, cleanupOn, exitErr, drainErr, result>>

StartStep == Load \/ Migrate \/ Connect \/ Build \/ BindMetrics \/ BindApi \/ StopMetrics

MainStep ==
    \/ StartStep
    \/ Wake \/ StartDrain \/ Drained \/ Collected \/ StopCleanup \/ WaitCleanup \/ ClosePool
    \/ \E l \in Listeners : Stopped(l) \/ Collect(l)

Next ==
    \/ MainStep \/ Signal \/ Register \/ Expire \/ Sweep \/ SweepEnds \/ JanitorStops
    \/ \E l \in Listeners : Fail(l) \/ Report(l)
    \/ \E r \in Requests : Accept(r) \/ Query(r) \/ QueryEnds(r) \/ Finish(r)

Spec == Init /\ [][Next]_vars

\* Goroutines run, migrations and pings end, the timer of the grace period fires, statements end (their
\* contexts have deadlines).  A handler itself may never return, and nothing
\* forces a signal.  Where the ticker and the context of the cleanup are both
\* ready, select chooses fairly.
FairSpec ==
    /\ Spec
    /\ WF_vars(MainStep) /\ WF_vars(Register) /\ WF_vars(Expire) /\ WF_vars(SweepEnds) /\ SF_vars(JanitorStops)
    /\ \A l \in Listeners : WF_vars(Report(l))
    /\ \A r \in Requests : WF_vars(QueryEnds(r) /\ (~ctxLive \/ pool # "open"))

-----------------------------------------------------------------------------
TypeOK ==
    /\ cfg \in [Settings -> Raw]
    /\ main \in {"load", "migrate", "connect", "build", "bindMetrics", "bindApi", "stopMetrics",
                "select", "drain", "draining", "collect", "stopCleanup", "waitCleanup", "closePool", "exited"}
    /\ {signal, missed, expired, ctxLive, cleanupOn, drainErr} \subseteq BOOLEAN
    /\ listener \in [Listeners -> {"none", "bound", "serving", "failed", "closed"}]
    /\ chan \in [Listeners -> {"empty", "err", "nil", "read"}]
    /\ stopping \in [Listeners -> {"no", "waiting", "ok", "err"}]
    /\ req \in [Requests -> {"new", "running", "query", "done", "dropped"}]
    /\ janitor \in {"none", "idle", "query", "stopped"}
    /\ pool \in {"none", "open", "closing", "closed"}
    /\ exitErr \in Listeners \cup {"nil"}
    /\ result \in Listeners \cup {"none", "start", "nil", "drain"}

\* The developer tools see what the server sees, whichever of the three sources
\* a setting comes from and however often it is empty: a server, dsn or hashpw
\* started by envexec works with the settings of the server (README: the wrapper
\* "loads .env with the same semantics as the server").
ToolsAgree ==
    main = "load" /\ Accepted(sources) =>
        /\ LoadFrom(UnderEnvexec(sources)) = LoadFrom(sources)
        /\ \A s \in OfDatabase : /\ DatabaseURL(sources)[s] = LoadFrom(sources)[s]
                                 /\ DatabaseURL(UnderEnvexec(sources))[s] = LoadFrom(sources)[s]
        /\ PasswordHashingCost(UnderEnvexec(sources)) = LoadFrom(sources)["PASSWORD_BCRYPT_COST"].n

\* The pool is not closed under a request that still has its context, whatever
\* made the process stop (awaitStop drains "in all cases").
PoolOutlivesRequests == pool \notin {"none", "open"} => \A r \in Requests : Running(r) => ~ctxLive

\* A request in flight is cancelled only by the end of the grace period, if the
\* drain found the listener it came from.
NoEarlyCancel == ~ctxLive /\ ~missed => expired \/ Idle

\* However the process ends, a failed start included, the cleanup has stopped and
\* the pool is closed by then; and run returns nil only when it has served and
\* every accepted request was finished ("shutdown complete, every in-flight
\* request finished").
CleanExitIsTrue ==
    main = "exited" =>
        /\ janitor \in {"none", "stopped"} /\ pool \in {"none", "closed"}
        /\ result = "nil" /\ ~missed =>
              listener["api"] \in {"closed", "failed"} /\ \A r \in Requests : req[r] \in {"new", "done"}

\* Once a signal arrived, during the start too, or a listener failed, the process
\* exits; a drain that came before fiber knew its listener is the exception.
ProcessExits == (signal \/ \E l \in Listeners : listener[l] = "failed") ~> (main = "exited" \/ missed)
=============================================================================
