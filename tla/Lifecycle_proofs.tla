-------------------------- MODULE Lifecycle_proofs --------------------------
(***************************************************************************)
(* Proofs about Config and Lifecycle.  First what the readers of the       *)
(* configuration agree on, for every configuration there can be; then the  *)
(* life of the process, for every number of requests.                      *)
(***************************************************************************)
EXTENDS Lifecycle, TLAPS

-----------------------------------------------------------------------------
(* The configuration.                                                      *)

LEMMA FileTyped ==
    ASSUME NEW lines \in Seq(Assignment)
    PROVE  ReadEnvFile(lines) \in [Settings -> Raw]
  <1> SUFFICES ASSUME NEW s \in Settings
               PROVE  (IF \E i \in DOMAIN lines : lines[i].key = s
                       THEN (CHOOSE x \in {lines[i] : i \in DOMAIN lines} : x.key = s).val
                       ELSE Unset) \in Raw
    BY DEF ReadEnvFile
  <1>1. CASE \E i \in DOMAIN lines : lines[i].key = s
    <2> DEFINE x == CHOOSE x \in {lines[i] : i \in DOMAIN lines} : x.key = s
    <2>1. x \in {lines[i] : i \in DOMAIN lines}
      BY <1>1
    <2>2. \A i \in DOMAIN lines : lines[i] \in Assignment
      OBVIOUS
    <2>3. x \in Assignment
      BY <2>1, <2>2
    <2> QED
      BY <1>1, <2>3 DEF Assignment
  <1>2. CASE ~\E i \in DOMAIN lines : lines[i].key = s
    BY <1>2 DEF Unset, Raw
  <1> QED
    BY <1>1, <1>2

LEMMA ResolvedTyped ==
    ASSUME NEW src \in Sources
    PROVE  Resolved(src, Settings) \in [Settings -> Raw]
  <1>1. src.dotenv \in Seq(Assignment) /\ src.env \in [Settings -> Raw] /\ src.yaml \in [InYAML -> Raw]
    BY DEF Sources
  <1>2. ReadEnvFile(src.dotenv) \in [Settings -> Raw]
    BY <1>1, FileTyped
  <1>3. Unset \in Raw
    BY DEF Unset, Raw
  <1> QED
    BY <1>1, <1>2, <1>3 DEF Resolved, Lookup

LEMMA LoadTyped ==
    ASSUME NEW src \in Sources
    PROVE  LoadFrom(src) \in [Settings -> Raw]
  BY ResolvedTyped DEF LoadFrom, Nothing, Unset, Raw

\* Under envexec a setting has the value that the server finds by itself, and
\* hashpw, which does not read .env, finds that value too.
LEMMA SameValueUnderEnvexec ==
    ASSUME NEW src \in Sources, NEW s \in Settings
    PROVE  /\ Lookup(src.yaml, ReadEnvFile(src.dotenv), CommandEnvironment(src), s)
                = Lookup(src.yaml, ReadEnvFile(src.dotenv), src.env, s)
           /\ Lookup(src.yaml, Nothing, CommandEnvironment(src), s)
                = Lookup(src.yaml, ReadEnvFile(src.dotenv), src.env, s)
  <1> DEFINE file == ReadEnvFile(src.dotenv)
             env2 == CommandEnvironment(src)
  <1>1. env2[s] = IF Given(src.env[s]) \/ (src.env[s] # Unset /\ file[s] = Unset) THEN src.env[s] ELSE file[s]
    BY DEF CommandEnvironment
  <1>2. ~Given(Unset) /\ Nothing[s] = Unset
    BY DEF Given, Unset, Nothing
  <1> HIDE DEF file, env2
  <1>3. /\ Lookup(src.yaml, file, env2, s) = Lookup(src.yaml, file, src.env, s)
        /\ Lookup(src.yaml, Nothing, env2, s) = Lookup(src.yaml, file, src.env, s)
    BY <1>1, <1>2 DEF Lookup
  <1> QED
    BY <1>3 DEF file, env2

LEMMA EnvexecKeepsFiles ==
    ASSUME NEW src \in Sources
    PROVE  /\ UnderEnvexec(src).env = CommandEnvironment(src)
           /\ UnderEnvexec(src).yaml = src.yaml
           /\ UnderEnvexec(src).dotenv = src.dotenv
           /\ UnderEnvexec(src).strange = src.strange
  BY DEF UnderEnvexec, Sources

LEMMA ResolvedUnderEnvexec ==
    ASSUME NEW src \in Sources, NEW S \in SUBSET Settings
    PROVE  /\ Resolved(UnderEnvexec(src), S) = Resolved(src, S)
           /\ Readable(UnderEnvexec(src)) <=> Readable(src)
           /\ readable(UnderEnvexec(src)) <=> readable(src)
  <1>1. ASSUME NEW s \in S
        PROVE  Lookup(UnderEnvexec(src).yaml, ReadEnvFile(UnderEnvexec(src).dotenv), UnderEnvexec(src).env, s)
                 = Lookup(src.yaml, ReadEnvFile(src.dotenv), src.env, s)
    <2>1. s \in Settings
      OBVIOUS
    <2>2. Lookup(src.yaml, ReadEnvFile(src.dotenv), CommandEnvironment(src), s)
                = Lookup(src.yaml, ReadEnvFile(src.dotenv), src.env, s)
      BY <2>1, SameValueUnderEnvexec
    <2> QED
      BY <2>2, EnvexecKeepsFiles, Zenon
  <1>2. Resolved(UnderEnvexec(src), S) = Resolved(src, S)
    BY <1>1, Zenon DEF Resolved
  <1>3. readable(UnderEnvexec(src)) <=> readable(src)
    BY EnvexecKeepsFiles, Zenon DEF readable
  <1> QED
    BY <1>2, <1>3, EnvexecKeepsFiles, Zenon DEF Readable

\* The server, dsn and hashpw read the same configuration, with envexec or
\* without it.
LEMMA ReadersAgree ==
    ASSUME NEW src \in Sources, Accepted(src)
    PROVE  /\ LoadFrom(UnderEnvexec(src)) = LoadFrom(src)
           /\ \A s \in OfDatabase : /\ DatabaseURL(src)[s] = LoadFrom(src)[s]
                                    /\ DatabaseURL(UnderEnvexec(src))[s] = LoadFrom(src)[s]
           /\ PasswordHashingCost(UnderEnvexec(src)) = LoadFrom(src)["PASSWORD_BCRYPT_COST"].n
  <1> DEFINE all == Resolved(src, Settings)
             few == Resolved(src, OfDatabase)
             cost == "PASSWORD_BCRYPT_COST"
  <1>1. OfDatabase \subseteq Settings /\ cost \in Settings /\ cost \in Ints
    BY DEF OfDatabase, Settings, InYAML, Strs, Ports, Secrets, Ints
  <1>2. LoadFrom(src) = all /\ (\A s \in Settings : ~Problem(s, all[s])) /\ Positive(all) /\ Readable(src)
    BY DEF LoadFrom, Accepted, validate
  <1>3. \A s \in OfDatabase : few[s] = all[s]
    BY <1>1 DEF Resolved
  <1>4. LoadFrom(UnderEnvexec(src)) = LoadFrom(src)
    <2>1. Resolved(UnderEnvexec(src), Settings) = all /\ (Readable(UnderEnvexec(src)) <=> Readable(src))
      BY ResolvedUnderEnvexec
    <2> QED
      BY <2>1, Zenon DEF LoadFrom, Accepted
  <1>5. /\ DatabaseURL(src) = few /\ DatabaseURL(UnderEnvexec(src)) = few
    <2>1. \A s \in OfDatabase : ~Problem(s, few[s])
      BY <1>1, <1>2, <1>3
    <2>2. Resolved(UnderEnvexec(src), OfDatabase) = few /\ (Readable(UnderEnvexec(src)) <=> Readable(src))
      BY <1>1, ResolvedUnderEnvexec
    <2> HIDE DEF few
    <2> QED
      BY <1>2, <2>1, <2>2, Zenon DEF DatabaseURL, few
  <1>6. PasswordHashingCost(UnderEnvexec(src)) = all[cost].n
    <2>1. Lookup(src.yaml, Nothing, CommandEnvironment(src), cost) = all[cost]
      BY <1>1, SameValueUnderEnvexec DEF Resolved
    <2>2. Lookup(UnderEnvexec(src).yaml, Nothing, UnderEnvexec(src).env, cost) = all[cost]
      BY <2>1, EnvexecKeepsFiles, Zenon
    <2>3. readable(UnderEnvexec(src)) /\ ~Problem(cost, all[cost])
      BY <1>1, <1>2, ResolvedUnderEnvexec DEF Readable
    <2>4. all[cost].n > 0
      BY <1>1, <1>2 DEF Positive
    <2> HIDE DEF all
    <2> QED
      BY <2>2, <2>3, <2>4 DEF PasswordHashingCost
  <1> QED
    BY <1>2, <1>3, <1>4, <1>5, <1>6

-----------------------------------------------------------------------------
(* The inductive invariant of the process.                                 *)

Starting == {"load", "migrate", "connect", "build", "bindMetrics", "bindApi", "stopMetrics"}
Working == {"select", "drain"}
Leaving == {"stopCleanup", "waitCleanup", "closePool", "exited"}

\* The process has drained its servers: it is past the select and did start.
HasDrained == main = "collect" \/ (main \in Leaving /\ result # "start")

\* The configuration that Load is about to read is one of the inputs.
Configured == main = "load" => sources \in SourceInputs

\* Whose turn it is to use the pool and when the cleanup is there.
Resources ==
    /\ pool = "none" <=> main \in {"load", "migrate", "connect"} \/ (main = "exited" /\ pool # "closed")
    /\ pool = "closing" => main = "closePool"
    /\ pool = "closed" => main = "exited"
    /\ main \in {"load", "migrate", "connect", "build"} => janitor = "none"
    /\ main \in {"closePool", "exited"} => janitor \in {"none", "stopped"}

\* What run returns, and when it is decided.
Results ==
    /\ main \in (Starting \ {"stopMetrics"}) \cup Working \cup {"draining", "collect"} => result = "none"
    /\ main = "stopMetrics" => result = "start"
    /\ main \in Leaving => result # "none"
    /\ result = "nil" => ~drainErr

\* Requests come in once the API listener is served, and lose their context by
\* the drain alone.
Served ==
    /\ main \in Starting \/ result = "start" => listener["api"] = "none" /\ \A r \in Requests : req[r] = "new"
    /\ main \in Working \cup {"draining"} => listener["api"] # "none"
    /\ ctxLive <=> ~HasDrained
    /\ ctxLive => \A r \in Requests : req[r] # "dropped"

\* The drain: what an answer of the API server says about its requests.
Drains ==
    /\ main \in Starting \cup Working => \A l \in Listeners : stopping[l] = "no"
    /\ main \in Working => listener["api"] # "closed"
    /\ result = "start" => \A l \in Listeners : stopping[l] = "no"
    /\ (main = "draining" \/ HasDrained) /\ ~missed => listener["api"] \in {"closed", "failed"}
    /\ ~missed /\ stopping["api"] = "ok" => \A r \in Requests : req[r] \in {"new", "done"}
    /\ stopping["api"] = "err" => expired
    /\ HasDrained => /\ \A l \in Listeners : stopping[l] \in {"ok", "err"}
                     /\ drainErr <=> \E l \in Listeners : stopping[l] = "err"

LifeInv == TypeOK /\ Configured /\ Resources /\ Results /\ Served /\ Drains

LEMMA InitInvariant ==
    ASSUME Init
    PROVE  LifeInv
  <1>1. Nothing \in [Settings -> Raw]
    BY DEF Nothing, Unset, Raw
  <1> QED
    BY <1>1 DEF Init, LifeInv, TypeOK, Configured, Resources, Results, Served, Drains, HasDrained, Starting, Working,
       Leaving, Listeners

LEMMA ConfiguredStep ==
    ASSUME TypeOK, Configured, Next
    PROVE  Configured'
  <1>1. CASE Load
    BY <1>1 DEF Load, Proceed, GiveUp, Configured
  <1>2. CASE Migrate
    BY <1>2 DEF Migrate, Proceed, GiveUp, Forget, Configured
  <1>3. CASE Connect
    BY <1>3 DEF Connect, Proceed, GiveUp, Forget, Configured
  <1>4. CASE Build
    BY <1>4 DEF Build, Proceed, GiveUp, Forget, Configured
  <1>5. CASE BindMetrics
    BY <1>5 DEF BindMetrics, Proceed, GiveUp, Forget, Configured
  <1>6. CASE BindApi
    BY <1>6 DEF BindApi, Proceed, GiveUp, Forget, Closed, Configured
  <1>7. CASE StopMetrics
    BY <1>7 DEF StopMetrics, Proceed, startvars, Configured
  <1>8. CASE UNCHANGED <<main, sources, cfg>>
    BY <1>8 DEF Configured
  <1>9. CASE Wake
    BY <1>9 DEF Wake, startvars, Configured
  <1>10. CASE StartDrain
    BY <1>10 DEF StartDrain, Closed, Configured
  <1>11. CASE Drained
    BY <1>11 DEF Drained, startvars, Configured
  <1>12. CASE Collected
    BY <1>12 DEF Collected, Unread, startvars, Configured
  <1>13. CASE StopCleanup
    BY <1>13 DEF StopCleanup, startvars, Configured
  <1>14. CASE WaitCleanup
    BY <1>14 DEF WaitCleanup, startvars, Configured
  <1>15. CASE ClosePool
    BY <1>15 DEF ClosePool, startvars, Configured
  <1> QED
    BY <1>1, <1>2, <1>3, <1>4, <1>5, <1>6, <1>7, <1>8, <1>9, <1>10, <1>11, <1>12, <1>13, <1>14, <1>15 DEF Next,
       MainStep, StartStep, procvars, startvars, Signal, Register, Expire, Sweep, SweepEnds, JanitorStops, Stopped,
       Collect, Fail, Report, Accept, Query, QueryEnds, Finish

LEMMA TypeStep ==
    ASSUME TypeOK, Configured, Next
    PROVE  TypeOK'
  <1>a. main = "load" => sources \in Sources
    BY LifecycleAssumption DEF Configured
  <1>b. Nothing \in [Settings -> Raw]
    BY DEF Nothing, Unset, Raw
  <1>1. CASE Load
    BY <1>1, <1>a, <1>b, LoadTyped DEF Load, Proceed, GiveUp, TypeOK, Listeners
  <1>2. CASE Migrate
    BY <1>2, <1>b DEF Migrate, Proceed, GiveUp, Forget, TypeOK, Listeners
  <1>3. CASE Connect
    BY <1>3, <1>b DEF Connect, Proceed, GiveUp, Forget, TypeOK, Listeners
  <1>4. CASE Build
    BY <1>4, <1>b DEF Build, Proceed, GiveUp, Forget, TypeOK, Listeners
  <1>5. CASE BindMetrics
    BY <1>5, <1>b DEF BindMetrics, Proceed, GiveUp, Forget, TypeOK, Listeners
  <1>6. CASE BindApi
    BY <1>6, <1>b DEF BindApi, Proceed, GiveUp, Forget, Closed, TypeOK, Listeners
  <1>7. CASE StopMetrics
    BY <1>7 DEF StopMetrics, Proceed, startvars, TypeOK, Listeners
  <1>8. CASE Wake
    BY <1>8 DEF Wake, startvars, TypeOK, Listeners
  <1>9. CASE StartDrain
    BY <1>9 DEF StartDrain, Closed, TypeOK, Listeners
  <1>10. CASE Drained
    BY <1>10 DEF Drained, startvars, TypeOK, Listeners
  <1>11. CASE Collected
    BY <1>11 DEF Collected, Unread, startvars, TypeOK, Listeners
  <1>12. CASE StopCleanup
    BY <1>12 DEF StopCleanup, startvars, TypeOK, Listeners
  <1>13. CASE WaitCleanup
    BY <1>13 DEF WaitCleanup, startvars, TypeOK, Listeners
  <1>14. CASE ClosePool
    BY <1>14 DEF ClosePool, startvars, TypeOK, Listeners
  <1>15. CASE Signal
    BY <1>15 DEF Signal, procvars, startvars, TypeOK, Listeners
  <1>16. CASE Register
    BY <1>16 DEF Register, procvars, startvars, TypeOK, Listeners
  <1>17. CASE Expire
    BY <1>17 DEF Expire, procvars, startvars, TypeOK, Listeners
  <1>18. CASE Sweep
    BY <1>18 DEF Sweep, procvars, startvars, TypeOK, Listeners
  <1>19. CASE SweepEnds
    BY <1>19 DEF SweepEnds, procvars, startvars, TypeOK, Listeners
  <1>20. CASE JanitorStops
    BY <1>20 DEF JanitorStops, procvars, startvars, TypeOK, Listeners
  <1>21. ASSUME NEW l \in Listeners, Stopped(l)
        PROVE  TypeOK'
    BY <1>21 DEF Stopped, Idle, Running, startvars, TypeOK, Listeners
  <1>22. ASSUME NEW l \in Listeners, Collect(l)
        PROVE  TypeOK'
    BY <1>22 DEF Collect, Unread, procvars, startvars, TypeOK, Listeners
  <1>23. ASSUME NEW l \in Listeners, Fail(l)
        PROVE  TypeOK'
    BY <1>23 DEF Fail, procvars, startvars, TypeOK, Listeners
  <1>24. ASSUME NEW l \in Listeners, Report(l)
        PROVE  TypeOK'
    BY <1>24 DEF Report, procvars, startvars, TypeOK, Listeners
  <1>25. ASSUME NEW r \in Requests, Accept(r)
        PROVE  TypeOK'
    BY <1>25 DEF Accept, procvars, startvars, TypeOK, Listeners
  <1>26. ASSUME NEW r \in Requests, Query(r)
        PROVE  TypeOK'
    BY <1>26 DEF Query, procvars, startvars, TypeOK, Listeners
  <1>27. ASSUME NEW r \in Requests, QueryEnds(r)
        PROVE  TypeOK'
    BY <1>27 DEF QueryEnds, procvars, startvars, TypeOK, Listeners
  <1>28. ASSUME NEW r \in Requests, Finish(r)
        PROVE  TypeOK'
    BY <1>28 DEF Finish, procvars, startvars, TypeOK, Listeners
  <1> QED
    BY <1>1, <1>2, <1>3, <1>4, <1>5, <1>6, <1>7, <1>8, <1>9, <1>10, <1>11, <1>12, <1>13, <1>14, <1>15, <1>16, <1>17,
       <1>18, <1>19, <1>20, <1>21, <1>22, <1>23, <1>24, <1>25, <1>26, <1>27, <1>28 DEF Next, MainStep, StartStep

LEMMA ResourcesStep ==
    ASSUME TypeOK, Resources, Next
    PROVE  Resources'
  <1>1. CASE Load
    BY <1>1 DEF Load, Proceed, GiveUp, TypeOK, Resources, Alive
  <1>2. CASE Migrate
    BY <1>2 DEF Migrate, Proceed, GiveUp, Forget, TypeOK, Resources, Alive
  <1>3. CASE Connect
    BY <1>3 DEF Connect, Proceed, GiveUp, Forget, TypeOK, Resources, Alive
  <1>4. CASE Build
    BY <1>4 DEF Build, Proceed, GiveUp, Forget, TypeOK, Resources, Alive
  <1>5. CASE BindMetrics
    BY <1>5 DEF BindMetrics, Proceed, GiveUp, Forget, TypeOK, Resources, Alive
  <1>6. CASE BindApi
    BY <1>6 DEF BindApi, Proceed, GiveUp, Forget, Closed, TypeOK, Resources, Alive
  <1>7. CASE StopMetrics
    BY <1>7 DEF StopMetrics, Proceed, startvars, TypeOK, Resources, Alive
  <1>8. CASE Wake
    BY <1>8 DEF Wake, startvars, TypeOK, Resources, Alive
  <1>9. CASE StartDrain
    BY <1>9 DEF StartDrain, Closed, TypeOK, Resources, Alive
  <1>10. CASE Drained
    BY <1>10 DEF Drained, startvars, TypeOK, Resources, Alive
  <1>11. CASE Collected
    BY <1>11 DEF Collected, Unread, startvars, TypeOK, Resources, Alive
  <1>12. CASE StopCleanup
    BY <1>12 DEF StopCleanup, startvars, TypeOK, Resources, Alive
  <1>13. CASE WaitCleanup
    BY <1>13 DEF WaitCleanup, startvars, TypeOK, Resources, Alive
  <1>14. CASE ClosePool
    BY <1>14 DEF ClosePool, startvars, TypeOK, Resources, Alive
  <1>15. CASE Signal
    BY <1>15 DEF Signal, procvars, startvars, TypeOK, Resources, Alive
  <1>16. CASE Register
    BY <1>16 DEF Register, procvars, startvars, TypeOK, Resources, Alive
  <1>17. CASE Expire
    BY <1>17 DEF Expire, procvars, startvars, TypeOK, Resources, Alive
  <1>18. CASE Sweep
    BY <1>18 DEF Sweep, procvars, startvars, TypeOK, Resources, Alive
  <1>19. CASE SweepEnds
    BY <1>19 DEF SweepEnds, procvars, startvars, TypeOK, Resources, Alive
  <1>20. CASE JanitorStops
    BY <1>20 DEF JanitorStops, procvars, startvars, TypeOK, Resources, Alive
  <1>21. ASSUME NEW l \in Listeners, Stopped(l)
        PROVE  Resources'
    BY <1>21 DEF Stopped, Idle, Running, startvars, TypeOK, Resources, Alive
  <1>22. ASSUME NEW l \in Listeners, Collect(l)
        PROVE  Resources'
    BY <1>22 DEF Collect, Unread, procvars, startvars, TypeOK, Resources, Alive
  <1>23. ASSUME NEW l \in Listeners, Fail(l)
        PROVE  Resources'
    BY <1>23 DEF Fail, procvars, startvars, TypeOK, Resources, Alive
  <1>24. ASSUME NEW l \in Listeners, Report(l)
        PROVE  Resources'
    BY <1>24 DEF Report, procvars, startvars, TypeOK, Resources, Alive
  <1>25. ASSUME NEW r \in Requests, Accept(r)
        PROVE  Resources'
    BY <1>25 DEF Accept, procvars, startvars, TypeOK, Resources, Alive
  <1>26. ASSUME NEW r \in Requests, Query(r)
        PROVE  Resources'
    BY <1>26 DEF Query, procvars, startvars, TypeOK, Resources, Alive
  <1>27. ASSUME NEW r \in Requests, QueryEnds(r)
        PROVE  Resources'
    BY <1>27 DEF QueryEnds, procvars, startvars, TypeOK, Resources, Alive
  <1>28. ASSUME NEW r \in Requests, Finish(r)
        PROVE  Resources'
    BY <1>28 DEF Finish, procvars, startvars, TypeOK, Resources, Alive
  <1> QED
    BY <1>1, <1>2, <1>3, <1>4, <1>5, <1>6, <1>7, <1>8, <1>9, <1>10, <1>11, <1>12, <1>13, <1>14, <1>15, <1>16, <1>17,
       <1>18, <1>19, <1>20, <1>21, <1>22, <1>23, <1>24, <1>25, <1>26, <1>27, <1>28 DEF Next, MainStep, StartStep

LEMMA ResultsStep ==
    ASSUME TypeOK, Results, Next
    PROVE  Results'
  <1>1. CASE Load
    BY <1>1 DEF Load, Proceed, GiveUp, TypeOK, Results, Starting, Working, Leaving, Alive, Listeners
  <1>2. CASE Migrate
    BY <1>2 DEF Migrate, Proceed, GiveUp, Forget, TypeOK, Results, Starting, Working, Leaving, Alive, Listeners
  <1>3. CASE Connect
    BY <1>3 DEF Connect, Proceed, GiveUp, Forget, TypeOK, Results, Starting, Working, Leaving, Alive, Listeners
  <1>4. CASE Build
    BY <1>4 DEF Build, Proceed, GiveUp, Forget, TypeOK, Results, Starting, Working, Leaving, Alive, Listeners
  <1>5. CASE BindMetrics
    BY <1>5 DEF BindMetrics, Proceed, GiveUp, Forget, TypeOK, Results, Starting, Working, Leaving, Alive, Listeners
  <1>6. CASE BindApi
    BY <1>6 DEF BindApi, Proceed, GiveUp, Forget, Closed, TypeOK, Results, Starting, Working, Leaving, Alive,
       Listeners
  <1>7. CASE StopMetrics
    BY <1>7 DEF StopMetrics, Proceed, startvars, TypeOK, Results, Starting, Working, Leaving, Alive, Listeners
  <1>8. CASE Wake
    BY <1>8 DEF Wake, startvars, TypeOK, Results, Starting, Working, Leaving, Alive, Listeners
  <1>9. CASE StartDrain
    BY <1>9 DEF StartDrain, Closed, TypeOK, Results, Starting, Working, Leaving, Alive, Listeners
  <1>10. CASE Drained
    BY <1>10 DEF Drained, startvars, TypeOK, Results, Starting, Working, Leaving, Alive, Listeners
  <1>11. CASE Collected
    BY <1>11 DEF Collected, Unread, startvars, TypeOK, Results, Starting, Working, Leaving, Alive, Listeners
  <1>12. CASE StopCleanup
    BY <1>12 DEF StopCleanup, startvars, TypeOK, Results, Starting, Working, Leaving, Alive, Listeners
  <1>13. CASE WaitCleanup
    BY <1>13 DEF WaitCleanup, startvars, TypeOK, Results, Starting, Working, Leaving, Alive, Listeners
  <1>14. CASE ClosePool
    BY <1>14 DEF ClosePool, startvars, TypeOK, Results, Starting, Working, Leaving, Alive, Listeners
  <1>15. CASE Signal
    BY <1>15 DEF Signal, procvars, startvars, TypeOK, Results, Starting, Working, Leaving, Alive, Listeners
  <1>16. CASE Register
    BY <1>16 DEF Register, procvars, startvars, TypeOK, Results, Starting, Working, Leaving, Alive, Listeners
  <1>17. CASE Expire
    BY <1>17 DEF Expire, procvars, startvars, TypeOK, Results, Starting, Working, Leaving, Alive, Listeners
  <1>18. CASE Sweep
    BY <1>18 DEF Sweep, procvars, startvars, TypeOK, Results, Starting, Working, Leaving, Alive, Listeners
  <1>19. CASE SweepEnds
    BY <1>19 DEF SweepEnds, procvars, startvars, TypeOK, Results, Starting, Working, Leaving, Alive, Listeners
  <1>20. CASE JanitorStops
    BY <1>20 DEF JanitorStops, procvars, startvars, TypeOK, Results, Starting, Working, Leaving, Alive, Listeners
  <1>21. ASSUME NEW l \in Listeners, Stopped(l)
        PROVE  Results'
    BY <1>21 DEF Stopped, Idle, Running, startvars, TypeOK, Results, Starting, Working, Leaving, Alive, Listeners
  <1>22. ASSUME NEW l \in Listeners, Collect(l)
        PROVE  Results'
    BY <1>22 DEF Collect, Unread, procvars, startvars, TypeOK, Results, Starting, Working, Leaving, Alive, Listeners
  <1>23. ASSUME NEW l \in Listeners, Fail(l)
        PROVE  Results'
    BY <1>23 DEF Fail, procvars, startvars, TypeOK, Results, Starting, Working, Leaving, Alive, Listeners
  <1>24. ASSUME NEW l \in Listeners, Report(l)
        PROVE  Results'
    BY <1>24 DEF Report, procvars, startvars, TypeOK, Results, Starting, Working, Leaving, Alive, Listeners
  <1>25. ASSUME NEW r \in Requests, Accept(r)
        PROVE  Results'
    BY <1>25 DEF Accept, procvars, startvars, TypeOK, Results, Starting, Working, Leaving, Alive, Listeners
  <1>26. ASSUME NEW r \in Requests, Query(r)
        PROVE  Results'
    BY <1>26 DEF Query, procvars, startvars, TypeOK, Results, Starting, Working, Leaving, Alive, Listeners
  <1>27. ASSUME NEW r \in Requests, QueryEnds(r)
        PROVE  Results'
    BY <1>27 DEF QueryEnds, procvars, startvars, TypeOK, Results, Starting, Working, Leaving, Alive, Listeners
  <1>28. ASSUME NEW r \in Requests, Finish(r)
        PROVE  Results'
    BY <1>28 DEF Finish, procvars, startvars, TypeOK, Results, Starting, Working, Leaving, Alive, Listeners
  <1> QED
    BY <1>1, <1>2, <1>3, <1>4, <1>5, <1>6, <1>7, <1>8, <1>9, <1>10, <1>11, <1>12, <1>13, <1>14, <1>15, <1>16, <1>17,
       <1>18, <1>19, <1>20, <1>21, <1>22, <1>23, <1>24, <1>25, <1>26, <1>27, <1>28 DEF Next, MainStep, StartStep

LEMMA ServedStep ==
    ASSUME TypeOK, Results, Served, Next
    PROVE  Served'
  <1>1. CASE Load
    BY <1>1 DEF Load, Proceed, GiveUp, TypeOK, Results, Served, HasDrained, Starting, Working, Leaving, Alive,
       Listeners
  <1>2. CASE Migrate
    BY <1>2 DEF Migrate, Proceed, GiveUp, Forget, TypeOK, Results, Served, HasDrained, Starting, Working, Leaving,
       Alive, Listeners
  <1>3. CASE Connect
    BY <1>3 DEF Connect, Proceed, GiveUp, Forget, TypeOK, Results, Served, HasDrained, Starting, Working, Leaving,
       Alive, Listeners
  <1>4. CASE Build
    BY <1>4 DEF Build, Proceed, GiveUp, Forget, TypeOK, Results, Served, HasDrained, Starting, Working, Leaving,
       Alive, Listeners
  <1>5. CASE BindMetrics
    BY <1>5 DEF BindMetrics, Proceed, GiveUp, Forget, TypeOK, Results, Served, HasDrained, Starting, Working,
       Leaving, Alive, Listeners
  <1>6. CASE BindApi
    BY <1>6 DEF BindApi, Proceed, GiveUp, Forget, Closed, TypeOK, Results, Served, HasDrained, Starting, Working,
       Leaving, Alive, Listeners
  <1>7. CASE StopMetrics
    BY <1>7 DEF StopMetrics, Proceed, startvars, TypeOK, Results, Served, HasDrained, Starting, Working, Leaving,
       Alive, Listeners
  <1>8. CASE Wake
    BY <1>8 DEF Wake, startvars, TypeOK, Results, Served, HasDrained, Starting, Working, Leaving, Alive, Listeners
  <1>9. CASE StartDrain
    BY <1>9 DEF StartDrain, Closed, TypeOK, Results, Served, HasDrained, Starting, Working, Leaving, Alive, Listeners
  <1>10. CASE Drained
    BY <1>10 DEF Drained, startvars, TypeOK, Results, Served, HasDrained, Starting, Working, Leaving, Alive, Listeners
  <1>11. CASE Collected
    BY <1>11 DEF Collected, Unread, startvars, TypeOK, Results, Served, HasDrained, Starting, Working, Leaving,
       Alive, Listeners
  <1>12. CASE StopCleanup
    BY <1>12 DEF StopCleanup, startvars, TypeOK, Results, Served, HasDrained, Starting, Working, Leaving, Alive,
       Listeners
  <1>13. CASE WaitCleanup
    BY <1>13 DEF WaitCleanup, startvars, TypeOK, Results, Served, HasDrained, Starting, Working, Leaving, Alive,
       Listeners
  <1>14. CASE ClosePool
    BY <1>14 DEF ClosePool, startvars, TypeOK, Results, Served, HasDrained, Starting, Working, Leaving, Alive,
       Listeners
  <1>15. CASE Signal
    BY <1>15 DEF Signal, procvars, startvars, TypeOK, Results, Served, HasDrained, Starting, Working, Leaving,
       Alive, Listeners
  <1>16. CASE Register
    BY <1>16 DEF Register, procvars, startvars, TypeOK, Results, Served, HasDrained, Starting, Working, Leaving,
       Alive, Listeners
  <1>17. CASE Expire
    BY <1>17 DEF Expire, procvars, startvars, TypeOK, Results, Served, HasDrained, Starting, Working, Leaving,
       Alive, Listeners
  <1>18. CASE Sweep
    BY <1>18 DEF Sweep, procvars, startvars, TypeOK, Results, Served, HasDrained, Starting, Working, Leaving, Alive,
       Listeners
  <1>19. CASE SweepEnds
    BY <1>19 DEF SweepEnds, procvars, startvars, TypeOK, Results, Served, HasDrained, Starting, Working, Leaving,
       Alive, Listeners
  <1>20. CASE JanitorStops
    BY <1>20 DEF JanitorStops, procvars, startvars, TypeOK, Results, Served, HasDrained, Starting, Working, Leaving,
       Alive, Listeners
  <1>21. ASSUME NEW l \in Listeners, Stopped(l)
        PROVE  Served'
    BY <1>21 DEF Stopped, Idle, Running, startvars, TypeOK, Results, Served, HasDrained, Starting, Working, Leaving,
       Alive, Listeners
  <1>22. ASSUME NEW l \in Listeners, Collect(l)
        PROVE  Served'
    BY <1>22 DEF Collect, Unread, procvars, startvars, TypeOK, Results, Served, HasDrained, Starting, Working,
       Leaving, Alive, Listeners
  <1>23. ASSUME NEW l \in Listeners, Fail(l)
        PROVE  Served'
    BY <1>23 DEF Fail, procvars, startvars, TypeOK, Results, Served, HasDrained, Starting, Working, Leaving, Alive,
       Listeners
  <1>24. ASSUME NEW l \in Listeners, Report(l)
        PROVE  Served'
    BY <1>24 DEF Report, procvars, startvars, TypeOK, Results, Served, HasDrained, Starting, Working, Leaving,
       Alive, Listeners
  <1>25. ASSUME NEW r \in Requests, Accept(r)
        PROVE  Served'
    BY <1>25 DEF Accept, procvars, startvars, TypeOK, Results, Served, HasDrained, Starting, Working, Leaving,
       Alive, Listeners
  <1>26. ASSUME NEW r \in Requests, Query(r)
        PROVE  Served'
    BY <1>26 DEF Query, procvars, startvars, TypeOK, Results, Served, HasDrained, Starting, Working, Leaving, Alive,
       Listeners
  <1>27. ASSUME NEW r \in Requests, QueryEnds(r)
        PROVE  Served'
    BY <1>27 DEF QueryEnds, procvars, startvars, TypeOK, Results, Served, HasDrained, Starting, Working, Leaving,
       Alive, Listeners
  <1>28. ASSUME NEW r \in Requests, Finish(r)
        PROVE  Served'
    BY <1>28 DEF Finish, procvars, startvars, TypeOK, Results, Served, HasDrained, Starting, Working, Leaving,
       Alive, Listeners
  <1> QED
    BY <1>1, <1>2, <1>3, <1>4, <1>5, <1>6, <1>7, <1>8, <1>9, <1>10, <1>11, <1>12, <1>13, <1>14, <1>15, <1>16, <1>17,
       <1>18, <1>19, <1>20, <1>21, <1>22, <1>23, <1>24, <1>25, <1>26, <1>27, <1>28 DEF Next, MainStep, StartStep

LEMMA DrainsStep ==
    ASSUME TypeOK, Results, Served, Drains, Next
    PROVE  Drains'
  <1>1. CASE Load
    BY <1>1 DEF Load, Proceed, GiveUp, TypeOK, Results, Served, Drains, HasDrained, Starting, Working, Leaving,
       Alive, Listeners
  <1>2. CASE Migrate
    BY <1>2 DEF Migrate, Proceed, GiveUp, Forget, TypeOK, Results, Served, Drains, HasDrained, Starting, Working,
       Leaving, Alive, Listeners
  <1>3. CASE Connect
    BY <1>3 DEF Connect, Proceed, GiveUp, Forget, TypeOK, Results, Served, Drains, HasDrained, Starting, Working,
       Leaving, Alive, Listeners
  <1>4. CASE Build
    BY <1>4 DEF Build, Proceed, GiveUp, Forget, TypeOK, Results, Served, Drains, HasDrained, Starting, Working,
       Leaving, Alive, Listeners
  <1>5. CASE BindMetrics
    BY <1>5 DEF BindMetrics, Proceed, GiveUp, Forget, TypeOK, Results, Served, Drains, HasDrained, Starting,
       Working, Leaving, Alive, Listeners
  <1>6. CASE BindApi
    BY <1>6 DEF BindApi, Proceed, GiveUp, Forget, Closed, TypeOK, Results, Served, Drains, HasDrained, Starting,
       Working, Leaving, Alive, Listeners
  <1>7. CASE StopMetrics
    BY <1>7 DEF StopMetrics, Proceed, startvars, TypeOK, Results, Served, Drains, HasDrained, Starting, Working,
       Leaving, Alive, Listeners
  <1>8. CASE Wake
    BY <1>8 DEF Wake, startvars, TypeOK, Results, Served, Drains, HasDrained, Starting, Working, Leaving, Alive,
       Listeners
  <1>9. CASE StartDrain
    BY <1>9 DEF StartDrain, Closed, TypeOK, Results, Served, Drains, HasDrained, Starting, Working, Leaving, Alive,
       Listeners
  <1>10. CASE Drained
    BY <1>10 DEF Drained, startvars, TypeOK, Results, Served, Drains, HasDrained, Starting, Working, Leaving, Alive,
       Listeners
  <1>11. CASE Collected
    BY <1>11 DEF Collected, Unread, startvars, TypeOK, Results, Served, Drains, HasDrained, Starting, Working,
       Leaving, Alive, Listeners
  <1>12. CASE StopCleanup
    BY <1>12 DEF StopCleanup, startvars, TypeOK, Results, Served, Drains, HasDrained, Starting, Working, Leaving,
       Alive, Listeners
  <1>13. CASE WaitCleanup
    BY <1>13 DEF WaitCleanup, startvars, TypeOK, Results, Served, Drains, HasDrained, Starting, Working, Leaving,
       Alive, Listeners
  <1>14. CASE ClosePool
    BY <1>14 DEF ClosePool, startvars, TypeOK, Results, Served, Drains, HasDrained, Starting, Working, Leaving,
       Alive, Listeners
  <1>15. CASE Signal
    BY <1>15 DEF Signal, procvars, startvars, TypeOK, Results, Served, Drains, HasDrained, Starting, Working,
       Leaving, Alive, Listeners
  <1>16. CASE Register
    BY <1>16 DEF Register, procvars, startvars, TypeOK, Results, Served, Drains, HasDrained, Starting, Working,
       Leaving, Alive, Listeners
  <1>17. CASE Expire
    BY <1>17 DEF Expire, procvars, startvars, TypeOK, Results, Served, Drains, HasDrained, Starting, Working,
       Leaving, Alive, Listeners
  <1>18. CASE Sweep
    BY <1>18 DEF Sweep, procvars, startvars, TypeOK, Results, Served, Drains, HasDrained, Starting, Working,
       Leaving, Alive, Listeners
  <1>19. CASE SweepEnds
    BY <1>19 DEF SweepEnds, procvars, startvars, TypeOK, Results, Served, Drains, HasDrained, Starting, Working,
       Leaving, Alive, Listeners
  <1>20. CASE JanitorStops
    BY <1>20 DEF JanitorStops, procvars, startvars, TypeOK, Results, Served, Drains, HasDrained, Starting, Working,
       Leaving, Alive, Listeners
  <1>21. ASSUME NEW l \in Listeners, Stopped(l)
        PROVE  Drains'
    BY <1>21 DEF Stopped, Idle, Running, startvars, TypeOK, Results, Served, Drains, HasDrained, Starting, Working,
       Leaving, Alive, Listeners
  <1>22. ASSUME NEW l \in Listeners, Collect(l)
        PROVE  Drains'
    BY <1>22 DEF Collect, Unread, procvars, startvars, TypeOK, Results, Served, Drains, HasDrained, Starting,
       Working, Leaving, Alive, Listeners
  <1>23. ASSUME NEW l \in Listeners, Fail(l)
        PROVE  Drains'
    BY <1>23 DEF Fail, procvars, startvars, TypeOK, Results, Served, Drains, HasDrained, Starting, Working, Leaving,
       Alive, Listeners
  <1>24. ASSUME NEW l \in Listeners, Report(l)
        PROVE  Drains'
    BY <1>24 DEF Report, procvars, startvars, TypeOK, Results, Served, Drains, HasDrained, Starting, Working,
       Leaving, Alive, Listeners
  <1>25. ASSUME NEW r \in Requests, Accept(r)
        PROVE  Drains'
    BY <1>25 DEF Accept, procvars, startvars, TypeOK, Results, Served, Drains, HasDrained, Starting, Working,
       Leaving, Alive, Listeners
  <1>26. ASSUME NEW r \in Requests, Query(r)
        PROVE  Drains'
    BY <1>26 DEF Query, procvars, startvars, TypeOK, Results, Served, Drains, HasDrained, Starting, Working,
       Leaving, Alive, Listeners
  <1>27. ASSUME NEW r \in Requests, QueryEnds(r)
        PROVE  Drains'
    BY <1>27 DEF QueryEnds, procvars, startvars, TypeOK, Results, Served, Drains, HasDrained, Starting, Working,
       Leaving, Alive, Listeners
  <1>28. ASSUME NEW r \in Requests, Finish(r)
        PROVE  Drains'
    BY <1>28 DEF Finish, procvars, startvars, TypeOK, Results, Served, Drains, HasDrained, Starting, Working,
       Leaving, Alive, Listeners
  <1> QED
    BY <1>1, <1>2, <1>3, <1>4, <1>5, <1>6, <1>7, <1>8, <1>9, <1>10, <1>11, <1>12, <1>13, <1>14, <1>15, <1>16, <1>17,
       <1>18, <1>19, <1>20, <1>21, <1>22, <1>23, <1>24, <1>25, <1>26, <1>27, <1>28 DEF Next, MainStep, StartStep

LEMMA NextInvariant ==
    ASSUME LifeInv, [Next]_vars
    PROVE  LifeInv'
  <1>1. CASE Next
    BY <1>1, TypeStep, ConfiguredStep, ResourcesStep, ResultsStep, ServedStep, DrainsStep DEF LifeInv
  <1>2. CASE UNCHANGED vars
    BY <1>2 DEF vars, LifeInv, TypeOK, Configured, Resources, Results, Served, Drains, HasDrained
  <1> QED
    BY <1>1, <1>2

\* The inductive invariant of the process.
THEOREM LifeInvariant == Spec => []LifeInv
  <1> QED
    BY InitInvariant, NextInvariant, PTL DEF Spec

\* Every variable of main, run, awaitStop and Drain keeps its type.
THEOREM LifecycleTypes == Spec => []TypeOK
  <1>1. LifeInv => TypeOK
    BY DEF LifeInv
  <1> QED
    BY <1>1, LifeInvariant, PTL

\* Whatever configuration a process finds, the server, dsn and hashpw read the
\* same settings from it, started by envexec or by hand.
THEOREM ReadersOfConfigAgree == Spec => []ToolsAgree
  <1>1. LifeInv => ToolsAgree
    <2> SUFFICES ASSUME LifeInv, main = "load", Accepted(sources)
                 PROVE  /\ LoadFrom(UnderEnvexec(sources)) = LoadFrom(sources)
                        /\ \A s \in OfDatabase : /\ DatabaseURL(sources)[s] = LoadFrom(sources)[s]
                                                 /\ DatabaseURL(UnderEnvexec(sources))[s] = LoadFrom(sources)[s]
                        /\ PasswordHashingCost(UnderEnvexec(sources)) = LoadFrom(sources)["PASSWORD_BCRYPT_COST"].n
      BY DEF ToolsAgree
    <2>1. sources \in Sources
      BY LifecycleAssumption DEF LifeInv, Configured
    <2> QED
      BY <2>1, ReadersAgree
  <1> QED
    BY <1>1, LifeInvariant, PTL

\* run closes the pool only when no request with a live context is left: awaitStop
\* has drained in all cases, or no listener was ever served.
THEOREM PoolIsClosedLast == Spec => []PoolOutlivesRequests
  <1>1. LifeInv => PoolOutlivesRequests
    BY DEF LifeInv, TypeOK, Resources, Results, Served, HasDrained, Leaving, PoolOutlivesRequests, Running
  <1> QED
    BY <1>1, LifeInvariant, PTL

\* cancelInFlight takes the context of a request only after the grace period of
\* Drain, unless the drain came before fiber knew its listener.
THEOREM GraceIsGiven == Spec => []NoEarlyCancel
  <1>1. LifeInv => NoEarlyCancel
    BY DEF LifeInv, TypeOK, Served, Drains, HasDrained, NoEarlyCancel, Idle, Running, Listeners
  <1> QED
    BY <1>1, LifeInvariant, PTL

\* The process leaves nothing open behind, and "shutdown complete, every in-flight
\* request finished" is true when run returns nil.
THEOREM CleanExitHolds == Spec => []CleanExitIsTrue
  <1>1. LifeInv => CleanExitIsTrue
    BY DEF LifeInv, TypeOK, Resources, Results, Served, Drains, HasDrained, Leaving, CleanExitIsTrue, Listeners
  <1> QED
    BY <1>1, LifeInvariant, PTL
=============================================================================
