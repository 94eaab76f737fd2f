------------------------------- MODULE Config -------------------------------
(***************************************************************************)
(* How the process gets its settings: config.yaml, .env and the            *)
(* environment are read, one of them is chosen for each setting, the text  *)
(* is parsed and the result validated.  Settings have the names of their   *)
(* environment variables.                                                  *)
(*                                                                         *)
(* A text is what the parsers tell apart: "int" and "dur" with their       *)
(* value n, "bool" (n is 0 or 1), "text" (of n characters, and well formed *)
(* for its setting), "odd" (any other text) and "commas" (a list without   *)
(* items).  "unset" is a key that is not there, "empty" one without value. *)
(***************************************************************************)
EXTENDS Integers, Sequences

Raw == [k : {"unset", "empty", "int", "dur", "bool", "text", "odd", "commas"}, n : Int]

Unset == [k |-> "unset", n |-> 0]
Empty == [k |-> "empty", n |-> 0]
Number(n) == [k |-> "int", n |-> n]
Duration(n) == [k |-> "dur", n |-> n]
Boolean(n) == [k |-> "bool", n |-> n]
Text(n) == [k |-> "text", n |-> n]
Odd == [k |-> "odd", n |-> 1]
Commas == [k |-> "commas", n |-> 1]

-----------------------------------------------------------------------------
(* The settings, by the method of resolver that LoadFrom uses.             *)

Ints == {"SERVER_MAX_BODY_BYTES", "DB_MAX_CONNECTIONS", "DB_MIN_CONNECTIONS", "JWT_MIN_SECRET_LENGTH",
         "PASSWORD_BCRYPT_COST", "PASSWORD_MIN_LENGTH", "PASSWORD_MAX_CONCURRENT_HASHES",
         "USER_MIN_USERNAME_LENGTH", "USER_MAX_USERNAME_LENGTH", "TASK_MAX_TITLE_LENGTH",
         "TASK_MAX_DESCRIPTION_LENGTH", "PAGINATION_DEFAULT_PAGE_SIZE", "PAGINATION_MAX_PAGE_SIZE",
         "RATELIMIT_AUTH_MAX_REQUESTS"}
Durations == {"SERVER_READ_TIMEOUT", "SERVER_WRITE_TIMEOUT", "SERVER_SHUTDOWN_TIMEOUT",
              "DB_CONNECT_TIMEOUT", "DB_CALL_TIMEOUT", "DB_MAX_CONN_LIFETIME", "DB_MAX_CONN_IDLE_TIME",
              "JWT_TTL", "JWT_REFRESH_TTL", "CLEANUP_INTERVAL", "CLEANUP_REFRESH_TOKEN_RETENTION",
              "RATELIMIT_AUTH_WINDOW", "HEALTH_READY_TIMEOUT"}
Strs == {"APP_NAME", "APP_ENV", "SERVER_ADDRESS", "DB_HOST", "DB_NAME", "DB_USER", "DB_SSLMODE",
         "JWT_ISSUER", "CORS_ALLOW_ORIGINS", "CORS_ALLOW_METHODS", "CORS_ALLOW_HEADERS",
         "MIGRATIONS_PATH", "LOG_LEVEL", "LOG_FORMAT", "METRICS_PATH", "METRICS_NAMESPACE"}
Ports == {"DB_PORT"}
Bools == {"RUN_MIGRATIONS", "METRICS_ENABLED"}
OptionalStrs == {"SERVER_PROXY_HEADER", "METRICS_ADDRESS"}
Lists == {"SERVER_TRUSTED_PROXIES"}
Secrets == {"DB_PASSWORD", "JWT_SECRET"}
OptionalSecrets == {"ADMIN_USERNAME", "ADMIN_PASSWORD_HASH"}

InYAML == Ints \cup Durations \cup Strs \cup Ports \cup Bools \cup OptionalStrs \cup Lists
Settings == InYAML \cup Secrets \cup OptionalSecrets

OfDatabase == {"DB_HOST", "DB_PORT", "DB_NAME", "DB_USER", "DB_PASSWORD", "DB_SSLMODE"}

\* What a process may find: yaml maps keys to texts ("strange" is a file with
\* an unknown key or a second document), dotenv is the lines of .env, env the
\* environment.
Assignment == [key : Settings, val : Raw, form : {"fine", "no assignment", "open quote"}]
Sources == [yaml : [InYAML -> Raw], strange : BOOLEAN, dotenv : Seq(Assignment), env : [Settings -> Raw]]

Nothing == [s \in Settings |-> Unset]
NoSources == [yaml |-> [s \in InYAML |-> Unset], strange |-> FALSE, dotenv |-> <<>>, env |-> Nothing]

-----------------------------------------------------------------------------
(* Reading.                                                                *)

\* Pointers in fileConfig: integers and booleans are decoded by the YAML parser.
\* A key without value is a null, which leaves the pointer nil.
readable(src) ==
    /\ ~src.strange
    /\ \A s \in Ints \cup Ports : src.yaml[s].k \in {"unset", "empty", "int"}
    /\ \A s \in Bools : src.yaml[s].k \in {"unset", "empty", "bool"}

\* ReadEnvFile gives up at the first line that is wrong or repeats a key.
parseable(lines) ==
    /\ \A i \in DOMAIN lines : lines[i].form = "fine"
    /\ \A i, j \in DOMAIN lines : lines[i].key = lines[j].key => i = j

ReadEnvFile(lines) ==
    [s \in Settings |-> IF \E i \in DOMAIN lines : lines[i].key = s
                        THEN (CHOOSE x \in {lines[i] : i \in DOMAIN lines} : x.key = s).val
                        ELSE Unset]

Given(r) == r.k \notin {"unset", "empty"}

\* lookup, secret and optionalSecret: the first source that is not empty.
Lookup(yaml, dotenv, env, s) ==
    IF Given(env[s]) THEN env[s]
    ELSE IF Given(dotenv[s]) THEN dotenv[s]
    ELSE IF s \in InYAML /\ Given(yaml[s]) THEN yaml[s] ELSE Unset

\* missing and invalid: what str, integer, port, boolean, duration and secret
\* cannot use.  ParseDuration takes "0" without a unit, ParseBool "0" and "1".
Problem(s, r) ==
    CASE s \in Ints -> r.k # "int"
      [] s \in Ports -> r.k # "int" \/ r.n \notin 1 .. 65535
      [] s \in Durations -> r.k # "dur" /\ r # Number(0)
      [] s \in Bools -> r.k # "bool" /\ r \notin {Number(0), Number(1)}
      [] s \in Strs \cup Secrets -> ~Given(r)
      [] s \in OptionalStrs \cup Lists \cup OptionalSecrets -> FALSE

-----------------------------------------------------------------------------
(* validate.                                                               *)

MaxBcryptPasswordLength == 72

\* Numbers that are compared with each other.
Related(c) ==
    LET v(s) == c[s].n
    IN /\ 0 <= v("DB_MIN_CONNECTIONS") /\ v("DB_MIN_CONNECTIONS") <= v("DB_MAX_CONNECTIONS")
       /\ v("DB_MAX_CONN_IDLE_TIME") <= v("DB_MAX_CONN_LIFETIME")
       /\ v("PASSWORD_MIN_LENGTH") <= MaxBcryptPasswordLength
       /\ v("PAGINATION_DEFAULT_PAGE_SIZE") <= v("PAGINATION_MAX_PAGE_SIZE")
       /\ v("JWT_TTL") < v("JWT_REFRESH_TTL")
       /\ v("USER_MIN_USERNAME_LENGTH") <= v("USER_MAX_USERNAME_LENGTH")

Positive(c) == \A s \in (Ints \ {"DB_MIN_CONNECTIONS"}) \cup Durations : c[s].n > 0

\* Texts that are looked into: proxies, addresses, the admin, names for metrics.
WellFormed(c) ==
    /\ Given(c["SERVER_PROXY_HEADER"]) => c["SERVER_TRUSTED_PROXIES"].k \notin {"unset", "commas"}
    /\ c["SERVER_TRUSTED_PROXIES"].k \in {"unset", "commas", "text"}
    /\ c["METRICS_ADDRESS"].k \in {"unset", "text"}
    /\ c["JWT_SECRET"].n >= c["JWT_MIN_SECRET_LENGTH"].n
    /\ Given(c["ADMIN_USERNAME"]) <=> Given(c["ADMIN_PASSWORD_HASH"])
    /\ c["ADMIN_PASSWORD_HASH"].k \in {"unset", "text"}
    /\ c["METRICS_PATH"].k = "text"
    /\ c["METRICS_NAMESPACE"].k = "text"

validate(c) == Positive(c) /\ Related(c) /\ WellFormed(c)

-----------------------------------------------------------------------------
(* What the programs do with it.                                           *)

Resolved(src, S) == [s \in S |-> Lookup(src.yaml, ReadEnvFile(src.dotenv), src.env, s)]
Readable(src) == readable(src) /\ parseable(src.dotenv)

\* LoadFrom, for the server: accepted settings, or nothing.
Accepted(src) ==
    /\ Readable(src)
    /\ LET c == Resolved(src, Settings)
       IN (\A s \in Settings : ~Problem(s, c[s])) /\ validate(c)
LoadFrom(src) == IF Accepted(src) THEN Resolved(src, Settings) ELSE Nothing

\* DatabaseURL, for dsn: the settings that the URL is made of.
DatabaseURL(src) ==
    LET c == Resolved(src, OfDatabase)
    IN IF Readable(src) /\ \A s \in OfDatabase : ~Problem(s, c[s]) THEN c ELSE [s \in OfDatabase |-> Unset]

\* PasswordHashingCost, for hashpw: .env is not read.
PasswordHashingCost(src) ==
    LET r == Lookup(src.yaml, Nothing, src.env, "PASSWORD_BCRYPT_COST")
    IN IF readable(src) /\ ~Problem("PASSWORD_BCRYPT_COST", r) /\ r.n > 0 THEN r.n ELSE 0

\* Mutant: an empty variable in the shell hides the file.
CommandEnvironment_EmptyWins(src) ==
    LET file == ReadEnvFile(src.dotenv)
    IN [s \in Settings |-> IF src.env[s] # Unset THEN src.env[s] ELSE file[s]]

\* CommandEnvironment, for commands that envexec starts.
CommandEnvironment(src) ==
    LET file == ReadEnvFile(src.dotenv)
    IN [s \in Settings |-> IF Given(src.env[s]) \/ (src.env[s] # Unset /\ file[s] = Unset)
                           THEN src.env[s] ELSE file[s]]
UnderEnvexec(src) == [src EXCEPT !.env = CommandEnvironment(src)]
=============================================================================
