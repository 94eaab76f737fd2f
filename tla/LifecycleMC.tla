---------------------------- MODULE LifecycleMC ----------------------------
(* Configurations for the runs of Lifecycle: a complete one, and what can  *)
(* be wrong or said twice in it.                                           *)
EXTENDS Lifecycle

Good(s) ==
    CASE s \in Ints -> Number(4)
      [] s \in Durations -> Duration(IF s = "JWT_REFRESH_TTL" THEN 3 ELSE 2)
      [] s \in Strs -> Text(4)
      [] s \in Ports -> Number(1)
      [] s \in Bools -> Boolean(1)
      [] s \in Secrets -> Text(4)
      [] s \in {"METRICS_ADDRESS"} -> Text(4)
      [] s \in {"SERVER_PROXY_HEADER"} \cup Lists \cup OptionalSecrets -> Unset

Complete == [yaml |-> [s \in InYAML |-> Good(s)], strange |-> FALSE, dotenv |-> <<>>,
             env |-> [s \in Settings |-> IF s \in Secrets THEN Good(s) ELSE Unset]]

Line(s, r) == [key |-> s, val |-> r, form |-> "fine"]

\* Setting s, which all three sources may have or not.
Said(s, y, d, e) ==
    [Complete EXCEPT !.yaml = IF s \in InYAML THEN [@ EXCEPT ![s] = y] ELSE @,
                     !.dotenv = IF d = Unset THEN <<>> ELSE <<Line(s, d)>>,
                     !.env = [@ EXCEPT ![s] = e]]

\* One setting of each kind, with texts on both sides of what is accepted.
Texts ==
    [PAGINATION_DEFAULT_PAGE_SIZE |-> {Number(0), Number(4), Number(5), Odd},
     PASSWORD_BCRYPT_COST |-> {Number(3), Number(4), Number(32)},
     CLEANUP_INTERVAL |-> {Number(0), Number(5), Duration(1), Duration(-1)},
     METRICS_ENABLED |-> {Boolean(0), Boolean(1), Number(1), Odd},
     METRICS_ADDRESS |-> {Text(4), Odd},
     RUN_MIGRATIONS |-> {Boolean(0), Number(2)},
     DB_PORT |-> {Number(0), Number(1), Number(65536)},
     METRICS_PATH |-> {Text(4), Odd},
     JWT_SECRET |-> {Text(3), Text(4)}]

One == UNION {{Said(s, y, d, e) : y, d, e \in Texts[s] \cup {Unset, Empty}} : s \in DOMAIN Texts}

\* Two settings that validate relates, one in the environment, one in .env.
Pair(s, t, A, B) == {[Complete EXCEPT !.env = [@ EXCEPT ![s] = a], !.dotenv = <<Line(t, b)>>] : a \in A, b \in B}

\* In four bits 17 is 1 and 73 is negative.
Numbers == {Number(n) : n \in {-1, 0, 1, 5, 17, 73}}
Times == {Duration(n) : n \in 0 .. 2}

Two ==
    UNION {Pair("DB_MIN_CONNECTIONS", "DB_MAX_CONNECTIONS", Numbers, Numbers),
           Pair("USER_MIN_USERNAME_LENGTH", "USER_MAX_USERNAME_LENGTH", Numbers, Numbers),
           Pair("PASSWORD_MIN_LENGTH", "PASSWORD_MAX_CONCURRENT_HASHES", Numbers, Numbers),
           Pair("JWT_TTL", "JWT_REFRESH_TTL", Times, Times),
           Pair("DB_MAX_CONN_IDLE_TIME", "DB_MAX_CONN_LIFETIME", Times, Times),
           Pair("ADMIN_USERNAME", "ADMIN_PASSWORD_HASH", {Unset, Empty, Text(4)}, {Empty, Text(4), Odd}),
           Pair("SERVER_PROXY_HEADER", "SERVER_TRUSTED_PROXIES", {Unset, Empty, Text(4)},
                {Empty, Text(4), Odd, Commas})}

\* Files that cannot be read.
Unreadable == {[Complete EXCEPT !.strange = TRUE],
               [Complete EXCEPT !.dotenv = <<[Line("DB_HOST", Text(1)) EXCEPT !.form = "open quote"]>>],
               [Complete EXCEPT !.dotenv = <<[Line("DB_HOST", Text(1)) EXCEPT !.form = "no assignment"]>>],
               [Complete EXCEPT !.dotenv = <<Line("DB_HOST", Text(1)), Line("DB_HOST", Text(1))>>]}

AllInputs == One \cup Two \cup Unreadable
=============================================================================
