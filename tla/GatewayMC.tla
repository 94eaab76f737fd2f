----------------------------- MODULE GatewayMC -----------------------------
(* Access tokens from elsewhere for the runs of Gateway.                   *)
EXTENDS Gateway

Ours == [user_id |-> 1, username |-> "some", is_admin |-> FALSE, alg |-> "HS256", secret |-> "ours",
         issuer |-> "ours", nbf |-> 0, exp |-> MaxTime + 1]

\* Each differs in one respect from a token of this server that is valid for
\* the whole run: a service that shares the secret, an old secret, another
\* algorithm, no expiry, impossible identities.
Others ==
    {[Ours EXCEPT !.issuer = "other"], [Ours EXCEPT !.secret = "other"],
     [Ours EXCEPT !.alg = "other"], [Ours EXCEPT !.exp = -1],
     [Ours EXCEPT !.user_id = 0], [Ours EXCEPT !.user_id = -1],
     [Ours EXCEPT !.username = "blank"]}
=============================================================================
