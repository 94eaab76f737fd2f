----------------------------- MODULE AccountsMC -----------------------------
(* Accounts at the start and inputs for the runs of Accounts.              *)
EXTENDS Accounts, TLC

CONSTANTS u1, u2

Plain(k) == [key |-> k, style |-> "plain"]
Capital(k) == [key |-> k, style |-> "capital"]
Padded(k) == [key |-> k, style |-> "padded"]
Edit(n, e, w) == [username |-> n, email |-> e, password |-> w]

\* Two accounts, so that each can ask for what the other one has.
TwoAccounts ==
    (u1 :> [NoRow EXCEPT !.st = "present", !.username = Plain("ann"), !.email = Plain("x")])
    @@ (u2 :> [NoRow EXCEPT !.st = "present", !.username = Plain("bob"), !.email = Plain("y")])

\* A name or an email of somebody else in another case, a name with spaces
\* around it, reserved names, and one input for each reason to refuse.
SomeEdits ==
    {Edit(Capital("bob"), Keep, "keep"), Edit(Padded("ann"), Plain("y"), "keep"),
     Edit(Keep, Capital("x"), "good"), Edit(Capital("admin"), Keep, "keep"),
     Edit(Keep, Keep, "bad"), NoEdit}

SomeAccounts ==
    {Edit(Padded("bob"), Plain("x"), "good"), Edit(Capital("admin"), Plain("x"), "good"),
     Edit(Capital("admin"), Plain("x"), "empty"), Edit(Plain("ann"), Plain("bad"), "good")}

\* For the liveness run: an exchange of names, and a registration in its way.
Exchanges == {Edit(Plain("bob"), Plain("y"), "keep"), Edit(Plain("ann"), Plain("x"), "keep")}
OneAccount == {Edit(Plain("bob"), Plain("x"), "good")}

Symmetry == Permutations(Requests)
=============================================================================
