------------------------------ MODULE TasksMC ------------------------------
(* Inputs and symmetry for the runs of Tasks.                              *)
EXTENDS Tasks, TLC

\* A rename together with an absolute status, a status alone, and edits to
\* refuse.
SomeEdits == {[title |-> "renamed", status |-> "completed"], [title |-> "keep", status |-> "created"],
              [title |-> "blank", status |-> "created"], NoEdit}

\* A filtered page that asks for more than the maximum, a second page of the
\* default size, and a filter that is refused.
SomeQueries == {[status |-> "created", limit |-> 3, offset |-> 0],
                [status |-> "keep", limit |-> 0, offset |-> 1],
                [status |-> "bogus", limit |-> 0, offset |-> 0]}

Symmetry == Permutations(Requests) \cup Permutations(Users) \cup Permutations(TaskIds)
=============================================================================
