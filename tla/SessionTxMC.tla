---------------------------- MODULE SessionTxMC ----------------------------
(* Model values and symmetry for the runs of SessionTx.                    *)
EXTENDS SessionTx, TLC

\* Requests are interchangeable, and so are users and hashes still to be issued.
Symmetry == Permutations(Requests) \cup Permutations(Users) \cup Permutations(Tokens \ Legacy)
=============================================================================
