------------------------------- MODULE MCTeam -------------------------------
(* A team of two with one task, and one host that runs its attempt.        *)
EXTENDS TeamAttempt

CONSTANTS lead, m1, k1, r1
=============================================================================
