----------------------------- MODULE MCDocSync ------------------------------
(* Instances of DocSync for TLC: two documents, the first one shared.      *)
EXTENDS DocSync

CONSTANTS q1, q2, q3, q4, d1, d2

Document == [q \in Queries |-> IF q \in {q1, q2} THEN d1 ELSE d2]

=============================================================================
