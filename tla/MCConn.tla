------------------------------- MODULE MCConn -------------------------------
(* Instances of Conn for TLC: requests and notifications of the client, and *)
(* one request of the server.                                               *)
EXTENDS Conn

CONSTANTS q1, q2, r1, n1, n2

Origin == [x \in Calls \cup Notes |-> IF x = r1 THEN "server" ELSE "client"]

=============================================================================
