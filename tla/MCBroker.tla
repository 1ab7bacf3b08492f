------------------------------ MODULE MCBroker ------------------------------
(* Instances of Broker for TLC. *)
EXTENDS Broker, TLC

\* Queries are interchangeable, and so are keys, and callers of ShutdownAll.
BrokerSymmetry == Permutations(Queries) \cup Permutations(Keys) \cup Permutations(Closers)

=============================================================================
