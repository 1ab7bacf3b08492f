---------------------------- MODULE MCGtsServer -----------------------------
(* Instances of GtsServer for TLC.                                         *)
EXTENDS GtsServer

\* Every validator handles every text.
Always == [n \in Versions |-> Validators]

=============================================================================
