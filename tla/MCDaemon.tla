------------------------------ MODULE MCDaemon ------------------------------
(* Instances of Daemon for TLC.                                             *)
EXTENDS Daemon

CONSTANTS d1, d2, d3, c1, c2

=============================================================================
