---------------------------- MODULE MCLspSession ----------------------------
(* Instances of LspSession for TLC. *)
EXTENDS LspSession
=============================================================================
