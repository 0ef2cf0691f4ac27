------------------------------- MODULE MCHost -------------------------------
(* Two creates and a teardown on one host. *)
EXTENDS Host
=============================================================================
