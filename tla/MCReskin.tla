------------------------------ MODULE MCReskin ------------------------------
(* Instances of Reskin for TLC. *)
EXTENDS Reskin, TLC

CONSTANTS sim, acme, staging, live, r1, e1, e2

Created == [name |-> sim, labels |-> staging]
=============================================================================
