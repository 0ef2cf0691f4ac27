------------------------------ MODULE MCReplay ------------------------------
(* Instances of Replay for TLC. *)
EXTENDS Replay

CONSTANTS netdata, j1, j2, r1, r2

Two == <<j1, j2>>
=============================================================================
