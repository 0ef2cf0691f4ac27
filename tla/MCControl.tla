------------------------------ MODULE MCControl ------------------------------
(* Small instances of Control. *)
EXTENDS Control, TLC

CONSTANTS db, web, ghost, ui, ops, sh, vi, metrics, journal

\* The console and control_file.py share a container's file; scenario.sh and the
\* operator's editor share a host install's.
KindDef == ui :> "console" @@ ops :> "cli" @@ sh :> "shell" @@ vi :> "editor"
Kinds == [c \in Clients |-> KindDef[c]]
=============================================================================
