-------------------------- MODULE RecordingContract --------------------------
(***************************************************************************)
(* What a recording promises, without locks, queues or files: it keeps     *)
(* some of the chunks that producers emit, and once sealed it is either    *)
(* "complete", and then it keeps every chunk ever emitted, or               *)
(* "incomplete", for good.  A sealed recording keeps what it kept.          *)
(***************************************************************************)
EXTENDS Naturals

CONSTANT Sessions

VARIABLES
    out,        \* chunks emitted, as <<session, number>>
    kept,       \* chunks the recording holds
    verdict     \* "open", "complete" or "incomplete"

vars == <<out, kept, verdict>>

Chunks == Sessions \X (Nat \ {0})

Init == out = {} /\ kept = {} /\ verdict = "open"

\* A producer emits; none does behind a recording that reads complete.
Emit ==
    /\ verdict # "complete"
    /\ \E c \in out' \ out : c \in Chunks /\ out' = out \cup {c}
    /\ UNCHANGED <<kept, verdict>>

\* A commit makes some more of the emitted chunks part of the recording.
Keep ==
    /\ verdict = "open"
    /\ kept' \in SUBSET out
    /\ kept \subseteq kept'
    /\ UNCHANGED <<out, verdict>>

Seal ==
    /\ verdict = "open"
    /\ \/ verdict' = "complete" /\ kept = out
       \/ verdict' = "incomplete"
    /\ UNCHANGED <<out, kept>>

\* A producer that comes too late takes the verdict back.
Withdraw ==
    /\ verdict = "complete"
    /\ verdict' = "incomplete"
    /\ UNCHANGED <<out, kept>>

Next == Emit \/ Keep \/ Seal \/ Withdraw

Spec == Init /\ [][Next]_vars
=============================================================================
