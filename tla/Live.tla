-------------------------------- MODULE Live --------------------------------
(***************************************************************************)
(* The producers of a simulation at work, each a process with a recorder:  *)
(* the collector (main.rs, run), the journal writer (main.rs, do_logs, and *)
(* logs_runtime.rs), the OTLP exporter (otlp_runtime.rs) and the scrape    *)
(* endpoint (exporters.rs). What they emit is the kth output of its        *)
(* receiver; what the recording keeps of it is the tape.                   *)
(***************************************************************************)
EXTENDS Naturals, Sequences, FiniteSets, SequencesExt

CONSTANTS
    Netdata,        \* the agent at the end of the collector's stdout
    Shards,         \* the journal files, in the order in which a tick writes them
    Routes,         \* the routes of the scrape endpoint
    GiveUpAfter,    \* GIVE_UP_AFTER
    MaxFrames,      \* bound of the model: frames on the tape
    MaxRunning,     \* bound of the model: producers that run at once
    MaxClock,       \* bound of the model: instants that the tape tells apart
    None

Signals == {"logs", "traces"}
Files == Range(Shards)
Receivers == {Netdata} \cup Files \cup Signals \cup Routes
Producers == {"metrics", "journal", "otlp", "exporters"}

ASSUME ReceiversAssumption ==
    /\ Shards \in Seq(Files) /\ Len(Shards) \in Nat \ {0}
    /\ \A i, j \in 1..Len(Shards) : Shards[i] = Shards[j] => i = j
    /\ Netdata \notin Files \cup Signals \cup Routes
    /\ Files \cap (Signals \cup Routes) = {} /\ Signals \cap Routes = {}
    /\ None \notin Receivers
ASSUME LiveBounds ==
    /\ GiveUpAfter \in Nat \ {0}
    /\ MaxFrames \in Nat /\ MaxClock \in Nat
    /\ MaxRunning \in 1..4

VARIABLES
    pc,         \* control of each producer
    turn,       \* the shard that the journal writer is at
    held,       \* receiver of the output that is written and not captured yet
    todo,       \* signals that the exporter has still to send in this tick
    dead,       \* journal receivers that have exited
    made,       \* outputs made so far for each receiver
    got,        \* what each receiver has been given
    fails,      \* consecutive_failures of each signal
    givenUp,    \* signals that are abandoned
    answers,    \* what each signal's requests were answered
    tape,       \* the recorded frames
    whole,      \* no session is marked incomplete or interrupted
    clock,      \* the time
    stopping    \* the producers have been asked to stop

sendVars == <<turn, held, todo, dead, made, got>>
signalVars == <<fails, givenUp, answers>>
recordVars == <<tape, whole>>
liveVars == <<pc, sendVars, signalVars, recordVars, clock, stopping>>

Frame == [to : Receivers, n : 1..MaxFrames, at : 0..MaxClock]
Outcomes == {"ok", "refused", "late"}

LiveTypeOK ==
    /\ pc \in [Producers -> {"run", "sent", "ended"}]
    /\ turn \in 1..Len(Shards)
    /\ held \in [Producers -> Receivers \cup {None}]
    /\ todo \subseteq Signals /\ dead \subseteq Files /\ givenUp \subseteq Signals
    /\ made \in [Receivers -> 0..MaxFrames]
    /\ got \in [Receivers -> Seq(1..MaxFrames)]
    /\ fails \in [Signals -> 0..GiveUpAfter]
    /\ answers \in [Signals -> Seq(Outcomes)]
    /\ tape \in Seq(Frame) /\ Len(tape) <= MaxFrames
    /\ whole \in BOOLEAN /\ stopping \in BOOLEAN
    /\ clock \in 0..MaxClock

LiveInit ==
    /\ pc \in [Producers -> {"run", "ended"}]
    /\ Cardinality({p \in Producers : pc[p] = "run"}) = MaxRunning
    /\ turn = 1 /\ todo = {} /\ dead = {}
    /\ held = [p \in Producers |-> None]
    /\ made = [r \in Receivers |-> 0]
    /\ got = [r \in Receivers |-> << >>]
    /\ fails = [s \in Signals |-> 0] /\ givenUp = {}
    /\ answers = [s \in Signals |-> << >>]
    /\ tape = << >> /\ whole = TRUE
    /\ clock = 0 /\ stopping = FALSE

\* The frames that the recording holds for r, by their places on the tape (the index that
\* the replayed scrape endpoint makes of each route), and what they are.
Positions(r) == {i \in 1..Len(tape) : tape[i].to = r}
Numbers(r) == {tape[i].n : i \in Positions(r)}

Capture(r, n) == tape' = Append(tape, [to |-> r, n |-> n, at |-> clock])

\* Outputs on their way to the tape count against its bound.
Room(n) ==
    Len(tape) + Cardinality({p \in Producers : held[p] # None}) + Cardinality(todo) + n <= MaxFrames

-----------------------------------------------------------------------------
(* Bytes for a receiver that is written to: the collector's stdout, a journal *)
(* receiver's pipe, the connection of a scrape.                               *)

OutputOf(p, r) ==
    \/ p = "metrics" /\ r = Netdata
    \/ p = "journal" /\ r = Shards[turn] /\ r \notin dead
    \/ p = "exporters" /\ r \in Routes

\* RecordedWriter::write and handle: first the bytes go out.
Write(p, r) ==
    /\ pc[p] = "run" /\ held[p] = None /\ ~stopping /\ Room(1) /\ made[r] < MaxFrames
    /\ OutputOf(p, r)
    /\ made' = [made EXCEPT ![r] = @ + 1]
    /\ got' = [got EXCEPT ![r] = Append(@, made[r] + 1)]
    /\ held' = [held EXCEPT ![p] = r]
    /\ UNCHANGED <<pc, turn, todo, dead, signalVars, recordVars, clock, stopping>>

NextTurn(p) ==
    turn' = IF p # "journal" THEN turn ELSE IF turn = Len(Shards) THEN 1 ELSE turn + 1

\* Then they are captured, and the journal writer goes to its next shard.
Captured(p) ==
    /\ pc[p] = "run" /\ held[p] # None
    /\ Capture(held[p], made[held[p]])
    /\ held' = [held EXCEPT ![p] = None]
    /\ NextTurn(p)
    /\ UNCHANGED <<pc, todo, dead, made, got, signalVars, whole, clock, stopping>>

\* A write that fails may have reached the receiver in part. It ends the collector
\* and the journal writer; the scrape endpoint goes on to the next scrape.
WriteFails(p, r) ==
    /\ pc[p] = "run" /\ held[p] = None /\ Room(1) /\ made[r] < MaxFrames
    /\ OutputOf(p, r)
    /\ made' = [made EXCEPT ![r] = @ + 1]
    /\ \E reached \in BOOLEAN :
        got' = IF reached THEN [got EXCEPT ![r] = Append(@, made[r] + 1)] ELSE got
    /\ whole' = FALSE
    /\ pc' = [pc EXCEPT ![p] = IF p = "exporters" THEN "run" ELSE "ended"]
    /\ UNCHANGED <<turn, held, todo, dead, signalVars, tape, clock, stopping>>

\* A shard whose nodes have nothing to log is passed over.
Quiet ==
    /\ pc["journal"] = "run" /\ held["journal"] = None /\ ~stopping
    /\ Shards[turn] \notin dead
    /\ NextTurn("journal")
    /\ UNCHANGED <<pc, held, todo, dead, made, got, signalVars, recordVars, clock, stopping>>

\* try_wait: a receiver that has exited ends the writer before it writes to it.
SeesDead ==
    /\ pc["journal"] = "run" /\ held["journal"] = None
    /\ Shards[turn] \in dead
    /\ pc' = [pc EXCEPT !["journal"] = "ended"]
    /\ UNCHANGED <<sendVars, signalVars, recordVars, clock, stopping>>

ReceiverExits(r) ==
    /\ r \in Files \ dead /\ ~stopping
    /\ dead' = dead \cup {r}
    /\ UNCHANGED <<pc, turn, held, todo, made, got, signalVars, recordVars, clock, stopping>>

-----------------------------------------------------------------------------
(* The OTLP exporter. *)

\* A tick has records for some of the signals; one that is given up is left out.
OtlpTick(with) ==
    /\ pc["otlp"] = "run" /\ todo = {} /\ ~stopping
    /\ with \subseteq Signals \ givenUp /\ with # {} /\ Room(Cardinality(with))
    /\ todo' = with
    /\ UNCHANGED <<pc, turn, held, dead, made, got, signalVars, recordVars, clock, stopping>>

\* Logs go before traces.
Turn(s) == s \in todo /\ ~(s = "traces" /\ "logs" \in todo)

\* The request is captured before it is sent.
Send(s) ==
    /\ pc["otlp"] = "run" /\ Turn(s)
    /\ made' = [made EXCEPT ![s] = @ + 1]
    /\ Capture(s, made[s] + 1)
    /\ pc' = [pc EXCEPT !["otlp"] = "sent"]
    /\ UNCHANGED <<turn, held, todo, dead, got, signalVars, whole, clock, stopping>>

\* Signal::record: an error counts, a request that timed out does not, and an
\* accepted one resets.
Record(s, o) ==
    LET n == CASE o = "ok" -> 0 [] o = "late" -> fails[s] [] o = "refused" -> fails[s] + 1
    IN  /\ fails' = [fails EXCEPT ![s] = n]
        /\ givenUp' = IF n >= GiveUpAfter THEN givenUp \cup {s} ELSE givenUp

\* A request that ends in an error, or is late, may have been taken all the same.
Answer(s, o) ==
    /\ pc["otlp"] = "sent" /\ Turn(s)
    /\ \E taken \in IF o = "ok" THEN {TRUE} ELSE BOOLEAN :
        got' = IF taken THEN [got EXCEPT ![s] = Append(@, made[s])] ELSE got
    /\ answers' = [answers EXCEPT ![s] = Append(@, o)]
    /\ Record(s, o)
    /\ todo' = todo \ {s}
    /\ pc' = [pc EXCEPT !["otlp"] = "run"]
    /\ UNCHANGED <<turn, held, dead, made, recordVars, clock, stopping>>

-----------------------------------------------------------------------------
(* The end. *)

Ask ==
    /\ ~stopping
    /\ stopping' = TRUE
    /\ UNCHANGED <<pc, sendVars, signalVars, recordVars, clock>>

\* A producer ends at the top of its loop.
Ends(p) ==
    /\ pc[p] = "run" /\ stopping /\ held[p] = None
    /\ ~(p = "otlp" /\ todo # {})
    /\ pc' = [pc EXCEPT ![p] = "ended"]
    /\ UNCHANGED <<sendVars, signalVars, recordVars, clock, stopping>>

\* A producer that is killed leaves its session open.
Killed(p) ==
    /\ pc[p] # "ended"
    /\ pc' = [pc EXCEPT ![p] = "ended"]
    /\ held' = [held EXCEPT ![p] = None]
    /\ todo' = IF p = "otlp" THEN {} ELSE todo
    /\ whole' = FALSE
    /\ UNCHANGED <<turn, dead, made, got, signalVars, tape, clock, stopping>>

Passes ==
    /\ clock < MaxClock /\ ~stopping
    /\ clock' = clock + 1
    /\ UNCHANGED <<pc, sendVars, signalVars, recordVars, stopping>>

LiveNext ==
    \/ \E p \in Producers, r \in Receivers : Write(p, r) \/ WriteFails(p, r)
    \/ \E p \in Producers : Captured(p) \/ Ends(p) \/ Killed(p)
    \/ Quiet \/ SeesDead
    \/ \E r \in Files : ReceiverExits(r)
    \/ \E with \in SUBSET Signals : OtlpTick(with)
    \/ \E s \in Signals : Send(s)
    \/ \E s \in Signals, o \in Outcomes : Answer(s, o)
    \/ Ask \/ Passes

-----------------------------------------------------------------------------
(* Properties. *)

InOrder(s) == \A i, j \in 1..Len(s) : i < j => s[i] < s[j]

TapeInOrder ==
    \A i, j \in 1..Len(tape) : i < j /\ tape[i].to = tape[j].to => tape[i].n < tape[j].n

\* The output for r that is written and not captured yet.
Pending(r) == {made[r] : p \in {q \in Producers : held[q] = r}}

\* What a complete recording holds for a receiver is what the receiver was given, in
\* that order, but for the output that is on its way to the tape; of an OTLP signal it
\* holds at least what the receiver took (RecordedWriter, exporters.rs handle and
\* otlp_runtime.rs capture on different sides of the output). Both are in the order in
\* which the outputs were made, so that they are the same if they have the same members.
Recorded ==
    whole =>
        /\ TapeInOrder
        /\ \A r \in Receivers : InOrder(got[r])
        /\ \A r \in Receivers \ Signals : Range(got[r]) = Numbers(r) \cup Pending(r)
        /\ \A s \in Signals : Range(got[s]) \subseteq Numbers(s)

\* The errors of a signal since it was last accepted.
Refusals(s) ==
    {i \in 1..Len(answers[s]) :
        answers[s][i] = "refused" /\ \A j \in i..Len(answers[s]) : answers[s][j] # "ok"}

\* A signal is given up when GiveUpAfter of its own requests have ended in an error with no
\* acceptance in between, timeouts aside, and for nothing that happens to the other
\* signal (otlp_runtime.rs, one Signal per signal).
GaveUpAlone ==
    \A s \in Signals : s \in givenUp <=> Cardinality(Refusals(s)) >= GiveUpAfter
=============================================================================
