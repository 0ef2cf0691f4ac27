------------------------------- MODULE Replay -------------------------------
(***************************************************************************)
(* A recording is made (Live), finalized, and replayed by one process per  *)
(* producer mode (crates/sim-plugin/src/replay.rs) into receivers of their *)
(* own: a pipe for the collector, a process per journal file, an OTLP      *)
(* endpoint, the clients of the scrape routes.                             *)
(***************************************************************************)
EXTENDS Live

CONSTANTS
    MaxReceivers,   \* MAX_JOURNAL_PROCESSES
    PipeSize,       \* bound of the model: outputs that a pipe holds
    MaxTries        \* bound of the model: requests before RECEIVER_STARTUP is over

ASSUME ReplayBounds ==
    /\ MaxReceivers \in Nat /\ PipeSize \in Nat \ {0} /\ MaxTries \in Nat \ {0}

VARIABLES
    mode,       \* what is replayed
    rpc,        \* control of the replay
    pos,        \* frames that it has read
    up,         \* journal receivers that it has started
    rgot,       \* frames written to each receiver, as positions of the tape
    taken,      \* how many of them the receiver has read
    gone,       \* receivers that read no more, and clients that have hung up
    acked,      \* the OTLP receiver has acknowledged a request
    tries,      \* requests made for this frame
    queue,      \* frames that each route has still to serve
    client,     \* the route that the accepted client asks for
    early,      \* a frame went out before its time
    lost,       \* frames written to a client that was no longer there
    now,        \* the time since the replay began
    term        \* the replay has been asked to stop

pipeVars == <<up, rgot, taken, gone>>
otlpVars == <<acked, tries>>
routeVars == <<queue, client, lost>>
replayVars == <<mode, rpc, pos, pipeVars, otlpVars, routeVars, early, now, term>>
vars == <<liveVars, replayVars>>

Modes == Producers
ModeOf(r) ==
    CASE r = Netdata -> "metrics" [] r \in Files -> "journal"
      [] r \in Signals -> "otlp" [] r \in Routes -> "exporters"

Done == {"ok", "failed", "refused"}

TypeOK ==
    /\ LiveTypeOK
    /\ mode \in Modes \cup {None}
    /\ rpc \in {"off", "archive", "next", "pace", "retry", "accept", "drop", "failing"} \cup Done
    /\ pos \in 0..MaxFrames
    /\ up \subseteq Files /\ gone \subseteq Receivers
    /\ Cardinality(up) <= MaxReceivers
    /\ rgot \in [Receivers -> Seq(1..MaxFrames)]
    /\ \A r \in Receivers : taken[r] \in 0..Len(rgot[r])
    /\ acked \in BOOLEAN /\ tries \in 0..MaxTries
    /\ queue \in [Routes -> SUBSET (1..MaxFrames)]
    /\ client \in Routes \cup {None}
    /\ lost \subseteq 1..MaxFrames /\ early \in BOOLEAN
    /\ now \in 0..MaxClock /\ term \in BOOLEAN

ReplayIdle ==
    /\ mode = None /\ pos = 0 /\ up = {} /\ gone = {}
    /\ rgot = [r \in Receivers |-> << >>] /\ taken = [r \in Receivers |-> 0]
    /\ acked = FALSE /\ tries = 0
    /\ queue = [r \in Routes |-> {}] /\ client = None /\ lost = {}
    /\ early = FALSE /\ now = 0 /\ term = FALSE

\* A finalized recording, one of those that the producers can leave: the outputs of
\* several receivers in the order of their capture. (Only the shorter ones of the bound
\* are tried as not whole too: once opened they are replayed alike.)
Archive ==
    /\ \E to \in BoundedSeq(Receivers, MaxFrames), after \in 0..MaxFrames :
        /\ after <= Len(to)
        /\ whole \in IF Len(to) < MaxFrames THEN BOOLEAN ELSE {TRUE}
        /\ tape = [i \in 1..Len(to) |->
                [to |-> to[i], n |-> Cardinality({j \in 1..i : to[j] = to[i]}),
                 at |-> IF i <= after THEN 0 ELSE MaxClock]]
    /\ made = [r \in Receivers |-> Cardinality(Positions(r))]
    /\ got = [r \in Receivers |-> [i \in 1..made[r] |-> i]]
    /\ pc = [p \in Producers |-> "ended"]
    /\ turn = 1 /\ todo = {} /\ dead = {} /\ held = [p \in Producers |-> None]
    /\ fails = [s \in Signals |-> 0] /\ givenUp = {}
    /\ answers = [s \in Signals |-> << >>]
    /\ clock = MaxClock /\ stopping = TRUE

\* Either the producers are at work, or what they have recorded is replayed.
Init == ReplayIdle /\ \/ rpc = "off" /\ LiveInit
                      \/ rpc = "archive" /\ Archive

-----------------------------------------------------------------------------
(* Stream. *)

\* run and Stream::open: a recording that is not whole is refused unless it is asked for. The scrape endpoint
\* makes an index of the frames of each route.
Open(m, allow) ==
    /\ rpc = "archive"
    /\ mode' = m
    /\ IF whole \/ allow
       THEN /\ rpc' = IF m = "exporters" THEN "accept" ELSE "next"
            /\ queue' = IF m = "exporters" THEN [r \in Routes |-> Positions(r)] ELSE queue
       ELSE rpc' = "refused" /\ UNCHANGED queue
    /\ UNCHANGED <<liveVars, pos, pipeVars, otlpVars, client, lost, early, now, term>>

\* Stream::next: the next frame of this mode.
Later == {i \in (pos + 1)..Len(tape) : ModeOf(tape[i].to) = mode}
Next1(i) == i \in Later /\ \A j \in Later : i <= j

Due(i) == now >= tape[i].at

\* The end of the process: what it owns is dropped first.
Finish(result) ==
    rpc' = IF mode = "journal" THEN (IF result = "ok" THEN "drop" ELSE "failing") ELSE result

Allows(r) == r \notin up => Cardinality(up) < MaxReceivers

\* The next frame, for a mode other than the scrape endpoint; a journal receiver is
\* started for a file that has none, unless there are too many or it cannot be.
Reads ==
    /\ rpc = "next"
    /\ \E i \in Later :
        /\ Next1(i)
        /\ pos' = i
        /\ LET r == tape[i].to
           IN  \/ mode # "journal" /\ rpc' = "pace" /\ UNCHANGED up
               \/ mode = "journal" /\ Allows(r) /\ rpc' = "pace" /\ up' = up \cup {r}
               \/ mode = "journal" /\ r \notin up /\ rpc' = "failing" /\ UNCHANGED up
    /\ tries' = 0
    /\ UNCHANGED <<liveVars, mode, rgot, taken, gone, acked, routeVars, early, now, term>>

AllRead ==
    /\ rpc = "next" /\ Later = {}
    /\ Finish("ok")
    /\ UNCHANGED <<liveVars, mode, pos, pipeVars, otlpVars, routeVars, early, now, term>>

\* Mutant: only the wait for a frame looks at the request to stop.
InterruptedWaiting ==
    /\ rpc = "pace" /\ term
    /\ Finish("failed")
    /\ UNCHANGED <<liveVars, mode, pos, pipeVars, otlpVars, routeVars, early, now, term>>

\* interrupted: the request to stop is seen while the frame is not due, before it goes
\* out, before a request is repeated, and before a client is accepted.
Interrupted ==
    /\ rpc \in {"pace", "retry", "accept"} /\ term
    /\ ~(rpc = "accept" /\ \A r \in Routes : queue[r] = {})
    /\ Finish("failed")
    /\ UNCHANGED <<liveVars, mode, pos, pipeVars, otlpVars, routeVars, early, now, term>>

Delivers(r, i) ==
    /\ rgot' = [rgot EXCEPT ![r] = Append(@, i)]
    /\ early' = (early \/ ~Due(i))

\* The frame is due, and nobody has asked to stop.
Ready == rpc = "pace" /\ ~term /\ Due(pos)

-----------------------------------------------------------------------------
(* Metrics and journals: a pipe that blocks when it is full. *)

Pipe == Ready /\ mode \in {"metrics", "journal"}

Puts ==
    LET r == tape[pos].to
    IN  /\ Pipe /\ r \notin gone
        /\ Len(rgot[r]) - taken[r] < PipeSize
        /\ Delivers(r, pos)
        /\ rpc' = "next"
        /\ UNCHANGED <<liveVars, mode, pos, up, taken, gone, otlpVars, routeVars, now, term>>

\* The reader is gone: the write fails.
Broken ==
    /\ Pipe /\ tape[pos].to \in gone
    /\ Finish("failed")
    /\ UNCHANGED <<liveVars, mode, pos, pipeVars, otlpVars, routeVars, early, now, term>>

Takes(r) ==
    /\ r \in Files \cup {Netdata} /\ r \notin gone /\ taken[r] < Len(rgot[r])
    /\ taken' = [taken EXCEPT ![r] = @ + 1]
    /\ UNCHANGED <<liveVars, mode, rpc, pos, up, rgot, gone, otlpVars, routeVars, early, now, term>>

Leaves(r) ==
    /\ r \in up \cup {x \in {Netdata} : mode = "metrics"} /\ r \notin gone
    /\ rpc \notin Done
    /\ gone' = gone \cup {r}
    /\ UNCHANGED <<liveVars, mode, rpc, pos, up, rgot, taken, otlpVars, routeVars, early, now, term>>

\* Journal::drop, a receiver at a time: one that has read everything exits by itself,
\* and one that has not may be killed after its five seconds.
Drops(r) ==
    /\ rpc \in {"drop", "failing"} /\ r \in up
    /\ up' = up \ {r}
    /\ gone' = IF taken[r] = Len(rgot[r]) THEN gone ELSE gone \cup {r}
    /\ UNCHANGED <<liveVars, mode, rpc, pos, rgot, taken, otlpVars, routeVars, early, now, term>>

Dropped ==
    /\ rpc \in {"drop", "failing"} /\ up = {}
    /\ rpc' = IF rpc = "drop" THEN "ok" ELSE "failed"
    /\ UNCHANGED <<liveVars, mode, pos, pipeVars, otlpVars, routeVars, early, now, term>>

-----------------------------------------------------------------------------
(* OTLP. *)

\* Mutant: a request is repeated whatever has been acknowledged.
MayRepeatAlways == tries + 1 < MaxTries

\* Only before the first acknowledgement, and only for a minute.
MayRepeat == ~acked /\ tries + 1 < MaxTries

\* A request ends acknowledged, acknowledged with records rejected, unavailable, or
\* with another error; unavailable and the errors say nothing of its delivery.
Requests ==
    LET r == tape[pos].to
    IN  /\ Ready /\ mode = "otlp"
        /\ \E arrives \in BOOLEAN, answer \in {"ok", "partial", "unavailable", "error"} :
            /\ answer \in {"ok", "partial"} => arrives
            /\ IF arrives THEN Delivers(r, pos) ELSE UNCHANGED <<rgot, early>>
            /\ acked' = (acked \/ answer \in {"ok", "partial"})
            /\ rpc' = CASE answer = "ok" -> "next"
                        [] answer = "unavailable" /\ MayRepeat -> "retry"
                        [] OTHER -> "failed"
            /\ tries' = IF answer = "unavailable" /\ MayRepeat THEN tries + 1 ELSE tries
        /\ UNCHANGED <<liveVars, mode, pos, up, taken, gone, routeVars, now, term>>

Repeats ==
    /\ rpc = "retry" /\ ~term
    /\ rpc' = "pace"
    /\ UNCHANGED <<liveVars, mode, pos, pipeVars, otlpVars, routeVars, early, now, term>>

-----------------------------------------------------------------------------
(* The scrape endpoint: one client at a time. *)

Served == \A r \in Routes : queue[r] = {}

\* Mutant: the replay ends with the first route that is exhausted.
OneServed ==
    /\ rpc = "accept" /\ \E r \in Routes : queue[r] = {}
    /\ rpc' = "ok"
    /\ UNCHANGED <<liveVars, mode, pos, pipeVars, otlpVars, routeVars, early, now, term>>

AllServed ==
    /\ rpc = "accept" /\ Served
    /\ rpc' = "ok"
    /\ UNCHANGED <<liveVars, mode, pos, pipeVars, otlpVars, routeVars, early, now, term>>

\* A client asks for a route. One that never finishes its request, or asks for an
\* unknown or an exhausted route, changes nothing and is left out.
Accepts(r) ==
    /\ rpc = "accept" /\ ~term
    /\ client' = r
    /\ pos' \in queue[r] /\ \A j \in queue[r] : pos' <= j
    /\ rpc' = "pace"
    /\ UNCHANGED <<liveVars, mode, pipeVars, otlpVars, queue, lost, early, now, term>>

\* A client that waits for its frame hangs up, its own timeout being over.
HangsUp ==
    /\ mode = "exporters" /\ rpc = "pace" /\ client \notin gone
    /\ gone' = gone \cup {client}
    /\ UNCHANGED <<liveVars, mode, rpc, pos, up, rgot, taken, otlpVars, routeVars, early, now, term>>

Answers ==
    /\ Ready /\ mode = "exporters" /\ client \notin gone
    /\ Delivers(client, pos)
    /\ queue' = [queue EXCEPT ![client] = @ \ {pos}]
    /\ client' = None
    /\ rpc' = "accept"
    /\ UNCHANGED <<liveVars, mode, pos, up, taken, gone, otlpVars, lost, now, term>>

\* The client is no longer there. Either the write fails and ends the replay, or its
\* socket still takes the bytes and the frame is gone.
AnswersNobody ==
    /\ Ready /\ mode = "exporters" /\ client \in gone
    /\ \/ rpc' = "failed" /\ UNCHANGED routeVars
       \/ /\ queue' = [queue EXCEPT ![client] = @ \ {pos}]
          /\ lost' = lost \cup {pos}
          /\ client' = None
          /\ rpc' = "accept"
    /\ gone' = gone \ {client}
    /\ UNCHANGED <<liveVars, mode, pos, up, rgot, taken, otlpVars, early, now, term>>

-----------------------------------------------------------------------------

Elapses ==
    /\ rpc \notin Done \cup {"off", "archive"} /\ now < MaxClock
    /\ now' = now + 1
    /\ UNCHANGED <<liveVars, mode, rpc, pos, pipeVars, otlpVars, routeVars, early, term>>

Term ==
    /\ rpc \notin Done \cup {"off", "archive"} /\ ~term
    /\ term' = TRUE
    /\ UNCHANGED <<liveVars, mode, rpc, pos, pipeVars, otlpVars, routeVars, early, now>>

\* What the replay does by itself, its timeouts included.
Works ==
    \/ Reads \/ AllRead \/ Interrupted \/ Puts \/ Broken \/ Dropped
    \/ \E r \in Files : Drops(r)
    \/ Requests \/ Repeats \/ AllServed \/ Answers \/ AnswersNobody

ReplayNext ==
    \/ \E m \in Modes, allow \in BOOLEAN : Open(m, allow)
    \/ Works
    \/ \E r \in Receivers : Takes(r) \/ Leaves(r)
    \/ \E r \in Routes : Accepts(r)
    \/ HangsUp \/ Elapses \/ Term

Next == ReplayNext \/ (rpc = "off" /\ LiveNext /\ UNCHANGED replayVars)

Spec == Init /\ [][Next]_vars

\* The replay's process runs and time passes. Receivers need not read.
FairSpec == Spec /\ WF_vars(Works) /\ WF_vars(Elapses)

-----------------------------------------------------------------------------
(* Properties. *)

\* Every receiver is given its own frames in the order in which they were recorded, none
\* before its time. Only the first frame of an OTLP replay can arrive more than once
\* (replay.rs 246: after an acknowledgement a retry could duplicate delivered data).
Faithful ==
    /\ ~early
    /\ \A r \in Receivers :
        LET want == Positions(r)
            first(i) == i # 0 /\ r \in Signals /\ \A j \in 1..(i - 1) : tape[j].to \notin Signals
            have == rgot[r]
        IN  /\ \A k \in 1..Len(have) :
                have[k] \in want /\ (k > 1 => have[k - 1] <= have[k])
            /\ \A k \in 2..Len(have) : have[k - 1] = have[k] => first(have[k])
            /\ \A i \in want :
                (\E k \in 1..Len(have) : have[k] > i) => i \in Range(have) \cup lost

\* A replay that reports success has delivered every frame of its mode, but for those
\* that went to a client that had hung up; and what a journal receiver has not read by
\* then is what it was killed with (replay.rs, metrics, journals, otlp, exporters, and
\* the drop of Journal).
OkMeansAll ==
    rpc = "ok" =>
        \A i \in {j \in 1..Len(tape) : ModeOf(tape[j].to) = mode} :
            LET r == tape[i].to
            IN  /\ i \in Range(rgot[r]) \cup lost
                /\ r \in Files => taken[r] = Len(rgot[r]) \/ r \in gone

\* An OTLP replay ends, whatever its receiver answers; so does a scrape endpoint that is
\* asked to stop, whatever its clients do. (Journals and metrics can wait for ever for a
\* receiver that does not read its pipe.)
ReplayEnds ==
    (mode = "otlp" \/ (mode = "exporters" /\ term)) ~> (rpc \in Done)

\* From the receiver of the live run to the receiver of the replay: the recording holds
\* what was given, for each signal apart, and the replay gives the same again.
FromEndToEnd == Recorded /\ GaveUpAlone /\ Faithful
=============================================================================
