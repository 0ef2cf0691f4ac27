------------------------------- MODULE Control -------------------------------
(***************************************************************************)
(* control.yaml: which scenarios run, and since when.                      *)
(*                                                                         *)
(* Four kinds of writer rewrite the file in place without a lock: the      *)
(* console (sim_engine::ControlFile through mutate), control_file.py,      *)
(* scenario.sh and an operator's editor.  Each plugin process polls the    *)
(* file's mtime and re-reads the file when it changed (ControlChannel).    *)
(*                                                                         *)
(* The text is abstracted to the entries it spells, the style they are     *)
(* spelled in, and a length: it is whole when it is as long as its         *)
(* entries, and otherwise empty, or the remains of two writers.            *)
(***************************************************************************)
EXTENDS Integers, FiniteSets

CONSTANTS
    Scenarios,      \* names that may be in the file
    Library,        \* those the plugin's scenario directory knows
    Clients,        \* writers
    KindOf,         \* what each writer is
    Consumers,      \* plugin processes: metrics, journal, otlp, exporters
    Recovery,       \* RECOVERY_SECONDS
    Mortal,         \* writers that may die, or fail, in the middle of a write
    OneAtATime,     \* does each request end before the next begins?
    MaxTime,        \* bound of the model: the clock
    MaxRequests,    \* bound of the model: requests, removals and restarts
    Absent, Null    \* a field that is not there, and one spelled "null"

ASSUME ScenarioAssumption == IsFiniteSet(Scenarios) /\ Scenarios # {}
ASSUME LibraryAssumption == Library \subseteq Scenarios
ASSUME KindAssumption == KindOf \in [Clients -> {"console", "cli", "shell", "editor"}]
ASSUME ClientAssumption == Mortal \subseteq Clients
ASSUME ModeAssumption == OneAtATime \in BOOLEAN
ASSUME TimeAssumption == Recovery \in Nat \ {0} /\ MaxTime \in Nat /\ MaxRequests \in Nat

VARIABLES
    now,        \* seconds
    requests,   \* requests so far
    exists, style, body, length,    \* the file: style and entries of its text, its length
    mtime,      \* its modification time
    cpc,        \* control of each writer
    request,    \* the request it serves
    copy,       \* the entries it is about to write
    kpc,        \* control of each consumer's poll
    seen,       \* ControlChannel.last_mtime
    started,    \* ControlChannel.started
    current,    \* ControlChannel.current
    raced       \* history: the consumers whose file was written again under the mtime
                \* they remember

fileVars   == <<exists, style, body, length, mtime>>
clientVars == <<cpc, request, copy>>
pollVars   == <<kpc, seen, started, current>>
vars       == <<now, requests, fileVars, clientVars, pollVars, raced>>

Entry == [start : Int \cup {Absent}, rec : Int \cup {Null, Absent}]
Bodies == [Scenarios -> Entry \cup {Absent}]
Nothing == [s \in Scenarios |-> Absent]

\* The two ways to say nothing are neither a time nor an entry nor a file.
ASSUME FieldAssumption ==
    Absent # Null /\ {Absent, Null} \cap Int = {} /\ Absent \notin Entry \cup Bodies

Listed(b) == {s \in Scenarios : b[s] # Absent}
Recovering(e) == e.rec \notin {Null, Absent}

\* How long the text of a file is compared with others: a line for the document, two for
\* an entry, one for a recovery that is spelled and one more for its time.
Size(b) ==
    1 + 2 * Cardinality(Listed(b))
      + Cardinality({s \in Listed(b) : b[s].rec # Absent})
      + Cardinality({s \in Listed(b) : Recovering(b[s])})

Whole == exists /\ length = Size(body)

TypeOK ==
    /\ now \in 0..MaxTime /\ requests \in 0..MaxRequests
    /\ exists \in BOOLEAN /\ style \in {"block", "flow"}
    /\ body \in Bodies /\ length \in Nat /\ mtime \in Nat
    /\ \A s \in Listed(body) : Recovering(body[s]) => body[s].rec \in 0..now
    /\ cpc \in [Clients -> {"idle", "truncate", "write", "cut"}]
    /\ request \in [Clients -> [op : {"trigger", "resolve", "resolve-all", "advance"},
                                scenario : Scenarios]]
    /\ copy \in [Clients -> Bodies]
    /\ kpc \in [Consumers -> {"idle", "load"}]
    /\ seen \in [Consumers -> Nat \cup {Absent}]
    /\ started \in [Consumers -> [Scenarios -> Int \cup {Absent}]]
    /\ current \in [Consumers -> Bodies]
    /\ raced \in SUBSET Consumers

\* What a writer has in hand that has nothing to do.
Unasked == [op |-> "resolve-all", scenario |-> CHOOSE s \in Scenarios : TRUE]

\* A host install starts without a file, a container with "active: []".
Init ==
    /\ now = 0 /\ requests = 0
    /\ exists \in BOOLEAN /\ style = "block"
    /\ body = Nothing /\ length = Size(Nothing) /\ mtime = 0
    /\ cpc = [c \in Clients |-> "idle"]
    /\ request = [c \in Clients |-> Unasked]
    /\ copy = [c \in Clients |-> Nothing]
    /\ kpc = [k \in Consumers |-> "idle"]
    /\ seen = [k \in Consumers |-> Absent]
    /\ started = [k \in Consumers |-> [s \in Scenarios |-> Absent]]
    /\ current = [k \in Consumers |-> Nothing]
    /\ raced = {}

Tick ==
    /\ now < MaxTime
    /\ now' = now + 1
    /\ UNCHANGED <<requests, fileVars, clientVars, pollVars, raced>>

\* A write to the file stamps it with the file system's clock, which may not have
\* moved since the write before: then nobody who remembers its time will notice.
Stamp ==
    /\ mtime' \in {mtime, mtime + 1}
    /\ raced' = IF mtime' = mtime THEN raced \cup {k \in Consumers : seen[k] = mtime} ELSE {}

-----------------------------------------------------------------------------
(* What each writer makes of the entries it read. *)

With(b, s, e) == [b EXCEPT ![s] = e]

\* ControlFile::prune_recovered.
Finished(e) == Recovering(e) /\ now - e.rec >= Recovery

\* Mutant: whatever recovers is dropped.
PruneEarly(b) == [s \in Scenarios |-> IF b[s] # Absent /\ Recovering(b[s]) THEN Absent ELSE b[s]]

Prune(b) == [s \in Scenarios |-> IF b[s] # Absent /\ Finished(b[s]) THEN Absent ELSE b[s]]

\* ControlFile::save: a field that is None is spelled "null".
Spelled(b) ==
    [s \in Scenarios |->
        IF b[s] # Absent /\ b[s].rec = Absent THEN [b[s] EXCEPT !.rec = Null] ELSE b[s]]

\* ControlFile::trigger and ::resolve, and provision::advance (by a second, which
\* may be negative).
Triggered(b, s) ==
    With(b, s, IF b[s] = Absent THEN [start |-> now, rec |-> Null] ELSE [b[s] EXCEPT !.rec = Null])

\* Mutant: resolve does not look at the name.
ResolvedEverywhere(b, s) ==
    [r \in Scenarios |->
        IF b[r] = Absent \/ Recovering(b[r]) THEN b[r] ELSE [b[r] EXCEPT !.rec = now]]

Resolved(b, s) ==
    IF b[s] = Absent \/ Recovering(b[s]) THEN b ELSE With(b, s, [b[s] EXCEPT !.rec = now])

ResolvedAll(b) == [s \in Scenarios |-> Resolved(b, s)[s]]

Advanced(b, s, seconds) ==
    IF b[s].start = Absent THEN b ELSE With(b, s, [b[s] EXCEPT !.start = @ - seconds])

ConsoleWrites(b, op, s) ==
    LET live == Prune(b) IN
    CASE op = "trigger"     -> {Spelled(Triggered(live, s))}
      [] op = "resolve"     -> {Spelled(Resolved(live, s))}
      [] op = "resolve-all" -> {Spelled(ResolvedAll(live))}
      [] op = "advance"     -> IF live[s] = Absent THEN {}
                                ELSE {Spelled(Advanced(live, s, n)) : n \in {-1, 1}}

\* control_file.py: a line parser of block style, and dict.setdefault, to which a
\* field spelled "null" is set.
CliReads == IF style = "flow" THEN Nothing ELSE body

CliWrites(b, op, s) ==
    CASE op = "trigger" ->
            {With(b, s, IF b[s] = Absent THEN [start |-> now, rec |-> Absent]
                                         ELSE [b[s] EXCEPT !.rec = Absent])}
      [] op = "resolve" ->
            IF b[s] = Absent THEN {}
            ELSE {IF b[s].rec = Absent THEN With(b, s, [b[s] EXCEPT !.rec = now]) ELSE b}
      [] OTHER -> {}

\* scenario.sh: it knows the names of both styles, the start times of flow style.
ShellKeeps(b) ==
    [s \in Scenarios |->
        IF b[s] = Absent THEN Absent
        ELSE [start |-> IF style = "flow" /\ b[s].start # Absent THEN b[s].start ELSE now,
              rec |-> Absent]]

ShellWrites(b, op, s) ==
    CASE op = "trigger" ->
            IF b[s] # Absent THEN {}
            ELSE {With(ShellKeeps(b), s, [start |-> now, rec |-> Absent])}
      [] op = "resolve"     -> {With(ShellKeeps(b), s, Absent)}
      [] op = "resolve-all" -> {Nothing}
      [] OTHER -> {}

\* An operator with an editor adds or deletes one entry, and knows no start time.
EditorWrites(b, op, s) ==
    CASE op = "trigger" /\ b[s] = Absent -> {With(b, s, [start |-> Absent, rec |-> Absent])}
      [] op = "resolve" -> {With(b, s, Absent)}
      [] OTHER -> {}

-----------------------------------------------------------------------------
(* The writers. *)

\* What a strict reader makes of the text: no file and an empty document are the
\* default; text that is not whole is an error, or its tail goes unnoticed.
Parsed ==
    IF ~exists THEN {Nothing}
    ELSE IF Whole THEN {body}
    ELSE IF length = 0 THEN {Nothing, Absent}
    ELSE {body, Absent}

\* The entries a writer finds; none at all if it refuses.
Reads(kind) ==
    CASE kind = "console" -> Parsed \ {Absent}
      [] kind = "cli"     -> IF ~exists THEN {} ELSE IF length = 0 THEN {Nothing} ELSE {CliReads}
      [] OTHER            -> IF ~exists \/ length = 0 THEN {Nothing} ELSE {body}

Rewrites(kind, b, op, s) ==
    CASE kind = "console" -> ConsoleWrites(b, op, s)
      [] kind = "cli"     -> CliWrites(b, op, s)
      [] kind = "shell"   -> ShellWrites(b, op, s)
      [] kind = "editor"  -> EditorWrites(b, op, s)

\* A request: the writer reads the file and prepares what it will write.
Request(c) ==
    /\ cpc[c] = "idle"
    /\ requests < MaxRequests
    /\ OneAtATime => \A d \in Clients : cpc[d] = "idle"
    /\ \E op \in {"trigger", "resolve", "resolve-all", "advance"}, s \in Scenarios :
          \E b \in Reads(KindOf[c]) : \E w \in Rewrites(KindOf[c], b, op, s) :
             /\ copy' = [copy EXCEPT ![c] = w]
             /\ request' = [request EXCEPT ![c] = [op |-> op, scenario |-> s]]
    /\ cpc' = [cpc EXCEPT ![c] = IF KindOf[c] = "cli" THEN "write" ELSE "truncate"]
    /\ requests' = requests + 1
    /\ UNCHANGED <<now, fileVars, pollVars, raced>>

\* All but control_file.py empty the file when they open it.
Truncate(c) ==
    /\ cpc[c] = "truncate"
    /\ exists' = TRUE
    /\ length' = 0
    /\ Stamp
    /\ cpc' = [cpc EXCEPT ![c] = "write"]
    /\ UNCHANGED <<now, requests, style, body, request, copy, pollVars>>

\* The request is answered, one way or the other.
Ends(c) ==
    /\ cpc' = [cpc EXCEPT ![c] = "idle"]
    /\ request' = [request EXCEPT ![c] = Unasked]
    /\ copy' = [copy EXCEPT ![c] = Nothing]

Style(kind) == CASE kind = "shell" -> "flow" [] kind = "editor" -> style [] OTHER -> "block"

\* The new text goes over whatever is in the file, from its first byte.
Write(c) ==
    /\ cpc[c] = "write"
    /\ exists
    /\ style' = Style(KindOf[c])
    /\ body' = copy[c]
    /\ length' = IF length > Size(copy[c]) THEN length ELSE Size(copy[c])
    /\ Stamp
    /\ IF KindOf[c] = "cli"
       THEN cpc' = [cpc EXCEPT ![c] = "cut"] /\ UNCHANGED <<request, copy>>
       ELSE Ends(c)
    /\ UNCHANGED <<now, requests, exists, pollVars>>

\* fh.truncate of control_file.py, at the end of what it wrote.
Cut(c) ==
    /\ cpc[c] = "cut"
    /\ length' = Size(copy[c])
    /\ Stamp
    /\ Ends(c)
    /\ UNCHANGED <<now, requests, exists, style, body, pollVars>>

\* The writer dies, or its write fails; a file that it has emptied stays empty.
Abandon(c) ==
    /\ cpc[c] # "idle"
    /\ c \in Mortal
    /\ Ends(c)
    /\ body' = IF length = 0 THEN Nothing ELSE body
    /\ UNCHANGED <<now, requests, exists, style, length, mtime, pollVars, raced>>

\* Somebody deletes the file.
Remove ==
    /\ exists
    /\ requests < MaxRequests
    /\ \A c \in Clients : cpc[c] = "idle"
    /\ exists' = FALSE
    /\ body' = Nothing
    /\ style' = "block"
    /\ length' = Size(Nothing)
    /\ requests' = requests + 1
    /\ UNCHANGED <<now, mtime, clientVars, pollVars, raced>>

-----------------------------------------------------------------------------
(* The plugin: ControlChannel::poll. *)

\* Mutant: a file that is gone changes nothing.
PollExisting(k) ==
    /\ kpc[k] = "idle"
    /\ exists /\ mtime # seen[k]
    /\ seen' = [seen EXCEPT ![k] = mtime]
    /\ kpc' = [kpc EXCEPT ![k] = "load"]
    /\ UNCHANGED <<now, requests, fileVars, clientVars, started, current, raced>>

\* The file's mtime is taken, and remembered, before the file is read.
Poll(k) ==
    /\ kpc[k] = "idle"
    /\ \/ /\ exists /\ mtime # seen[k]
          /\ seen' = [seen EXCEPT ![k] = mtime]
          /\ kpc' = [kpc EXCEPT ![k] = "load"]
          /\ UNCHANGED <<started, current, raced>>
       \/ /\ ~exists /\ (seen[k] # Absent \/ Listed(current[k]) # {})
          /\ seen' = [seen EXCEPT ![k] = Absent]
          /\ started' = [started EXCEPT ![k] = [s \in Scenarios |-> Absent]]
          /\ current' = [current EXCEPT ![k] = Nothing]
          /\ raced' = raced \ {k}
          /\ UNCHANGED kpc
    /\ UNCHANGED <<now, requests, fileVars, clientVars>>

\* Mutant: the start time first seen is kept, whatever the file says now.
ResumesFirst(k, s, e) ==
    IF started[k][s] # Absent THEN started[k][s] ELSE IF e.start # Absent THEN e.start ELSE now

\* An entry without a start time keeps the one it was given when first seen.
ResumesAt(k, s, e) ==
    IF e.start # Absent THEN e.start
    ELSE IF started[k][s] # Absent THEN started[k][s]
    ELSE now

\* The read, and what it makes of the entries; an error keeps the last good state.
Load(k) ==
    /\ kpc[k] = "load"
    /\ kpc' = [kpc EXCEPT ![k] = "idle"]
    /\ raced' = raced \ {k}
    /\ \E b \in Parsed :
          IF b = Absent THEN UNCHANGED <<started, current>>
          ELSE LET known == Listed(b) \cap Library IN
               /\ started' = [started EXCEPT ![k] =
                     [s \in Scenarios |-> IF s \in known THEN ResumesAt(k, s, b[s]) ELSE Absent]]
               /\ current' = [current EXCEPT ![k] =
                     [s \in Scenarios |->
                        IF s \in known THEN [start |-> ResumesAt(k, s, b[s]), rec |-> b[s].rec]
                                       ELSE Absent]]
    /\ UNCHANGED <<now, requests, fileVars, clientVars, seen>>

\* The process is restarted, and its memory of start times is gone.
Restart(k) ==
    /\ requests < MaxRequests
    /\ requests' = requests + 1
    /\ kpc' = [kpc EXCEPT ![k] = "idle"]
    /\ seen' = [seen EXCEPT ![k] = Absent]
    /\ started' = [started EXCEPT ![k] = [s \in Scenarios |-> Absent]]
    /\ current' = [current EXCEPT ![k] = Nothing]
    /\ raced' = raced \ {k}
    /\ UNCHANGED <<now, fileVars, clientVars>>

-----------------------------------------------------------------------------
Client(c) == Request(c) \/ Truncate(c) \/ Write(c) \/ Cut(c) \/ Abandon(c)
Consumer(k) == Poll(k) \/ Load(k)

Next ==
    \/ \E c \in Clients : Client(c)
    \/ \E k \in Consumers : Consumer(k) \/ Restart(k)
    \/ Tick \/ Remove

Spec == Init /\ [][Next]_vars

\* Every plugin process polls on each of its ticks.
FairSpec == Spec /\ \A k \in Consumers : WF_vars(Consumer(k))

-----------------------------------------------------------------------------
(* What the file and the plugin promise. *)

\* Two entries that mean the same: "null" is as good as nothing.
Same(d, e) ==
    \/ d = Absent /\ e = Absent
    \/ /\ d # Absent /\ e # Absent /\ d.start = e.start
       /\ IF Recovering(d) THEN e.rec = d.rec ELSE ~Recovering(e)

\* The steps in which c puts its text into the file, and those that lose the text:
\* the file is removed, or the writer that has emptied it dies.
Writes(c) == cpc[c] = "write" /\ cpc'[c] # "write" /\ body' = copy[c] /\ length' # 0
Removed == exists /\ (~exists' \/ (length = 0 /\ length' = 0))

\* A request for one scenario leaves every other entry as it was, except that the
\* console drops one that has recovered.  Every writer rewrites the whole file from
\* what it read, in three different parsers.
OthersKept ==
    [][\A s \in Scenarios :
          \/ Same(body[s], body'[s])
          \/ Removed
          \/ body'[s] = Absent /\ Finished(body[s])
          \/ \E c \in Clients : /\ Writes(c)
                                 /\ \/ request[c].scenario = s
                                    \/ request[c].op = "resolve-all"]_vars

\* A scenario that stays in the file keeps the second its timeline is measured
\* from, through triggers, resolves and rewrites by any writer; only an advance of
\* that scenario moves it, and one that had recovered starts anew.
StartKept ==
    [][\A s \in Scenarios :
          body[s] # Absent /\ ~Finished(body[s]) /\ body'[s] # Absent
             /\ body[s].start # body'[s].start =>
             \E c \in Clients : Writes(c) /\ request[c] = [op |-> "advance", scenario |-> s]]_vars

\* The moment resolve was first pressed stays: no second resolve and no other edit
\* starts the recovery over.  Only a new trigger of that scenario cancels it.
RecoveryOnce ==
    [][\A s \in Scenarios :
          body[s] # Absent /\ Recovering(body[s]) /\ body'[s] # Absent
             /\ body'[s].rec # body[s].rec =>
                \/ Removed
                \/ \E c \in Clients : /\ Writes(c)
                                       /\ request[c] = [op |-> "trigger", scenario |-> s]
                                       /\ ~Recovering(body'[s])]_vars

\* Neither the console nor control_file.py takes a fault away at once: it leaves the
\* file only when it has been recovering for the whole recovery window.
Unwinds ==
    [][\A s \in Scenarios :
          body[s] # Absent /\ body'[s] = Absent =>
             \/ Removed
             \/ Finished(body[s])
             \/ \E c \in Clients : Writes(c) /\ KindOf[c] \in {"shell", "editor"}]_vars

\* By hand: once the writer of a resolve is done, the fault is on its way out.
ResolveTakes ==
    [][\A c \in Clients :
          Writes(c) /\ request[c].op = "resolve" =>
             LET e == body'[request[c].scenario] IN e = Absent \/ Recovering(e)]_vars

\* What consumer k runs is what the file says, of the scenarios it knows; it may
\* have chosen the start time of an entry that has none.
InForce(k) ==
    \A s \in Scenarios :
       LET e == IF exists THEN body[s] ELSE Absent IN
       IF e = Absent \/ s \notin Library THEN current[k][s] = Absent
       ELSE /\ current[k][s] # Absent
            /\ current[k][s].rec = e.rec
            /\ e.start # Absent => current[k][s].start = e.start

\* A consumer that finds nothing new to read runs what the file says: whatever the
\* writers did while it read, it is up to date or will notice on its next tick.  Who
\* took the mtime before a write that did not move it, may be neither.
NextTick ==
    \A k \in Consumers :
       /\ exists /\ Whole /\ kpc[k] = "idle" /\ seen[k] = mtime => InForce(k) \/ k \in raced
       /\ ~exists /\ kpc[k] = "idle" /\ seen[k] = Absent => InForce(k)

\* By hand: the same without the exception.
NextTickAlways ==
    \A k \in Consumers : exists /\ Whole /\ kpc[k] = "idle" /\ seen[k] = mtime => InForce(k)

\* Consumer k gives up the start time that it has for s, and with it the place of the
\* fault in its timeline.
Forgets(k, s) == started[k][s] # Absent /\ started'[k][s] # started[k][s]

\* What the file has to say about it: s is not in it, or has a start time of its own.
\* A process that is restarted remembers nothing.
Accounted(k, s) ==
    \/ body[s] = Absent \/ body[s].start # Absent
    \/ seen'[k] = Absent

\* By hand: "an unrelated edit must not restart it mid-demo" (control.rs:131).
NeverRestarted == [][\A k \in Consumers, s \in Scenarios : Forgets(k, s) => Accounted(k, s)]_vars

\* A scenario whose entry has no start time keeps the one that it was given when first
\* seen, whatever else changes in the file, as long as no read falls between the two
\* halves of a save: one that finds the file emptied forgets it (control.rs:146), and
\* the next read starts the fault anew.
EditKeepsStart ==
    [][\A k \in Consumers, s \in Scenarios :
          Forgets(k, s) => Accounted(k, s) \/ (exists /\ length = 0)]_vars

\* A request disturbs nothing that it is not about, through three parsers and rewrites
\* of the whole file: no other entry, no start time, in the file or in the memory of a
\* plugin process, and no recovery that has begun; but for a process that reads in the
\* middle of a save (EditKeepsStart).
Undisturbed == OthersKept /\ StartKept /\ RecoveryOnce /\ EditKeepsStart

\* Once nobody changes a whole file any more, every plugin process comes to run it, but
\* for one that took the mtime before a write that did not move it.
Settled == requests = MaxRequests /\ (\A c \in Clients : cpc[c] = "idle") /\ (exists => Whole)
PickedUp ==
    Settled ~> \A k \in Consumers : kpc[k] = "idle" /\ (InForce(k) \/ k \in raced)

=============================================================================
