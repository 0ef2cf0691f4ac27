-------------------------------- MODULE Reskin --------------------------------
(***************************************************************************)
(* A running simulation's environment.yaml and those who follow it: the    *)
(* console's re-skin and label edits (crates/sim-console/src/provision.rs, *)
(* crates/sim-engine/src/reskin.rs), the four producers that read it       *)
(* (crates/sim-plugin/src/main.rs), and the scrape jobs that go.d reads    *)
(* (exporter_config.rs, scripts/sim-docker.sh telemetry).                  *)
(*                                                                         *)
(* The producers share no lock with the console: the collector and the     *)
(* logs writer compare the file's stamp at every tick, the other two read  *)
(* the file when they start.  What PID 1 does is in Supervisor.            *)
(***************************************************************************)
EXTENDS Naturals

CONSTANTS
    Names,          \* names of an environment, which prefix its hostnames
    Labels,         \* label sets a user may ask for
    Bare,           \* no labels at all
    First,          \* what the simulation was created with
    Torn,           \* a file that cannot be read: emptied, or a mix of two
    None,
    Reskinners,     \* requests that re-skin
    Labellers,      \* requests that edit labels
    Sides,          \* producers beside the collector: logs, otlp, exporters
    MaxEdits,       \* bound of the model: requests
    MaxEvents       \* bound of the model: failed writes, restarts, ends and commands

Contents == [name : Names, labels : Labels]

ASSUME FirstAssumption == First \in Contents /\ Bare \notin Labels
ASSUME NoneAssumption == None \notin Names \cup Labels \cup Contents /\ Torn \notin Contents \cup {None}
ASSUME RequestAssumption == Reskinners \cap Labellers = {}
ASSUME SidesAssumption == Sides \subseteq {"logs", "otlp", "exporters"}
ASSUME BoundAssumption == MaxEdits \in Nat /\ MaxEvents \in Nat

Requests == Reskinners \cup Labellers
Producers == Sides \cup {"metrics"}

\* Those that look at the file's stamp, its time and its length, at every tick.
Watching == {"metrics", "logs"}

VARIABLES
    env,        \* the installed environment.yaml
    copies,     \* the console's copy of it, by name
    rpc,        \* control of each request
    want,       \* the labels that an edit asks for
    hosts,      \* the name whose hosts it has listed
    new,        \* the text it is going to write
    pc,         \* control of each producer
    held,       \* the environment it has loaded
    missed,     \* those whose file has changed since they loaded it, before the stamp
    changed,    \* ... since they took the stamp
    disabled,   \* netdata does not start the collector again
    hurt,       \* ... and it had met an unreadable file or a signal before its handler
    off,        \* .telemetry-off
    conf,       \* the name in go.d's files
    god,        \* the name go.d has read there
    job,        \* its jobs have had their first answer
    shown,      \* what the agent shows of the nodes
    edits, events

fileVars == <<env, copies>>
reqVars == <<rpc, want, hosts, new, edits>>
prodVars == <<pc, held, missed, changed, disabled, hurt>>
godVars == <<conf, god, job>>
vars == <<fileVars, reqVars, prodVars, godVars, off, shown, events>>

Running == {p \in Producers : pc[p] = "up"}
Starting == {p \in Producers : pc[p] = "loaded"}

\* "exec" has no signal handler yet, "loaded" has not taken its stamp yet.
TypeOK ==
    /\ env \in Contents \cup {Torn}
    /\ copies \in [Names -> Contents \cup {None}]
    /\ rpc \in [Requests -> {"idle", "listed", "ready", "emptied", "written"}]
    /\ want \in [Labellers -> Labels \cup {None}]
    /\ hosts \in [Labellers -> Names \cup {None}]
    /\ new \in [Requests -> Contents \cup {None}]
    /\ pc \in [Producers -> {"down", "exec", "loaded", "up"}]
    /\ held \in [Producers -> Contents \cup {None}]
    /\ \A p \in Producers : (held[p] # None) <=> (p \in Running \cup Starting)
    /\ missed \subseteq Running \cup Starting /\ changed \subseteq Running
    /\ {disabled, hurt, off, job} \subseteq BOOLEAN
    /\ conf \in Names /\ god \in Names \cup {None}
    /\ shown \in [name : Names, labels : Labels \cup {Bare}]
    /\ edits \in 0..MaxEdits /\ events \in 0..MaxEvents

\* Created, with every producer running.
Init ==
    /\ env = First
    /\ copies = [n \in Names |-> IF n = First.name THEN First ELSE None]
    /\ rpc = [r \in Requests |-> "idle"]
    /\ want = [r \in Labellers |-> None]
    /\ hosts = [r \in Labellers |-> None]
    /\ new = [r \in Requests |-> None]
    /\ pc = [p \in Producers |-> "up"]
    /\ held = [p \in Producers |-> First]
    /\ missed = {} /\ changed = {}
    /\ disabled = FALSE /\ hurt = FALSE /\ off = FALSE
    /\ conf = First.name /\ god = First.name /\ job = TRUE
    /\ shown = First
    /\ edits = 0 /\ events = 0

Event == events < MaxEvents /\ events' = events + 1

-----------------------------------------------------------------------------
(* The console's requests: each reads, computes, and writes with           *)
(* std::fs::write, which empties the file first.  One that finds nothing   *)
(* to change, or a file it cannot read, is answered and changes nothing.   *)

Goes(r, to) == rpc' = [rpc EXCEPT ![r] = to]

\* The request is answered, and what it held is gone.
Answer(r) ==
    /\ Goes(r, "idle")
    /\ want' = [l \in Labellers |-> IF l = r THEN None ELSE want[l]]
    /\ hosts' = [l \in Labellers |-> IF l = r THEN None ELSE hosts[l]]
    /\ new' = [new EXCEPT ![r] = None]

Prepare(r, text) ==
    /\ Goes(r, "ready")
    /\ new' = [new EXCEPT ![r] = text]
    /\ UNCHANGED <<fileVars, want, hosts, prodVars, godVars, off, shown, events>>

\* provision::reskin: every hostname and the name, never a GUID.
Reskin(r) ==
    /\ rpc[r] = "idle"
    /\ edits < MaxEdits
    /\ edits' = edits + 1
    /\ env # Torn
    /\ \E name \in Names \ {env.name} : Prepare(r, [env EXCEPT !.name = name])

\* provision::apply_labels lists the nodes and compares ...
ListNodes(r) ==
    /\ rpc[r] = "idle"
    /\ edits < MaxEdits
    /\ edits' = edits + 1
    /\ env # Torn
    /\ \E labels \in Labels \ {env.labels} : want' = [want EXCEPT ![r] = labels]
    /\ hosts' = [hosts EXCEPT ![r] = env.name]
    /\ Goes(r, "listed")
    /\ UNCHANGED <<fileVars, new, prodVars, godVars, off, shown, events>>

\* ... and reads the file again; reskin::apply_labels refuses hosts it does not find.
ApplyLabels(r) ==
    /\ rpc[r] = "listed"
    /\ env # Torn /\ env.name = hosts[r]
    /\ Prepare(r, [env EXCEPT !.labels = want[r]])
    /\ UNCHANGED edits

Refuse(r) ==
    /\ rpc[r] = "listed"
    /\ ~(env # Torn /\ env.name = hosts[r])
    /\ Answer(r)
    /\ UNCHANGED <<fileVars, edits, prodVars, godVars, off, shown, events>>

\* The file has another stamp.
Touch(text) ==
    /\ env' = text
    /\ missed' = missed \cup Starting
    /\ changed' = changed \cup Running
    /\ UNCHANGED <<copies, want, hosts, new, edits, pc, held, disabled, hurt, godVars, off, shown, events>>

Empty(r) ==
    /\ rpc[r] = "ready"
    /\ Touch(Torn)
    /\ Goes(r, "emptied")

\* Over what another request has written meanwhile it may leave that one's tail.
Write(r) ==
    /\ rpc[r] = "emptied"
    /\ \E text \in {new[r]} \cup (IF env = Torn THEN {} ELSE {Torn}) : Touch(text)
    /\ Goes(r, "written")

Copy(r) ==
    /\ rpc[r] = "written"
    /\ copies' = [copies EXCEPT ![new[r].name] = new[r]]
    /\ Answer(r)
    /\ UNCHANGED <<env, edits, prodVars, godVars, off, shown, events>>

\* The disk is full, or the console ends.
Fail(r) ==
    /\ rpc[r] \in {"emptied", "written"}
    /\ Event
    /\ Answer(r)
    /\ UNCHANGED <<fileVars, edits, prodVars, godVars, off, shown>>

Request(r) ==
    \/ r \in Labellers /\ (ApplyLabels(r) \/ Refuse(r))
    \/ Empty(r) \/ Write(r) \/ Copy(r)

Asked(r) == (r \in Reskinners /\ Reskin(r)) \/ (r \in Labellers /\ ListNodes(r))

-----------------------------------------------------------------------------
(* A producer. *)

\* What a process knew ends with it.
End(S) ==
    /\ pc' = [p \in Producers |-> IF p \in S THEN "down" ELSE pc[p]]
    /\ held' = [p \in Producers |-> IF p \in S THEN None ELSE held[p]]
    /\ missed' = missed \ S
    /\ changed' = changed \ S

\* Mutant: the watchdog does not know the exporters' mode.
StartTwoModes(p) ==
    /\ pc[p] = "down" /\ p # "exporters"
    /\ IF p = "metrics" THEN ~disabled ELSE ~off
    /\ pc' = [pc EXCEPT ![p] = "exec"]
    /\ UNCHANGED <<fileVars, reqVars, held, missed, changed, disabled, hurt, godVars, off, shown, events>>

\* netdata starts its collector unless it has disabled it; the watchdog starts the
\* others unless the operator has stopped them.
Start(p) ==
    /\ pc[p] = "down"
    /\ IF p = "metrics" THEN ~disabled ELSE ~off
    /\ pc' = [pc EXCEPT ![p] = "exec"]
    /\ UNCHANGED <<fileVars, reqVars, held, missed, changed, disabled, hurt, godVars, off, shown, events>>

\* Environment::load.  An error is an exit with a status that netdata holds against
\* the collector; the watchdog starts the others again.
Load(p) ==
    /\ pc[p] = "exec"
    /\ IF env = Torn
       THEN /\ End({p})
            /\ disabled' = (disabled \/ p = "metrics")
            /\ hurt' = (hurt \/ p = "metrics")
       ELSE /\ pc' = [pc EXCEPT ![p] = "loaded"]
            /\ held' = [held EXCEPT ![p] = env]
            /\ UNCHANGED <<missed, changed, disabled, hurt>>
    /\ UNCHANGED <<fileVars, reqVars, godVars, off, shown, events>>

\* The rest of the start, with the collector's first handshake; file_stamp comes last.
Ready(p) ==
    /\ pc[p] = "loaded"
    /\ pc' = [pc EXCEPT ![p] = "up"]
    /\ shown' = IF p = "metrics" THEN held[p] ELSE shown
    /\ UNCHANGED <<fileVars, reqVars, held, missed, changed, disabled, hurt, godVars, off, events>>

\* Mutant: an edit is met with an error.
NoticeAsFailure(p) ==
    /\ p \in Watching \cap changed
    /\ End({p})
    /\ disabled' = (disabled \/ p = "metrics")
    /\ UNCHANGED <<fileVars, reqVars, hurt, godVars, off, shown, events>>

\* A tick finds the stamp changed and the producer exits with status 0.
Notice(p) ==
    /\ p \in Watching \cap changed
    /\ End({p})
    /\ UNCHANGED <<fileVars, reqVars, disabled, hurt, godVars, off, shown, events>>

\* Mutant: the handshake is sent without its labels.
ReassertBare ==
    /\ "metrics" \in Running \ changed
    /\ shown' = [held["metrics"] EXCEPT !.labels = Bare]
    /\ UNCHANGED <<fileVars, reqVars, prodVars, godVars, off, events>>

\* A tick at which the handshake is due.
Reassert ==
    /\ "metrics" \in Running \ changed
    /\ shown' = held["metrics"]
    /\ UNCHANGED <<fileVars, reqVars, prodVars, godVars, off, events>>

\* journal-remote has ended, the memory is out.
Stop(p) ==
    /\ p \in Sides
    /\ pc[p] # "down"
    /\ Event
    /\ End({p})
    /\ UNCHANGED <<fileVars, reqVars, disabled, hurt, godVars, off, shown>>

-----------------------------------------------------------------------------
(* go.d, which netdata keeps running, and its prometheus jobs. *)

\* It reads its files once.
GodStarts ==
    /\ god = None
    /\ god' = conf
    /\ UNCHANGED <<fileVars, reqVars, prodVars, conf, job, off, shown, events>>

\* exporters::route answers under the names that the exporter has loaded.
Answered == "exporters" \in Sides \cap Running /\ held["exporters"].name = god

\* The first answer, to a job that asks every autodetection_retry: go.d defines the
\* node by its name and its GUID alone.
GodDefines ==
    /\ god # None /\ ~job
    /\ Answered
    /\ job' = TRUE
    /\ shown' = [name |-> god, labels |-> Bare]
    /\ UNCHANGED <<fileVars, reqVars, prodVars, conf, god, off, events>>

-----------------------------------------------------------------------------
(* The operator. *)

\* SIGTERM: without a handler it kills, with one the producer ends by itself.
TelemetryStop ==
    /\ Event
    /\ off' = TRUE
    /\ End(Sides)
    /\ UNCHANGED <<fileVars, reqVars, disabled, hurt, godVars, shown>>

\* The producers, then --exporter-config, then go.d and the collector again; without
\* scrape jobs neither the exporters nor the last two.  Supervisor has the steps one by
\* one.  Of a producer that runs, a second is not modelled: an exporter cannot bind.
TelemetryStart ==
    LET jobs == "exporters" \in Sides /\ env # Torn
        early == jobs /\ pc["metrics"] = "exec"
        started == {p \in Sides : pc[p] = "down" /\ (p = "exporters" => jobs)}
        ended == IF jobs THEN {"metrics"} ELSE {}
    IN  /\ Event
        /\ off' = FALSE
        /\ conf' = IF jobs THEN env.name ELSE conf
        /\ god' = IF jobs THEN None ELSE god
        /\ job' = (job /\ ~jobs)
        /\ disabled' = (disabled \/ early)
        /\ hurt' = (hurt \/ early)
        /\ pc' = [p \in Producers |->
                    CASE p \in started -> "exec" [] p \in ended -> "down" [] OTHER -> pc[p]]
        /\ held' = [p \in Producers |-> IF p \in ended THEN None ELSE held[p]]
        /\ missed' = missed \ ended
        /\ changed' = changed \ ended
        /\ UNCHANGED <<fileVars, reqVars, shown>>

\* docker restart, or the machine's.
Restart ==
    /\ Event
    /\ End(Producers)
    /\ disabled' = FALSE /\ hurt' = FALSE
    /\ god' = None /\ job' = FALSE
    /\ UNCHANGED <<fileVars, reqVars, conf, off, shown>>

-----------------------------------------------------------------------------
Producer(p) == Start(p) \/ Load(p) \/ Ready(p) \/ Notice(p)
God == GodStarts \/ GodDefines

Next ==
    \/ \E r \in Requests : Asked(r) \/ Request(r) \/ Fail(r)
    \/ \E p \in Producers : Producer(p) \/ Stop(p)
    \/ Reassert \/ God
    \/ TelemetryStop \/ TelemetryStart \/ Restart

Spec == Init /\ [][Next]_vars

\* The console finishes what it has been asked, netdata and the watchdog start what is
\* missing, ticks go on and jobs are tried again; nobody need edit, stop or restart.
FairSpec ==
    /\ Spec
    /\ \A r \in Requests : WF_vars(Request(r))
    /\ \A p \in Producers : WF_vars(Producer(p))
    /\ WF_vars(Reassert) /\ WF_vars(God)

-----------------------------------------------------------------------------
\* "The plugin notices the rewritten file on its own and restarts cleanly": whatever
\* the edits, failures and restarts, in the end the collector and the logs writer run
\* with the file as it is, unless a change came between their load and their stamp, the
\* operator has stopped the logs, or the collector met an unreadable file or an early signal.
Follows ==
    <>[](env # Torn) =>
        \A p \in Watching \cap Producers :
            <>[](\/ pc[p] = "up" /\ (held[p] = env \/ p \in missed)
                 \/ p = "metrics" /\ hurt
                 \/ p # "metrics" /\ off)

\* "Re-asserting on a timer makes the labelled define win again no matter who
\* restarted what": a node that go.d has defined bare, and under the name go.d knows,
\* shows its labels and its own name again.
LabelsReturn ==
    (pc["metrics"] = "up") ~> (shown = held["metrics"] \/ pc["metrics"] # "up")

\* Whether the application charts come in.
Charted == job /\ Answered

\* "Exporter charts return within about a minute of the container being up": of a
\* simulation that kept its name, whatever was stopped and restarted.
ChartsReturn ==
    /\ [](env # Torn => env.name = First.name)
    /\ <>[](env # Torn)
    => <>[](Charted \/ off)

\* By hand: "a re-skinned fleet keeps its scraped charts".
ChartsKept == <>[](env # Torn) => <>[](Charted \/ off)

\* By hand: "keep the repo copy in step", which fails when requests overlap.
CopyInStep ==
    (env # Torn /\ \A r \in Requests : rpc[r] = "idle") => copies[env.name] = env
=============================================================================
