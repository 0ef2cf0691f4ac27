----------------------------- MODULE Supervisor -----------------------------
(***************************************************************************)
(* The processes of one simulation's container: docker/entrypoint.sh,      *)
(* which is PID 1, its watchdog, sim-docker.sh telemetry start and stop,   *)
(* and a plugin process up to the opening of its recording session         *)
(* (crates/sim-plugin/src/main.rs, run, and shutdown.rs).                  *)
(***************************************************************************)
EXTENDS Naturals, FiniteSets

CONSTANTS
    Procs,          \* bound of the model: plugin processes alive at once
    Sides,          \* modes that the watchdog supervises: --logs, --otlp, --exporters
    Metrics,        \* the mode that netdata runs as its collector
    Ops,            \* what the operator does: "start", "stop"
    MaxBoots,       \* bound of the model: starts of the container
    None

ASSUME ModesAssumption == Metrics \notin Sides /\ None \notin Sides /\ None # Metrics
ASSUME OpsAssumption == Ops \subseteq {"start", "stop"}
ASSUME BoundAssumption == MaxBoots \in Nat

VARIABLES
    cont,       \* control of PID 1; "down" when there is no container process
    boots,      \* starts so far
    agent,      \* netdata runs
    asked,      \* docker stop was called: no restart
    late,       \* the grace period ended before the producers did
    lifecycle,  \* the runtime-state file
    marker,     \* .telemetry-off
    wd,         \* control of the watchdog
    todo,       \* modes it has still to look at in this round
    missing,    \* mode it found missing and is about to start
    pst,        \* state of each plugin process
    mode,       \* its mode
    term,       \* it has a pending request to stop
    toscan,     \* processes PID 1 has still to look at
    waited,     \* processes PID 1 waits for
    cut,        \* a recording session was killed
    opc,        \* control of the operator's command
    optodo,     \* modes it has still to start or stop
    stopped     \* the last command was a stop that left its marker, and it has returned

contVars == <<cont, boots, agent, asked, late, lifecycle>>
wdVars == <<wd, todo, missing>>
procVars == <<pst, mode, term>>
scanVars == <<toscan, waited>>
opVars == <<opc, optodo, stopped>>
vars == <<contVars, marker, wdVars, procVars, scanVars, cut, opVars>>

Modes == Sides \cup {Metrics}

\* "forked" has not become the plugin yet; "exec" has no handler yet; "ready" has not
\* read the lifecycle file, "go" has; "session" has opened its recording.
ProcStates == {"none", "forked", "exec", "ready", "go", "session"}
ContStates == {"down", "boot", "up", "shutdown", "marked", "scan", "wait", "end"}

TypeOK ==
    /\ cont \in ContStates
    /\ boots \in 0..MaxBoots
    /\ agent \in BOOLEAN /\ asked \in BOOLEAN /\ late \in BOOLEAN /\ marker \in BOOLEAN
    /\ cut \in BOOLEAN /\ stopped \in BOOLEAN
    /\ lifecycle \in {"none", "running", "stopping"}
    /\ wd \in {"dead", "sleep", "round"}
    /\ todo \subseteq Sides
    /\ missing \in todo \cup {None}
    /\ pst \in [Procs -> ProcStates]
    /\ mode \in [Procs -> Modes]
    /\ term \in [Procs -> BOOLEAN]
    /\ toscan \subseteq Procs /\ waited \subseteq Procs
    /\ opc \in {"idle", "start", "stop"}
    /\ optodo \subseteq Sides
    /\ cont = "down" => wd = "dead" /\ \A p \in Procs : pst[p] = "none"

Init ==
    /\ cont = "down" /\ boots = 0
    /\ agent = FALSE /\ asked = FALSE /\ late = FALSE
    /\ lifecycle = "none" /\ marker = FALSE
    /\ wd = "dead" /\ todo = {} /\ missing = None
    /\ pst = [p \in Procs |-> "none"]
    /\ mode = [p \in Procs |-> Metrics]
    /\ term = [p \in Procs |-> FALSE]
    /\ toscan = {} /\ waited = {}
    /\ cut = FALSE
    /\ opc = "idle" /\ optodo = {} /\ stopped = FALSE

\* pgrep, pkill and the scan of /proc match the plugin's own command line.
Visible(p) == pst[p] \notin {"none", "forked"}
Live(m) == \E p \in Procs : Visible(p) /\ mode[p] = m

\* Somebody forks a process that will become the plugin.
Fork(m) ==
    \E p \in Procs :
        /\ pst[p] = "none"
        /\ pst' = [pst EXCEPT ![p] = "forked"]
        /\ mode' = [mode EXCEPT ![p] = m]
        /\ UNCHANGED term

\* SIGTERM to the processes of S: without a handler it kills, with one it sets a flag.
Signal(S) ==
    LET killed == {p \in S : pst[p] = "exec"}
    IN  /\ pst' = [p \in Procs |-> IF p \in killed THEN "none" ELSE pst[p]]
        /\ term' = [p \in Procs |-> term[p] \/ p \in S \ killed]
        /\ UNCHANGED mode

-----------------------------------------------------------------------------
(* A plugin process. *)

Advance(p, from, to) ==
    /\ pst[p] = from
    /\ pst' = [pst EXCEPT ![p] = to]
    /\ UNCHANGED <<contVars, marker, wdVars, mode, term, scanVars, cut, opVars>>

Exec(p) == Advance(p, "forked", "exec")

\* shutdown::install: from here on SIGTERM is a flag.
Install(p) == Advance(p, "exec", "ready")

\* Mutant: the process does not look at the lifecycle file.
LookNowhere(p) == Advance(p, "ready", "go")

\* It leaves at once when the container is stopping.
Look(p) ==
    IF lifecycle = "stopping"
    THEN /\ pst[p] = "ready"
         /\ pst' = [pst EXCEPT ![p] = "none"]
         /\ term' = [term EXCEPT ![p] = FALSE]
         /\ waited' = waited \ {p} /\ toscan' = toscan \ {p}
         /\ UNCHANGED <<contVars, marker, wdVars, mode, cut, opVars>>
    ELSE Advance(p, "ready", "go")

\* Recorder::from_environment.
OpenSession(p) == Advance(p, "go", "session")

\* It ends, because it was asked to or by itself; its session is stopped cleanly.
Exit(p) ==
    /\ Visible(p)
    /\ pst' = [pst EXCEPT ![p] = "none"]
    /\ term' = [term EXCEPT ![p] = FALSE]
    /\ waited' = waited \ {p} /\ toscan' = toscan \ {p}
    /\ UNCHANGED <<contVars, marker, wdVars, mode, cut, opVars>>

-----------------------------------------------------------------------------
(* The watchdog. *)

\* Every INTERVAL seconds it looks for the marker, and then at every mode.
WatchdogWakes ==
    /\ wd = "sleep"
    /\ ~marker
    /\ wd' = "round"
    /\ todo' = Sides
    /\ UNCHANGED <<contVars, marker, missing, procVars, scanVars, cut, opVars>>

\* pgrep.
WatchdogLooks ==
    /\ wd = "round"
    /\ missing = None
    /\ \E m \in todo :
          IF Live(m) THEN todo' = todo \ {m} /\ UNCHANGED missing
                     ELSE missing' = m /\ UNCHANGED todo
    /\ UNCHANGED <<contVars, marker, wd, procVars, scanVars, cut, opVars>>

\* Mutant: what is missing is only noted.
WatchdogNotes ==
    /\ missing # None
    /\ todo' = todo \ {missing}
    /\ missing' = None
    /\ UNCHANGED <<contVars, marker, wd, procVars, scanVars, cut, opVars>>

WatchdogStarts ==
    /\ missing # None
    /\ Fork(missing)
    /\ todo' = todo \ {missing}
    /\ missing' = None
    /\ UNCHANGED <<contVars, marker, wd, scanVars, cut, opVars>>

WatchdogSleeps ==
    /\ wd = "round"
    /\ todo = {}
    /\ wd' = "sleep"
    /\ UNCHANGED <<contVars, marker, todo, missing, procVars, scanVars, cut, opVars>>

-----------------------------------------------------------------------------
(* sim-docker.sh telemetry; docker exec needs a running container. *)

Executable == cont # "down"

\* The marker goes first, then each mode is started whether it runs or not.
StartBegin ==
    /\ "start" \in Ops
    /\ opc = "idle"
    /\ Executable
    /\ marker' = FALSE
    /\ opc' = "start" /\ optodo' = Sides /\ stopped' = FALSE
    /\ UNCHANGED <<contVars, wdVars, procVars, scanVars, cut>>

StartMode ==
    /\ opc = "start"
    /\ Executable
    /\ \E m \in optodo : Fork(m) /\ optodo' = optodo \ {m}
    /\ UNCHANGED <<contVars, marker, wdVars, scanVars, cut, opc, stopped>>

\* Where there are exporters it kills the collector last, so that its handshake comes
\* after go.d's.
StartRestarts ==
    /\ opc = "start"
    /\ optodo = {}
    /\ Executable
    /\ \E S \in {{}, {p \in Procs : Visible(p) /\ mode[p] = Metrics}} : Signal(S)
    /\ waited' = {p \in waited : pst'[p] # "none"}
    /\ toscan' = {p \in toscan : pst'[p] # "none"}
    /\ opc' = "idle"
    /\ UNCHANGED <<contVars, marker, wdVars, cut, optodo, stopped>>

\* The marker goes in first, or the command warns that it could not, and then each
\* mode is killed.
StopBegin ==
    /\ "stop" \in Ops
    /\ opc = "idle"
    /\ Executable
    /\ marker' \in {marker, TRUE}
    /\ opc' = "stop" /\ optodo' = Sides /\ stopped' = FALSE
    /\ UNCHANGED <<contVars, wdVars, procVars, scanVars, cut>>

\* pkill.
StopMode ==
    /\ opc = "stop"
    /\ Executable
    /\ \E m \in optodo :
          /\ Signal({p \in Procs : Visible(p) /\ mode[p] = m})
          /\ optodo' = optodo \ {m}
    /\ waited' = {p \in waited : pst'[p] # "none"}
    /\ toscan' = {p \in toscan : pst'[p] # "none"}
    /\ UNCHANGED <<contVars, marker, wdVars, cut, opc, stopped>>

\* The command returns; without a container it fails on the way.
CommandEnds ==
    /\ opc # "idle"
    /\ (opc = "stop" /\ optodo = {}) \/ ~Executable
    /\ stopped' = (opc = "stop" /\ optodo = {} /\ marker)
    /\ opc' = "idle" /\ optodo' = {}
    /\ UNCHANGED <<contVars, marker, wdVars, procVars, scanVars, cut>>

-----------------------------------------------------------------------------
(* PID 1. *)

\* Mutant: what was stopped is started with the container.
BootUnmarked ==
    /\ cont = "down"
    /\ ~asked
    /\ boots < MaxBoots
    /\ boots' = boots + 1
    /\ cont' = "boot" /\ agent' = TRUE
    /\ lifecycle' = "running"
    /\ marker' = FALSE
    /\ wd' = "sleep" /\ todo' = {} /\ missing' = None
    /\ UNCHANGED <<asked, late, procVars, scanVars, cut, opVars>>

\* The lifecycle file, netdata, the watchdog.
Boot ==
    /\ cont = "down"
    /\ ~asked
    /\ boots < MaxBoots
    /\ boots' = boots + 1
    /\ cont' = "boot" /\ agent' = TRUE
    /\ lifecycle' = "running"
    /\ wd' = "sleep" /\ todo' = {} /\ missing' = None
    /\ UNCHANGED <<asked, late, marker, procVars, scanVars, cut, opVars>>

Goes(from, to) ==
    /\ cont = from
    /\ cont' = to
    /\ UNCHANGED <<boots, agent, asked, late, marker, procVars, cut, opVars>>

\* trap shutdown TERM INT.
Trap == Goes("boot", "up") /\ UNCHANGED <<lifecycle, wdVars, scanVars>>

\* netdata dies and PID 1 goes on to shutdown.
AgentDies ==
    /\ cont = "up"
    /\ agent' = FALSE
    /\ cont' = "shutdown"
    /\ UNCHANGED <<boots, asked, late, lifecycle, marker, wdVars, procVars, scanVars, cut, opVars>>

\* docker stop; a PID 1 without a trap ignores the signal.
DockerStop ==
    /\ cont # "down"
    /\ ~asked
    /\ asked' = TRUE
    /\ cont' = IF cont = "up" THEN "shutdown" ELSE cont
    /\ UNCHANGED <<boots, agent, late, lifecycle, marker, wdVars, procVars, scanVars, cut, opVars>>

Mark ==
    /\ Goes("shutdown", "marked")
    /\ lifecycle' = "stopping"
    /\ UNCHANGED <<wdVars, scanVars>>

KillWatchdog ==
    /\ Goes("marked", "scan")
    /\ wd' = "dead" /\ todo' = {} /\ missing' = None
    /\ toscan' = {p \in Procs : pst[p] # "none"}
    /\ UNCHANGED <<lifecycle, waited>>

\* TERM to each of them that is the plugin.
Scan ==
    /\ cont = "scan"
    /\ \E p \in toscan :
          /\ IF Visible(p)
             THEN Signal({p}) /\ waited' = IF pst'[p] = "none" THEN waited ELSE waited \cup {p}
             ELSE UNCHANGED <<procVars, waited>>
          /\ toscan' = toscan \ {p}
    /\ UNCHANGED <<contVars, marker, wdVars, cut, opVars>>

Scanned == toscan = {} /\ Goes("scan", "wait") /\ UNCHANGED <<lifecycle, wdVars, scanVars>>

Ended == waited = {} /\ Goes("wait", "end") /\ UNCHANGED <<lifecycle, wdVars, scanVars>>

\* Twenty seconds have passed.
GivesUp ==
    /\ cont = "wait"
    /\ waited # {}
    /\ cont' = "end"
    /\ late' = TRUE
    /\ UNCHANGED <<boots, agent, asked, lifecycle, marker, wdVars, procVars, scanVars, cut, opVars>>

\* What is left in the container goes with PID 1.
Down ==
    /\ cont' = "down" /\ agent' = FALSE
    /\ cut' = (cut \/ \E p \in Procs : pst[p] = "session")
    /\ pst' = [p \in Procs |-> "none"]
    /\ term' = [p \in Procs |-> FALSE]
    /\ toscan' = {} /\ waited' = {}
    /\ wd' = "dead" /\ todo' = {} /\ missing' = None
    /\ UNCHANGED <<boots, asked, lifecycle, marker, mode, opVars>>

\* netdata has ended, and PID 1 exits.
ExitAll == cont = "end" /\ Down /\ UNCHANGED late

\* docker's own grace period ends, or the machine does.
Kill == cont # "down" /\ Down /\ late' = TRUE

\* netdata keeps its collector running, until PID 1 has seen it end.
NetdataSpawns ==
    /\ agent
    /\ \A p \in Procs : pst[p] # "none" => mode[p] # Metrics
    /\ Fork(Metrics)
    /\ UNCHANGED <<contVars, marker, wdVars, scanVars, cut, opVars>>

-----------------------------------------------------------------------------
Process(p) ==
    Exec(p) \/ Install(p) \/ Look(p) \/ OpenSession(p)
Watchdog ==
    WatchdogWakes \/ WatchdogLooks \/ WatchdogStarts \/ WatchdogSleeps
Operator == StartBegin \/ StartMode \/ StartRestarts \/ StopBegin \/ StopMode \/ CommandEnds
Entrypoint ==
    \/ Boot \/ Trap \/ AgentDies \/ DockerStop \/ Mark \/ KillWatchdog \/ Scan
    \/ Scanned \/ Ended \/ GivesUp \/ ExitAll \/ Kill

Next ==
    \/ \E p \in Procs : Process(p) \/ Exit(p)
    \/ Watchdog \/ Operator \/ Entrypoint \/ NetdataSpawns

Spec == Init /\ [][Next]_vars

\* The kernel runs the watchdog and what it has forked; nothing forces a process to
\* end, an operator to act or a container to stop.
FairSpec ==
    Spec /\ WF_vars(Watchdog) /\ \A p \in Procs : WF_vars(Process(p))

-----------------------------------------------------------------------------
\* "Forward shutdown to this container's exact plugin executables and wait for their
\* recording buffers": no recording session is killed by a stop of the container
\* unless the grace period ran out, however netdata, the watchdog and an operator
\* start processes meanwhile.
CleanStop == cut => late

\* A deliberate stop has taken hold: it was marked, and no telemetry process is left or
\* about to be.
Quiet ==
    /\ stopped
    /\ wd # "round"
    /\ \A p \in Procs : mode[p] \in Sides => pst[p] = "none"

\* "A restart cannot undo a deliberate stop": once quiet, telemetry stays quiet until
\* the operator's next command, through every restart of agent and container.
StopHolds == [][Quiet => Quiet' \/ opc' # "idle"]_vars

\* By hand: "deliberate stops win": when the command has returned, what telemetry there still
\* is has been told to stop.
StopWins ==
    stopped => \A p \in Procs : mode[p] \in Sides => pst[p] = "none" \/ term[p]

\* Telemetry that nobody stopped comes back after whatever ended it.
Revived ==
    \A m \in Sides : (cont = "up" /\ ~marker) ~> (Live(m) \/ marker \/ cont # "up")
=============================================================================
