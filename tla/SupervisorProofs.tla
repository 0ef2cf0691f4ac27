------------------------- MODULE SupervisorProofs -------------------------
(***************************************************************************)
(* A stop of the container cuts no recording within its grace period, and  *)
(* a deliberate stop of telemetry holds through every restart: for any     *)
(* number of plugin processes, supervised modes and restarts.              *)
(*                                                                         *)
(* A process opens its recording only past the lifecycle file. Once PID 1  *)
(* has marked it, the processes past it are a set that no more can enter:  *)
(* the scan finds them all, and the wait keeps each until it is gone.      *)
(***************************************************************************)
EXTENDS Supervisor, TLAPS

USE DEF contVars, wdVars, procVars, scanVars, opVars, vars, ProcStates, ContStates, Modes

\* Who may fork, when: the agent and the watchdog are of a running container, and the
\* watchdog is about to start something only in a round.
ForkInv ==
    /\ TypeOK
    /\ agent => cont # "down"
    /\ wd # "round" => missing = None

\* A process that is past the lifecycle file.
Past(p) == pst[p] \in {"go", "session"}

CleanInv ==
    /\ ForkInv
    /\ cont \in {"marked", "scan", "wait", "end"} => lifecycle = "stopping"
    /\ cont \in {"scan", "wait", "end"} => \A p \in Procs : Past(p) => p \in toscan \cup waited
    /\ cont \in {"wait", "end"} => toscan = {}
    /\ cont = "end" /\ ~late => waited = {}
    /\ CleanStop

\* The marker is in the file system for as long as the last command is a stop that left it.
StopInv ==
    /\ ForkInv
    /\ stopped => marker /\ opc = "idle"

-----------------------------------------------------------------------------
\* A new process is not the plugin yet, and takes nobody's place.
LEMMA Forks ==
    ASSUME TypeOK, NEW m \in Modes, Fork(m)
    PROVE  /\ pst' \in [Procs -> ProcStates] /\ mode' \in [Procs -> Modes] /\ term' = term
           /\ \A p \in Procs : \/ pst'[p] = pst[p] /\ mode'[p] = mode[p]
                               \/ pst[p] = "none" /\ pst'[p] = "forked" /\ mode'[p] = m
BY DEF Fork, TypeOK

\* SIGTERM ends what has no handler yet, and moves nobody else.
LEMMA Signals ==
    ASSUME TypeOK, NEW S \in SUBSET Procs, Signal(S)
    PROVE  /\ pst' \in [Procs -> ProcStates] /\ term' \in [Procs -> BOOLEAN] /\ mode' = mode
           /\ \A p \in Procs : pst'[p] = pst[p] \/ (pst[p] = "exec" /\ pst'[p] = "none")
BY DEF Signal, TypeOK

\* A process goes one step, or it goes.
LEMMA Moves ==
    ASSUME TypeOK, NEW p \in Procs, Process(p) \/ Exit(p)
    PROVE  /\ pst' \in [Procs -> ProcStates] /\ term' \in [Procs -> BOOLEAN]
           /\ pst[p] # "none"
           /\ \A q \in Procs \ {p} : pst'[q] = pst[q]
           /\ UNCHANGED <<contVars, marker, wdVars, mode, cut, opVars>>
           /\ toscan' \subseteq toscan /\ waited' \subseteq waited
           /\ \A q \in Procs \ {p} : /\ q \in toscan => q \in toscan'
                                     /\ q \in waited => q \in waited'
           /\ \/ pst'[p] = "none"
              \/ toscan' = toscan /\ waited' = waited
                 /\ (Past(p)' => Past(p) \/ lifecycle # "stopping")
BY DEF Process, Exit, Exec, Install, Look, OpenSession, Advance, Visible, TypeOK, Past

-----------------------------------------------------------------------------
LEMMA InitFork == Init => ForkInv
<1> SUFFICES ASSUME Init PROVE ForkInv
  OBVIOUS
<1>1. /\ pst \in [Procs -> ProcStates] /\ mode \in [Procs -> Modes] /\ term \in [Procs -> BOOLEAN]
      /\ \A p \in Procs : pst[p] = "none"
  BY DEF Init
<1>2. boots \in 0..MaxBoots /\ missing \in todo \cup {None} /\ todo \subseteq Sides
  BY BoundAssumption DEF Init
<1> QED
  BY <1>1, <1>2 DEF Init, ForkInv, TypeOK

LEMMA NextFork == ForkInv /\ [Next]_vars => ForkInv'
<1> SUFFICES ASSUME ForkInv, [Next]_vars PROVE ForkInv'
  OBVIOUS
<1> USE DEF ForkInv
<1>1. ASSUME NEW p \in Procs, Process(p) \/ Exit(p) PROVE ForkInv'
  BY <1>1, Moves DEF TypeOK
<1>2. CASE WatchdogWakes \/ WatchdogLooks \/ WatchdogSleeps
  BY <1>2 DEF WatchdogWakes, WatchdogLooks, WatchdogSleeps, TypeOK
<1>3. CASE WatchdogStarts
  <2>1. missing \in Modes /\ cont # "down"
    BY <1>3 DEF WatchdogStarts, TypeOK
  <2> QED
    BY <1>3, <2>1, Forks DEF WatchdogStarts, TypeOK
<1>4. CASE StartBegin \/ StopBegin \/ CommandEnds
  <2>1. stopped' \in BOOLEAN
    BY <1>4 DEF StartBegin, StopBegin, CommandEnds
  <2>2. CASE StartBegin
    BY <2>2, ZenonT(40) DEF StartBegin, TypeOK
  <2>3. CASE StopBegin
    BY <2>3, ZenonT(40) DEF StopBegin, TypeOK
  <2>4. CASE CommandEnds
    BY <2>1, <2>4 DEF CommandEnds, TypeOK
  <2> QED
    BY <1>4, <2>2, <2>3, <2>4
<1>5. CASE StartMode
  <2>1. PICK m \in optodo : Fork(m) /\ optodo' = optodo \ {m}
    BY <1>5 DEF StartMode
  <2>2. m \in Modes
    BY <2>1 DEF TypeOK
  <2> QED
    BY <1>5, <2>1, <2>2, Forks DEF StartMode, Executable, TypeOK
<1>6. CASE StartRestarts \/ StopMode
  <2>1. PICK S \in SUBSET Procs : Signal(S)
    BY <1>6 DEF StartRestarts, StopMode
  <2>2. /\ pst' \in [Procs -> ProcStates] /\ term' \in [Procs -> BOOLEAN] /\ mode' = mode
    BY <2>1, Signals
  <2>3. CASE StartRestarts
    BY <2>2, <2>3 DEF StartRestarts, Executable, TypeOK
  <2>4. CASE StopMode
    BY <2>2, <2>4 DEF StopMode, Executable, TypeOK
  <2> QED
    BY <1>6, <2>3, <2>4
<1>7. CASE Boot \/ AgentDies \/ DockerStop
  <2>1. CASE Boot
    BY <2>1, BoundAssumption DEF Boot, TypeOK
  <2>2. CASE AgentDies
    BY <2>2, ZenonT(40) DEF AgentDies, TypeOK
  <2>3. CASE DockerStop
    BY <2>3 DEF DockerStop, TypeOK
  <2> QED
    BY <1>7, <2>1, <2>2, <2>3
<1>8. CASE Scan
  <2>1. PICK p \in toscan :
            /\ toscan' = toscan \ {p}
            /\ \/ UNCHANGED <<procVars, waited>>
               \/ Signal({p}) /\ waited' \in {waited, waited \cup {p}}
    BY <1>8 DEF Scan
  <2>2. {p} \in SUBSET Procs
    BY <2>1 DEF TypeOK
  <2> QED
    BY <1>8, <2>1, <2>2, Signals DEF Scan, TypeOK
<1>9. CASE Trap \/ Mark \/ KillWatchdog \/ Scanned \/ Ended \/ GivesUp
  <2>1. CASE Trap
    BY <2>1 DEF Trap, Goes, TypeOK
  <2>2. CASE Mark
    BY <2>2 DEF Mark, Goes, TypeOK
  <2>3. CASE KillWatchdog
    BY <2>3 DEF KillWatchdog, Goes, TypeOK
  <2>4. CASE Scanned
    BY <2>4 DEF Scanned, Goes, TypeOK
  <2>5. CASE Ended
    BY <2>5 DEF Ended, Goes, TypeOK
  <2>6. CASE GivesUp
    BY <2>6 DEF GivesUp, TypeOK
  <2> QED
    BY <1>9, <2>1, <2>2, <2>3, <2>4, <2>5, <2>6
<1>10. CASE ExitAll \/ Kill
  BY <1>10 DEF ExitAll, Kill, Down, TypeOK
<1>11. CASE NetdataSpawns
  <2>1. Metrics \in Modes /\ cont # "down"
    BY <1>11 DEF NetdataSpawns
  <2> QED
    BY <1>11, <2>1, Forks DEF NetdataSpawns, TypeOK
<1>12. CASE UNCHANGED vars
  BY <1>12 DEF TypeOK
<1> QED
  BY <1>1, <1>2, <1>3, <1>4, <1>5, <1>6, <1>7, <1>8, <1>9, <1>10, <1>11, <1>12
  DEF Next, Watchdog, Operator, Entrypoint

\* The variables stay in their types: in particular a container that is down runs nothing.
THEOREM SupervisorTypes == Spec => []TypeOK
<1>1. ForkInv => TypeOK
  BY DEF ForkInv
<1> QED
  BY InitFork, NextFork, <1>1, PTL DEF Spec

-----------------------------------------------------------------------------
LEMMA InitClean == Init => CleanInv
BY InitFork DEF Init, CleanInv, CleanStop

LEMMA NextClean == CleanInv /\ [Next]_vars => CleanInv'
<1> SUFFICES ASSUME CleanInv, [Next]_vars PROVE CleanInv'
  OBVIOUS
<1>0. ForkInv /\ ForkInv' /\ TypeOK
  BY NextFork DEF CleanInv, ForkInv
<1> USE DEF CleanInv, CleanStop
<1>1. ASSUME NEW p \in Procs, Process(p) \/ Exit(p) PROVE CleanInv'
  <2>1. \A q \in Procs \ {p} : Past(q)' = Past(q)
    BY <1>0, <1>1, Moves DEF Past
  <2>2. Past(p)' => toscan' = toscan /\ waited' = waited /\ (Past(p) \/ lifecycle # "stopping")
    BY <1>0, <1>1, Moves DEF Past
  <2> QED
    BY <1>0, <1>1, <2>1, <2>2, Moves
<1>2. CASE WatchdogWakes \/ WatchdogLooks \/ WatchdogSleeps
  BY <1>0, <1>2 DEF WatchdogWakes, WatchdogLooks, WatchdogSleeps, Past
<1>3. ASSUME NEW m \in Modes, Fork(m), UNCHANGED <<cont, late, lifecycle, scanVars, cut>>
      PROVE  CleanInv'
  <2>1. \A p \in Procs : Past(p)' => Past(p)
    BY <1>0, <1>3, Forks DEF Past
  <2> QED
    BY <1>0, <1>3, <2>1
<1>4. CASE StartBegin \/ StopBegin \/ CommandEnds
  <2>1. UNCHANGED <<contVars, wdVars, procVars, scanVars, cut>>
    BY <1>4 DEF StartBegin, StopBegin, CommandEnds
  <2> QED
    BY <1>0, <2>1 DEF Past
<1>5. CASE StartRestarts \/ StopMode
  <2>1. PICK S \in SUBSET Procs : Signal(S)
    BY <1>5 DEF StartRestarts, StopMode
  <2>2. /\ waited' = {p \in waited : pst'[p] # "none"}
        /\ toscan' = {p \in toscan : pst'[p] # "none"}
        /\ UNCHANGED <<cont, late, lifecycle, cut>>
    BY <1>5 DEF StartRestarts, StopMode
  <2>3. \A p \in Procs : Past(p)' => Past(p) /\ pst'[p] # "none"
    BY <1>0, <2>1, Signals DEF Past
  <2> QED
    BY <1>0, <2>2, <2>3
<1>6. CASE Boot \/ Trap \/ AgentDies \/ DockerStop \/ Mark
  BY <1>0, <1>6 DEF Boot, Trap, AgentDies, DockerStop, Mark, Goes, Past
<1>7. CASE KillWatchdog
  BY <1>0, <1>7 DEF KillWatchdog, Goes, Past
<1>8. CASE Scan
  <2>1. PICK p \in toscan :
            /\ toscan' = toscan \ {p}
            /\ IF Visible(p)
               THEN Signal({p}) /\ waited' = IF pst'[p] = "none" THEN waited ELSE waited \cup {p}
               ELSE UNCHANGED <<procVars, waited>>
    BY <1>8 DEF Scan
  <2>2. cont = "scan" /\ UNCHANGED <<contVars, cut>> /\ p \in Procs
    BY <1>0, <1>8, <2>1 DEF Scan, TypeOK
  <2>3. CASE Visible(p)
    <3>1. \A q \in Procs : Past(q)' => Past(q) /\ pst'[q] # "none"
      BY <1>0, <2>1, <2>2, <2>3, Signals DEF Past
    <3> QED
      BY <1>0, <2>1, <2>2, <2>3, <3>1
  <2>4. CASE ~Visible(p)
    <3>1. ~Past(p) /\ \A q \in Procs : Past(q)' = Past(q)
      BY <2>1, <2>4 DEF Past, Visible
    <3> QED
      BY <1>0, <2>1, <2>2, <2>4, <3>1
  <2> QED
    BY <2>3, <2>4
<1>9. CASE Scanned \/ Ended \/ GivesUp
  BY <1>0, <1>9 DEF Scanned, Ended, GivesUp, Goes, Past
<1>10. CASE ExitAll
  <2>1. ~late => \A p \in Procs : pst[p] # "session"
    BY <1>10 DEF ExitAll, Past
  <2> QED
    BY <1>0, <1>10, <2>1 DEF ExitAll, Down
<1>11. CASE Kill
  BY <1>0, <1>11 DEF Kill, Down
<1>12. CASE UNCHANGED vars
  BY <1>0, <1>12 DEF Past
<1>13. CASE WatchdogStarts
  <2>1. missing \in Modes
    BY <1>0, <1>13 DEF WatchdogStarts, TypeOK
  <2> QED
    BY <1>3, <1>13, <2>1 DEF WatchdogStarts
<1>14. CASE StartMode
  <2>1. \E m \in Modes : Fork(m)
    BY <1>0, <1>14 DEF StartMode, TypeOK
  <2> QED
    BY <1>3, <1>14, <2>1 DEF StartMode
<1>15. CASE NetdataSpawns
  BY <1>3, <1>15 DEF NetdataSpawns
<1> QED
  BY <1>1, <1>2, <1>4, <1>5, <1>6, <1>7, <1>8, <1>9, <1>10, <1>11, <1>12, <1>13, <1>14, <1>15
  DEF Next, Watchdog, Operator, Entrypoint

\* "Forward shutdown to this container's exact plugin executables and wait for their
\* recording buffers" (docker/entrypoint.sh): no session is killed within the grace
\* period, whoever starts processes while PID 1 shuts down.
THEOREM CleanStopHolds == Spec => []CleanStop
<1>1. CleanInv => CleanStop
  BY DEF CleanInv
<1> QED
  BY InitClean, NextClean, <1>1, PTL DEF Spec

-----------------------------------------------------------------------------
LEMMA InitStop == Init => StopInv
BY InitFork DEF Init, StopInv

LEMMA NextStop == StopInv /\ [Next]_vars => StopInv'
<1> SUFFICES ASSUME StopInv, [Next]_vars PROVE StopInv'
  OBVIOUS
<1>1. ForkInv'
  BY NextFork DEF StopInv
<1>2. ASSUME NEW p \in Procs, Process(p) \/ Exit(p) PROVE StopInv'
  BY <1>1, <1>2, Moves DEF StopInv, ForkInv
<1>3. CASE Operator
  <2>1. CASE StartBegin \/ StartMode \/ StartRestarts
    BY <1>1, <2>1 DEF StartBegin, StartMode, StartRestarts, StopInv
  <2>2. CASE StopBegin
    <3>1. stopped' = FALSE
      BY <2>2 DEF StopBegin
    <3> QED
      BY <1>1, <3>1 DEF StopInv
  <2>4. CASE StopMode
    BY <1>1, <2>4 DEF StopMode, StopInv
  <2>3. CASE CommandEnds
    BY <1>1, <2>3 DEF CommandEnds, StopInv
  <2> QED
    BY <1>3, <2>1, <2>2, <2>3, <2>4 DEF Operator
<1>4. CASE Watchdog \/ NetdataSpawns
  BY <1>1, <1>4 DEF Watchdog, WatchdogWakes, WatchdogLooks, WatchdogStarts, WatchdogSleeps,
     NetdataSpawns, StopInv
<1>5. CASE Entrypoint
  BY <1>1, <1>5 DEF Entrypoint, Boot, Trap, AgentDies, DockerStop, Mark, KillWatchdog, Scan,
     Scanned, Ended, GivesUp, ExitAll, Kill, Down, Goes, StopInv
<1>6. CASE UNCHANGED vars
  BY <1>1, <1>6 DEF StopInv
<1> QED
  BY <1>2, <1>3, <1>4, <1>5, <1>6 DEF Next

\* A step out of the quiet is an operator's.
LEMMA StepStop ==
    ASSUME StopInv, [Next]_vars, Quiet
    PROVE  Quiet' \/ opc' # "idle"
<1> USE DEF Quiet
<1>0. TypeOK /\ marker /\ opc = "idle" /\ missing = None
  BY DEF StopInv, ForkInv
<1>1. ASSUME NEW p \in Procs, Process(p) \/ Exit(p) PROVE Quiet'
  BY <1>0, <1>1, Moves DEF TypeOK
<1>2. CASE Watchdog
  BY <1>0, <1>2 DEF Watchdog, WatchdogWakes, WatchdogLooks, WatchdogStarts, WatchdogSleeps
<1>3. CASE Operator
  BY <1>0, <1>3 DEF Operator, StartBegin, StartMode, StartRestarts, StopBegin, StopMode,
     CommandEnds
<1>4. CASE NetdataSpawns
  <2>1. Fork(Metrics) /\ Metrics \in Modes /\ Metrics \notin Sides
    BY <1>4, ModesAssumption DEF NetdataSpawns
  <2> QED
    BY <1>0, <1>4, <2>1, Forks DEF NetdataSpawns
<1>5. CASE Scan
  <2>1. \A p \in Procs : pst'[p] = pst[p] \/ pst'[p] = "none"
    <3>1. PICK p \in toscan : UNCHANGED procVars \/ Signal({p})
      BY <1>5 DEF Scan
    <3>2. {p} \in SUBSET Procs
      BY <1>0, <3>1 DEF TypeOK
    <3> QED
      BY <1>0, <3>1, <3>2, Signals
  <2>2. mode' = mode /\ UNCHANGED <<wdVars, opVars>>
    BY <1>5 DEF Scan, Signal
  <2> QED
    BY <2>1, <2>2
<1>6. CASE ExitAll \/ Kill
  BY <1>6 DEF ExitAll, Kill, Down
<1>7. CASE Boot \/ Trap \/ AgentDies \/ DockerStop \/ Mark \/ KillWatchdog \/ Scanned \/ Ended
           \/ GivesUp
  BY <1>7 DEF Boot, Trap, AgentDies, DockerStop, Mark, KillWatchdog, Scanned, Ended, GivesUp,
     Goes
<1>8. CASE UNCHANGED vars
  BY <1>8
<1> QED
  BY <1>1, <1>2, <1>3, <1>4, <1>5, <1>6, <1>7, <1>8 DEF Next, Entrypoint

\* "A restart cannot undo a deliberate stop" (docker/entrypoint.sh): telemetry that is
\* quiet stays so until the operator's next command, through any number of restarts.
THEOREM StopKept == Spec => StopHolds
<1>1. StopInv /\ [Next]_vars => [Quiet => Quiet' \/ opc' # "idle"]_vars
  BY StepStop
<1> QED
  BY InitStop, NextStop, <1>1, PTL DEF Spec, StopHolds
=============================================================================
