-------------------------------- MODULE Host --------------------------------
(***************************************************************************)
(* The local install (sim-console/src/provision.rs): without docker a fleet *)
(* goes into the agent of the host itself. The console copies files under   *)
(* a running plugin and stops processes by path; netdata starts the plugin  *)
(* that it finds, starts one again that has exited cleanly, and disables    *)
(* one that was killed or that failed before it had collected anything      *)
(* (comments at provision.rs:628 and :2016). A fleet, and the build that is *)
(* installed with it, is the number of its create.                          *)
(***************************************************************************)
EXTENDS Naturals, FiniteSets

CONSTANTS
    MaxCreates, MaxTeardowns,   \* bounds of the model
    Apart                       \* nobody tears down while a create runs, or the reverse

ASSUME HostBounds == MaxCreates \in Nat /\ MaxTeardowns \in Nat
ASSUME HostFlags == Apart \in BOOLEAN

VARIABLES
    creates, cpc, cres,                   \* the create: its number, control, result
    teardowns, tpc, clean, hosts, tres,   \* the teardown, and what it reports
    saw,                                  \* history: it took the file from a plugin that had loaded
    dir, env, bin, archived,              \* the install directory, environment.yaml, the plugin's file
    disabled, proc,                       \* the agent's flag, with its cause; the plugin's process
    jobs, vnodes, theirs, god,            \* go.d's files, which of them an operator wrote, what it read
    exporter, writer, journals            \* the processes beside the plugin, the journal files

createVars == <<creates, cpc, cres>>
teardownVars == <<teardowns, tpc, clean, hosts, tres, saw>>
diskVars == <<dir, env, bin, archived>>
agentVars == <<disabled, proc>>
godVars == <<jobs, vnodes, theirs, god>>
sideVars == <<exporter, writer, journals>>
vars == <<createVars, teardownVars, diskVars, agentVars, godVars, sideVars>>

Fleets == 1..MaxCreates
None == 0
Foreign == MaxCreates + 1

\* Why the agent has the plugin disabled: not at all, a load that failed, a kill by a create;
\* or by a teardown, as its number.
No == 0
ByLoad == MaxTeardowns + 1
ByCreate == MaxTeardowns + 2

\* environment.yaml is copied and then rewritten in place, each by emptying and filling it.
NoEnv == [fleet |-> None, phase |-> 0]
Envs == [fleet : Fleets, phase : 1..4] \cup {NoEnv}
Whole(e) == e.phase \in {2, 4}

NoProc == [pc |-> "none", bin |-> None, fleet |-> None, stamp |-> NoEnv, own |-> FALSE,
           term |-> FALSE]
Procs == [pc : {"none", "forked", "exec", "handled", "loaded", "running"}, bin : Fleets \cup {None},
          fleet : Fleets \cup {None}, stamp : Envs, own : BOOLEAN, term : BOOLEAN]

Copying == {"specs", "empty", "fill", "reempty", "refill", "rename", "stop"}
Enabling == {"guard", "vnodes", "jobs", "spec", "old", "spawn", "reload"}
Removing == {"logs", "journals", "exporters", "conf", "dir"}

TypeOK ==
    /\ creates \in 0..MaxCreates
    /\ cpc \in {"idle", "write", "lint", "check", "disable"} \cup Copying \cup Enabling
    /\ cres \in {"none", "refused", "handed", "failed", "broken", "ok", "scraped"}
    /\ teardowns \in 0..MaxTeardowns /\ clean \in BOOLEAN /\ hosts \in Fleets \cup {None}
    /\ tpc \in {"idle", "archive", "disarm", "remove", "wait", "kill", "again"} \cup Removing
    /\ tres \in {"none", "stopped", "unconfirmed", "done", "left"} /\ saw \in BOOLEAN
    /\ dir \in BOOLEAN /\ env \in Envs /\ bin \in Fleets \cup {None}
    /\ archived \subseteq Envs
    /\ disabled \in {No, ByLoad, ByCreate} \cup (1..MaxTeardowns)
    /\ proc \in Procs
    /\ jobs \in Fleets \cup {None, Foreign} /\ vnodes \in Fleets \cup {None, Foreign}
    /\ theirs \subseteq {"jobs", "vnodes"} /\ god \in Fleets \cup {None, Foreign}
    /\ exporter \in [Fleets -> {"off", "starting", "serving", "stopping"}]
    /\ writer \in [fleet : Fleets \cup {None}, open : BOOLEAN, term : BOOLEAN]
    /\ journals \subseteq Fleets

NoWriter == [fleet |-> None, open |-> FALSE, term |-> FALSE]

HostInit ==
    /\ creates = 0 /\ cpc = "idle" /\ cres = "none"
    /\ teardowns = 0 /\ tpc = "idle" /\ clean = FALSE /\ hosts = None /\ tres = "none"
    /\ saw = FALSE
    /\ dir = FALSE /\ env = NoEnv /\ bin = None /\ archived = {}
    /\ disabled = No /\ proc = NoProc
    /\ theirs \in SUBSET {"jobs", "vnodes"} /\ god = None
    /\ jobs = (IF "jobs" \in theirs THEN Foreign ELSE None)
    /\ vnodes = (IF "vnodes" \in theirs THEN Foreign ELSE None)
    /\ exporter = [f \in Fleets |-> "off"] /\ writer = NoWriter /\ journals = {}

-----------------------------------------------------------------------------
(* The agent and its plugin *)

Visible == proc.pc \notin {"none", "forked"}

\* The agent finds the file at its scan; what it then executes may be gone, or another. That
\* nothing could be executed may count with the agent as an exit with an error.
Launch ==
    /\ disabled = No /\ bin # None /\ proc.pc = "none"
    /\ proc' = [NoProc EXCEPT !.pc = "forked"]
    /\ UNCHANGED <<createVars, teardownVars, diskVars, disabled, godVars, sideVars>>

Exec ==
    /\ proc.pc = "forked"
    /\ IF bin = None THEN proc' = NoProc /\ disabled' \in {No, ByLoad}
       ELSE proc' = [proc EXCEPT !.pc = "exec", !.bin = bin] /\ UNCHANGED disabled
    /\ UNCHANGED <<createVars, teardownVars, diskVars, godVars, sideVars>>

Handles ==
    /\ proc.pc = "exec" /\ proc' = [proc EXCEPT !.pc = "handled"]
    /\ UNCHANGED <<createVars, teardownVars, diskVars, disabled, godVars, sideVars>>

\* A file that is empty or gone ends the process with an error, before it has collected.
Load ==
    /\ proc.pc = "handled"
    /\ IF Whole(env)
       THEN proc' = [proc EXCEPT !.pc = "loaded", !.fleet = env.fleet] /\ UNCHANGED disabled
       ELSE proc' = NoProc /\ disabled' = ByLoad
    /\ UNCHANGED <<createVars, teardownVars, diskVars, godVars, sideVars>>

\* The path of its own file, if it is there, and the stamp: both are taken after the load.
Stamps ==
    /\ proc.pc = "loaded"
    /\ proc' = [proc EXCEPT !.pc = "running", !.stamp = env, !.own = bin # None]
    /\ UNCHANGED <<createVars, teardownVars, diskVars, disabled, godVars, sideVars>>

MustExit(p) == p.term \/ (p.own /\ bin = None) \/ p.stamp # env

Tick ==
    /\ proc.pc = "running"
    /\ MustExit(proc) /\ proc' = NoProc
    /\ UNCHANGED <<createVars, teardownVars, diskVars, disabled, godVars, sideVars>>

\* kill <pid> to every process whose argv[0] is the plugin's path.
StopPlugin(cause) ==
    IF proc.pc = "exec" THEN proc' = NoProc /\ disabled' = cause
    ELSE /\ UNCHANGED disabled
         /\ IF Visible THEN proc' = [proc EXCEPT !.term = TRUE] ELSE UNCHANGED proc

PluginNext == Launch \/ Exec \/ Handles \/ Load \/ Stamps \/ Tick

-----------------------------------------------------------------------------
(* go.d, the exporters, the logs writer *)

\* netdata starts go.d again; it reads the registry of vnodes once.
GoDStarts ==
    /\ god = None /\ vnodes # None /\ god' = vnodes
    /\ UNCHANGED <<createVars, teardownVars, diskVars, agentVars, jobs, vnodes, theirs, sideVars>>

\* An exporter that finds the port taken ends with an error that nobody sees.
Binds(f) ==
    /\ exporter[f] = "starting"
    /\ exporter' = [exporter EXCEPT ![f] =
            IF \E g \in Fleets : exporter[g] \in {"serving", "stopping"} THEN "off" ELSE "serving"]
    /\ UNCHANGED <<createVars, teardownVars, diskVars, agentVars, godVars, writer, journals>>

Stops(f) ==
    /\ exporter[f] = "stopping" /\ exporter' = [exporter EXCEPT ![f] = "off"]
    /\ UNCHANGED <<createVars, teardownVars, diskVars, agentVars, godVars, writer, journals>>

StopExporters ==
    exporter' = [f \in Fleets |->
        CASE exporter[f] = "serving" -> "stopping" [] exporter[f] = "starting" -> "off"
          [] OTHER -> exporter[f]]

\* An operator starts the logs writer by hand, once the fleet is there. A journal file is
\* made with the first entry, and one that is deleted while it is open stays deleted.
WriterStarts ==
    /\ writer = NoWriter /\ Whole(env) /\ cpc = "idle"
    /\ writer' = [NoWriter EXCEPT !.fleet = env.fleet]
    /\ UNCHANGED <<createVars, teardownVars, diskVars, agentVars, godVars, exporter, journals>>

WriterWrites ==
    /\ writer # NoWriter /\ ~writer.open
    /\ writer' = [writer EXCEPT !.open = TRUE]
    /\ journals' = journals \cup {writer.fleet}
    /\ UNCHANGED <<createVars, teardownVars, diskVars, agentVars, godVars, exporter>>

WriterEnds ==
    /\ writer # NoWriter /\ (writer.term \/ env.fleet # writer.fleet \/ ~Whole(env))
    /\ writer' = NoWriter
    /\ UNCHANGED <<createVars, teardownVars, diskVars, agentVars, godVars, exporter, journals>>

SideNext ==
    \/ GoDStarts \/ WriterStarts \/ WriterWrites \/ WriterEnds
    \/ \E f \in Fleets : Binds(f) \/ Stops(f)

-----------------------------------------------------------------------------
(* create *)

Create ==
    /\ cpc = "idle" /\ creates < MaxCreates /\ ~(Apart /\ tpc # "idle")
    /\ creates' = creates + 1 /\ cpc' = "write" /\ cres' = "none"
    /\ UNCHANGED <<teardownVars, diskVars, agentVars, godVars, sideVars>>

EndsWith(r) == cpc' = "idle" /\ cres' = r /\ UNCHANGED creates
GoOn(c) == cpc' = c /\ UNCHANGED <<creates, cres>>

\* A name, role, service or label that is not valid, or GUIDs that another file has.
Refuse ==
    /\ cpc = "write" /\ EndsWith("refused")
    /\ UNCHANGED <<teardownVars, diskVars, agentVars, godVars, sideVars>>

\* With docker, sim-docker.sh takes the written file from here (Lifecycle).
HandOver ==
    /\ cpc = "write" /\ EndsWith("handed")
    /\ UNCHANGED <<teardownVars, diskVars, agentVars, godVars, sideVars>>

Write ==
    /\ cpc = "write" /\ GoOn("lint")
    /\ UNCHANGED <<teardownVars, diskVars, agentVars, godVars, sideVars>>

Lint ==
    /\ cpc = "lint" /\ (GoOn("specs") \/ EndsWith("failed"))
    /\ UNCHANGED <<teardownVars, diskVars, agentVars, godVars, sideVars>>

CopySpecs ==
    /\ cpc = "specs" /\ GoOn("empty") /\ dir' = TRUE
    /\ UNCHANGED <<teardownVars, env, bin, archived, agentVars, godVars, sideVars>>

\* The text names the checkout by absolute paths, so that the rewrite leaves it as it is.
PutEnv(c, phase, next) ==
    /\ cpc = c /\ dir /\ GoOn(next) /\ env' = [fleet |-> creates, phase |-> phase]
    /\ UNCHANGED <<teardownVars, dir, bin, archived, agentVars, godVars, sideVars>>

CopyEnv == PutEnv("empty", 1, "fill") \/ PutEnv("fill", 2, "reempty")
RewriteEnv == PutEnv("reempty", 3, "refill") \/ PutEnv("refill", 4, "rename")

Rename ==
    /\ cpc = "rename" /\ GoOn("stop") /\ bin' = creates
    /\ UNCHANGED <<teardownVars, dir, env, archived, agentVars, godVars, sideVars>>

StopsNothing ==
    /\ cpc = "stop" /\ GoOn("check")
    /\ UNCHANGED <<teardownVars, diskVars, agentVars, godVars, sideVars>>

StopPrevious ==
    /\ cpc = "stop" /\ GoOn("check") /\ StopPlugin(ByCreate)
    /\ UNCHANGED <<teardownVars, diskVars, godVars, sideVars>>

\* The lint of the installed copy: its plugin is in place already when it fails.
Check ==
    /\ cpc = "check"
    /\ \/ Whole(env) /\ (GoOn("guard") \/ GoOn("disable"))
       \/ EndsWith("broken")
    /\ UNCHANGED <<teardownVars, diskVars, agentVars, godVars, sideVars>>

CreateFails ==
    /\ cpc \in Copying /\ EndsWith("failed")
    /\ UNCHANGED <<teardownVars, diskVars, agentVars, godVars, sideVars>>

-----------------------------------------------------------------------------
(* exporters::enable, and disable *)

\* Mutant: it is the other file that is looked at.
GuardVnodes ==
    /\ cpc = "guard" /\ (IF vnodes = Foreign THEN EndsWith("ok") ELSE GoOn("vnodes"))
    /\ UNCHANGED <<teardownVars, diskVars, agentVars, godVars, sideVars>>

\* The guard looks at go.d's file alone; a registry of vnodes that an operator wrote is
\* overwritten behind it.
Guard ==
    /\ cpc = "guard" /\ (IF jobs = Foreign THEN EndsWith("ok") ELSE GoOn("vnodes"))
    /\ UNCHANGED <<teardownVars, diskVars, agentVars, godVars, sideVars>>

WriteVnodes ==
    /\ cpc = "vnodes" /\ GoOn("jobs") /\ vnodes' = creates
    /\ UNCHANGED <<teardownVars, diskVars, agentVars, jobs, theirs, god, sideVars>>

WriteJobs ==
    /\ cpc = "jobs" /\ GoOn("spec") /\ jobs' = creates
    /\ UNCHANGED <<teardownVars, diskVars, agentVars, vnodes, theirs, god, sideVars>>

CopySpec ==
    /\ cpc = "spec" /\ dir /\ GoOn("old")
    /\ UNCHANGED <<teardownVars, diskVars, agentVars, godVars, sideVars>>

StopOld ==
    /\ cpc = "old" /\ GoOn("spawn") /\ StopExporters
    /\ UNCHANGED <<teardownVars, diskVars, agentVars, godVars, writer, journals>>

\* The new one is started without a wait for the old one to be gone.
Spawn ==
    /\ cpc = "spawn" /\ dir /\ GoOn("reload")
    /\ exporter' = [exporter EXCEPT ![creates] = "starting"]
    /\ UNCHANGED <<teardownVars, diskVars, agentVars, godVars, writer, journals>>

ReloadGoD ==
    /\ cpc = "reload" /\ EndsWith("scraped") /\ god' = None
    /\ UNCHANGED <<teardownVars, diskVars, agentVars, jobs, vnodes, theirs, sideVars>>

\* A step of it that fails becomes a note of a create that has succeeded.
NotEnabled ==
    /\ cpc \in Enabling \ {"reload"} /\ EndsWith("ok")
    /\ UNCHANGED <<teardownVars, diskVars, agentVars, godVars, sideVars>>

\* Only files that begin with the marker are removed, and nobody asks whether they were.
RemoveConf ==
    /\ jobs' \in {jobs, IF jobs \in Fleets THEN None ELSE jobs}
    /\ vnodes' \in {vnodes, IF vnodes \in Fleets THEN None ELSE vnodes}
    /\ UNCHANGED <<theirs, god>>

Disable ==
    /\ cpc = "disable" /\ EndsWith("ok") /\ StopExporters /\ RemoveConf
    /\ UNCHANGED <<teardownVars, diskVars, agentVars, writer, journals>>

CreateNext ==
    \/ Create \/ Refuse \/ HandOver \/ Write \/ Lint \/ CopySpecs \/ CopyEnv \/ RewriteEnv \/ Rename
    \/ StopPrevious \/ Check \/ CreateFails \/ Guard \/ WriteVnodes \/ WriteJobs \/ CopySpec
    \/ StopOld \/ Spawn \/ ReloadGoD \/ NotEnabled \/ Disable

-----------------------------------------------------------------------------
(* teardown *)

Proceed(t) == tpc' = t /\ UNCHANGED <<teardowns, clean, hosts, tres, saw>>
Returns(r) ==
    tpc' = "idle" /\ tres' = r /\ clean' = FALSE /\ saw' = FALSE /\ UNCHANGED <<teardowns, hosts>>

Teardown ==
    /\ tpc = "idle" /\ teardowns < MaxTeardowns /\ Whole(env) /\ ~(Apart /\ cpc # "idle")
    /\ teardowns' = teardowns + 1 /\ tpc' = "archive" /\ tres' = "none"
    /\ UNCHANGED <<clean, hosts, saw>>
    /\ UNCHANGED <<createVars, diskVars, agentVars, godVars, sideVars>>

ArchiveIgnored ==
    /\ tpc = "archive" /\ Proceed("disarm")
    /\ archived' \in {archived, archived \cup {env}}
    /\ UNCHANGED <<createVars, dir, env, bin, agentVars, godVars, sideVars>>

\* Every file is copied or nothing is changed, and the plugin's file is one of them.
Archive ==
    /\ tpc = "archive"
    /\ \/ /\ Proceed("disarm") /\ Whole(env) /\ bin # None /\ dir
          /\ archived' = archived \cup {env}
       \/ Returns("stopped") /\ UNCHANGED archived
    /\ UNCHANGED <<createVars, dir, env, bin, agentVars, godVars, sideVars>>

Disarm ==
    /\ tpc = "disarm" /\ (Proceed("remove") \/ Returns("stopped"))
    /\ UNCHANGED <<createVars, diskVars, agentVars, godVars, sideVars>>

\* The file goes, or cannot be removed, and then the process is waited for all the same.
RemovePlugin ==
    /\ tpc = "remove" /\ tpc' = "wait" /\ bin' \in {None, bin}
    /\ saw' = (bin' = None /\ proc.pc \in {"loaded", "running"})
    /\ UNCHANGED <<teardowns, clean, hosts, tres>>
    /\ UNCHANGED <<createVars, dir, env, archived, agentVars, godVars, sideVars>>

\* Four seconds for the plugin to see that its file is gone, or else a kill.
Waited ==
    /\ tpc = "wait"
    /\ CASE Visible -> Proceed("kill")
         [] ~Visible /\ bin # None -> Returns("unconfirmed")
         [] OTHER -> tpc' = "logs" /\ clean' = TRUE /\ UNCHANGED <<teardowns, hosts, tres, saw>>
    /\ UNCHANGED <<createVars, diskVars, agentVars, godVars, sideVars>>

Kill ==
    /\ tpc = "kill" /\ Proceed("again") /\ StopPlugin(teardowns)
    /\ UNCHANGED <<createVars, diskVars, godVars, sideVars>>

WaitedTrusts ==
    /\ tpc = "again" /\ (IF Visible THEN Returns("unconfirmed") ELSE Proceed("logs"))
    /\ UNCHANGED <<createVars, diskVars, agentVars, godVars, sideVars>>

WaitedAgain ==
    /\ tpc = "again" /\ (IF Visible \/ bin # None THEN Returns("unconfirmed") ELSE Proceed("logs"))
    /\ UNCHANGED <<createVars, diskVars, agentVars, godVars, sideVars>>

\* A writer is found by the name of its executable, and not any more when a new build has
\* taken its place.
StopLogs ==
    /\ tpc = "logs"
    /\ tpc' = "journals" /\ hosts' = env.fleet /\ UNCHANGED <<teardowns, clean, tres, saw>>
    /\ writer' \in {writer, IF writer = NoWriter THEN writer ELSE [writer EXCEPT !.term = TRUE]}
    /\ UNCHANGED <<createVars, diskVars, agentVars, godVars, exporter, journals>>

\* A file that cannot be removed is not counted, and the step is reported as done.
RemoveJournals ==
    /\ tpc = "journals" /\ tpc' = "exporters" /\ hosts' = None
    /\ journals' \in {journals, journals \ {hosts}}
    /\ UNCHANGED <<teardowns, clean, tres, saw>>
    /\ UNCHANGED <<createVars, diskVars, agentVars, godVars, exporter, writer>>

TakesExportersDown ==
    /\ tpc = "exporters" /\ Proceed("conf") /\ StopExporters
    /\ UNCHANGED <<createVars, diskVars, agentVars, godVars, writer, journals>>

TakesConfBack ==
    /\ tpc = "conf" /\ Proceed("dir") /\ RemoveConf
    /\ UNCHANGED <<createVars, diskVars, agentVars, sideVars>>

\* The directory goes, or a removal that fails half way leaves it, with the environment or
\* without. The step before it, which has the agent forget the nodes, changes nothing here.
RemoveDir ==
    /\ tpc = "dir"
    /\ \/ Returns("done") /\ dir' = FALSE /\ env' = NoEnv
       \/ Returns("left") /\ dir /\ UNCHANGED dir /\ env' \in {env, NoEnv}
    /\ UNCHANGED <<createVars, bin, archived, agentVars, godVars, sideVars>>

TeardownNext ==
    \/ Teardown \/ Archive \/ Disarm \/ RemovePlugin \/ Waited \/ Kill \/ WaitedAgain \/ StopLogs
    \/ RemoveJournals \/ TakesExportersDown \/ TakesConfBack \/ RemoveDir

Quiet ==
    /\ cpc = "idle" /\ creates = MaxCreates /\ tpc = "idle"
    /\ (teardowns = MaxTeardowns \/ ~Whole(env))
    /\ UNCHANGED vars

HostNext == PluginNext \/ SideNext \/ CreateNext \/ TeardownNext \/ Quiet

\* The agent rescans every 60 seconds, and a process of it goes on.
HostSpec == HostInit /\ [][HostNext]_vars /\ WF_vars(PluginNext)

-----------------------------------------------------------------------------
(* Properties *)

\* A teardown is past its check that the plugin is gone, and nothing has been installed since.
PastRemoval == tpc \in Removing \/ (tres \in {"done", "left"} /\ env = NoEnv)

\* What a teardown reports as removed and stopped neither runs nor comes back.
Stopped == PastRemoval => bin = None /\ ~Visible

\* "the plugin saw that and exited cleanly, so the agent keeps it enabled and will start the
\* next fleet on its own" (provision.rs:2035): so it is of a plugin that had loaded when its
\* file was taken. The teardown says it as well where no plugin ran, or one that was still
\* to load: see CleanAlways.
HonestClean == clean /\ saw => disabled = No

\* By hand: the same of every plugin; the agent may have it disabled since an earlier create
\* killed it or a load failed.
CleanAlways == clean => disabled = No

\* A fleet that a create has reported as installed comes to run, as it was written and from
\* its own build, unless the agent has the plugin disabled or another request takes over.
Launched ==
    \A f \in Fleets :
        (creates = f /\ cres \in {"ok", "scraped"} /\ tpc = "idle" /\ tres = "none")
            ~> \/ proc.pc = "running" /\ proc.bin = f /\ proc.fleet = f /\ proc.stamp = env
               \/ disabled # No \/ creates > f \/ tpc # "idle"

\* A go.d file that an operator wrote is neither overwritten nor removed, and where there is
\* one the operator's registry of vnodes stays too: it is looked for before either is written
\* (provision.rs:804). The registry alone is overwritten: see OperatorsKeptAlways.
OperatorsKept ==
    "jobs" \in theirs => jobs = Foreign /\ ("vnodes" \in theirs => vnodes = Foreign)

\* By hand: "Its absence in an existing file means an operator wrote it, and it is not ours to
\* overwrite" (provision.rs:783), of each file.
OperatorsKeptAlways ==
    /\ "jobs" \in theirs => jobs = Foreign
    /\ "vnodes" \in theirs => vnodes = Foreign

\* What a teardown says, of the processes and of how they ended, is so.
TeardownHonest == Stopped /\ HonestClean

\* What an operator's go.d file guards is left alone, and nothing of the simulation is deleted
\* that has not been archived.
NothingDestroyed == [][OperatorsKept' /\ (env # NoEnv /\ env' = NoEnv => env \in archived)]_vars

\* By hand: "one button, and it has to leave nothing behind" (runtime-and-scenarios.md:370).
NothingLeft ==
    tres = "done" /\ tpc = "idle" /\ cpc = "idle" /\ writer = NoWriter
        => journals = {} /\ jobs \notin Fleets /\ vnodes \notin Fleets

=============================================================================
