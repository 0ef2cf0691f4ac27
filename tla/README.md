# Formal models of infra-sim

infra-sim simulates fleets of hosts for a real Netdata agent. A Rust plugin
inside the agent emits metrics, journal logs, OTLP and exporter endpoints; a web
console and a set of scripts create, drive and tear down such simulations, each
of which is one docker container with one payload directory, or, without docker,
an installation in the host's own agent. This directory holds TLA+ models of the
parts of it that run concurrently and have to survive failures, and of its
algorithms, the TLC instances that check them, and proofs for TLAPS.

A model keeps the control of the code, every state change, guard, early return
and error path in their order, and abstracts data: a chunk of output is a
number, a scenario's name is a model value, a file is the entries that it
spells, a word of a description is a member of a small set. `PROJECT.json` maps
every definition to the source lines it stands for.

## Inventory

| part | state | operations | modules |
|---|---|---|---|
| Raw output recording: `sim-engine/recording.rs` | a directory: manifest, `events.bin`, committed length, `incomplete`, `finalized`, `append.lock`; in each process the channel, the pending bytes, the failed flag | open, write, capture, writer thread, drop, status, read, finalize | Recording, RecordingContract |
| Scenario control file: `sim-engine/control_file.rs`, `sim-plugin/control.rs`, `control_file.py`, `scenario.sh` | `control.yaml`; in each plugin process the last mtime, the start times it chose, the active entries | trigger, resolve, resolve-all, advance, poll | Control |
| Create queue and budgets: `sim-console/main.rs`, `budget.rs` | tickets, a fair semaphore of one slot, progress entries, live simulations | create, hang-up, teardown | CreateQueue |
| Life cycle of a simulation: `sim-docker.sh`, `sim-console/main.rs` | the container, its payload, the pinned marker, the archives | create, pin, sweep, teardown | Lifecycle |
| Supervision of producers: `entrypoint.sh`, `sim-docker.sh telemetry`, `sim-plugin/shutdown.rs` | the processes of a container, the lifecycle file, the stop marker | watchdog round, telemetry start and stop, TERM, restart | Supervisor |
| Re-skin and label edits: `sim-console/provision.rs`, `sim-engine/reskin.rs` | `environment.yaml`, the console's copies | re-skin, apply labels | Reskin |
| Plugin main loop, environments, emitter: `sim-plugin/main.rs` | profiles, handshake times, environment stamp | start, reload, reassert, stop | Reskin, Supervisor, Host; what it computes: Specs, Engine, Scenarios |
| Exporters and go.d's jobs: `exporters.rs`, `exporter_config.rs` | the names each has read, whether a job has had an answer | serve, define | Reskin, Live |
| Log and OTLP emitters: `logs_runtime.rs`, `otlp_runtime.rs` | a receiver process per journal file; failures in a row of each signal | tick, send, give up, end | Live |
| Replay: `replay.rs` | the reader of a recording; receivers, requests, clients | one loop each for metrics, journals, OTLP, exporters | Replay |
| Local install: `sim-console/provision.rs` (`create`, `teardown`, `exporters`) | the install directory, the plugin's file, go.d's files, the archive; the agent's processes | create, enable exporters, teardown | Host |
| Scenarios: `sim-spec/scenario.rs`, `sim-engine/scenario_runtime.rs`, `warmup.rs`, the lint in `sim-plugin/main.rs` | the active entries and the clock | effects, selectors, recovery, lint, warm-up rotation | Scenarios |
| Specification language: `sim-spec/lib.rs`, the composition in `sim-plugin/main.rs` | none | overlay, merge, roles, validation | Specs |
| Metric engine, its log rules and lint: `sim-engine/lib.rs`, `logs.rs`, `fidelity.rs` | counters, values remembered within a tick; what the lint has seen | plan, tick, lines, check | Engine |
| Authoring: `sim-engine/describe.rs`, `llm.rs`, the requests in `provision.rs`, `describe` of the plugin | the form, the directory of environments | read, scale, validate, name, write | Reading, Fleet |
| Fleet agents' connections: `sim-console/main.rs` | what the inventory says of each container | list | what sweep and queue take from it: Lifecycle, CreateQueue |
| Preflight, host installer, console page, data | | | not modelled |

How they interact. The console runs `sim-docker.sh` as a child process and
otherwise only reads docker and files; a person runs the same script by hand.
Console and scripts write `control.yaml`; every plugin process polls it. The
console rewrites a running simulation's `environment.yaml`; collector and logs writer
compare its stamp at each tick and exit, to be started again with it. go.d asks the
exporters for the hostnames that it read at its own start. The
entrypoint's watchdog, the operator's `docker exec` and netdata start plugin
processes; each of them opens a session of the recording, which they share
through a lock file. `teardown` stops the container, so that PID 1 stops the
producers, copies the payload, finalizes the copy's recording, and deletes. A
finalized recording is what a replay delivers. The local install does with
files and process paths under `/etc/netdata` what the container does with an
image. A description becomes groups, the groups a form, the form an
environment, whose nodes each name a base and services; out of those the plugin
composes one specification per node, and every tick samples it under the
perturbations that the active scenarios give.

What is hard about it. Nearly all coordination is by files, names and signals,
without a common lock: several processes append to one recording and may die at
any byte; four programs with three parsers rewrite one control file in place;
processes poll what others write; a handler may be dropped at an await when its
caller hangs up; a script may be killed between any two commands, while another
one works on the same name; a watchdog revives what an operator stops; an
installation is put under a plugin that runs. And several algorithms have to
agree that were written apart: the lint of a scenario with the runtime, a log
line with the charts, the GUIDs of one file with those of all others.

What makes each part correct:

* Recording: what is in the file is exact; what is called complete is complete;
  finalized is final; recording never blocks telemetry nor a stop.
* Control: an edit changes what it says and nothing else; timelines are kept;
  a resolve unwinds rather than removes; each process follows the file.
* CreateQueue: one build at a time, within the budget, whoever hangs up;
  everybody is served; the position shown is honest.
* Lifecycle: no recording is lost by a failed or repeated teardown; a pin holds;
  a name starts afresh; what has expired goes in the end.
* Supervisor: a stop of the container cuts no recording; a deliberate stop
  holds; what nobody stopped comes back.
* Reskin: what is edited reaches the fleet; labels win over go.d's bare nodes; charts
  that were scraped are scraped again after stops and restarts.
* Live and Replay: a receiver is given again what it was given, in order, and
  success means that nothing was left out.
* Host: a teardown says only what is so and destroys nothing that it has not
  archived; an installed fleet comes to run.
* Scenarios: what the lint says of a scenario is what it does; a resolved one
  leaves nothing behind; the warm-up stays in its slot.
* Specs and Engine: every author's words survive the composition; all that
  shows a signal shows one value of it; accepted specifications lint clean.
* Reading and Fleet: nothing asked for is lost on the way to a file; two nodes
  never share an identity, and a node keeps its own.

`PROJECT.json` lists the hazards behind these, line by line, with the
properties that cover each, and says of the others why nothing covers them.

## The modules

    RecordingContract        Live            Specs      Reading
           ^ implements        ^ EXTENDS       ^          ^
        Recording           Replay           Engine     Fleet

    Control   CreateQueue   Lifecycle   Supervisor   Reskin   Host   Scenarios

Each line of modules stands by itself; an `MC...` module gives the constants
values, and a `...Proofs` module holds the theorems about the module it is named
after. ReplayProofs has those about Live too, ConsoleProofs those about what the console
does with a request (CreateQueue, Fleet and Reading), EngineProofs those about the plugin's
engine and its loop on a host (Engine, Specs and Host).

### Recording, RecordingContract

A session is a producer process from its opening of the directory to its end.
A frame is named by its place in the channel of its session, so `events`, the
content of `events.bin`, is a sequence of pairs `<<session, number>>`, and
"exactly once, in order" can be said without payloads. `committed` is the
length in frames that manifest and commit file agree on; `torn` says that part
of a frame is behind the last whole one.

| code | actions |
|---|---|
| `Recorder::open_expected` | OpenTimeout, OpenLock, OpenCreate, OpenFailed, OpenStart, OpenStarted |
| `RecordedWriter::write`, `flush` | Emit, EmitFails |
| `Recorder::capture` | CaptureCheck, CaptureReserve, CaptureOver, CaptureSend, CaptureUnsent, CaptureMark, CaptureMarker |
| `Shared::run_writer`, `write_batch` | WriterGather, WriteLock, WriteTimeout, WriteFrame, WriteFrameFails, WriteCommit, WriteCommitFails, WriteMark, WriteMarker, WriterDone, WriterDies |
| `Recorder::drop` | Drop, DropSender, DropJoin |
| `status`, `verify`, `finalize` | Complete, VerifyReason, FinalizeLock, FinalizeVerify, FinalizeSeal |

A process may crash between any two of these. A writer thread may also die alone where it
reports a failure, with a panic of `eprintln!` (`WriterDies`); what its channel holds then goes
unwritten, and a capture that cannot send gives its reservation back (`CaptureUnsent`). RecordingContract is the abstract
specification: output is emitted, some of it is kept, and the verdict goes from
open to complete, only when everything is kept, or to incomplete, for good; a complete
one may still be withdrawn.
`KeepsContract` says that Recording implements it.

Bounds: `MaxOutputs` chunks per session; `Cap`, `MaxPending` and `MaxBatch` are
limits of the code, in frames rather than bytes, made small so that each is hit.

### Control

Two kinds of actions: a client's request, in which the load and the two halves
of the save (the file is emptied, then filled) are separate steps, and a
consumer's poll, in which the look at the mtime and the reading are. The four
kinds of client differ as the four programs do: what they parse (the flow or
the block style, `null`), what they drop, what they write. A write may leave the mtime
where it was (`Stamp`), as two within a tick of the file system's clock do. Who remembers it will
not read what was written: `raced` are the processes that this has happened to, until they read again.
`NextTick` and `PickedUp` except them, and MCControlReads shows that they have to. A process may
also read between the halves of a save, find no entry and forget the start time that it gave one, so
that the next read starts the fault again: `EditKeepsStart` excepts a read of the emptied file and
nothing else, and MCControlReads also shows the restart. `OneAtATime` keeps
requests apart; `Mortal` clients may die while they write. Filling an emptied file is one step: texts of two writers that
are mixed byte by byte are left out, except for what a longer one leaves behind.

### CreateQueue

A handler and the blocking task it spawns are two processes. The handler may be
dropped, when its caller hangs up, at each of its awaits; the task goes on. The
semaphore is tokio's, which serves in order (`Release`). `live` is the number of
containers, counted before the wait and again after it.

### Lifecycle

One name. Every command of `create` and of `teardown` is a step, and between any
two a teardown may fail (`MaxFails`). A container that was created before its
payload's directory was deleted writes into a directory that no name reaches
(`mounted`). A producer that dies, or has its disk full, between the manifest of a recording and
its first committed length (`HalfMade`, and `DeletePart`, which may leave the same) makes it `broken`:
`FinalizeCopy` then fails for every teardown, by a person or the sweep, and `Swept`, which holds however
often teardowns fail otherwise, excepts it (MCLifecycleAlways). Pins come at any time. The sweep works from
an inventory, so one that comes after it is not seen: `overtaken` says that the name was pinned, or created anew, since the
sweep looked. `PinnedKept` is about everything else, as a pin after a teardown of the sweep that failed,
or beside a person's teardown that the sweep runs into; MCLifecycleAlways shows the pin that comes too late. `CreateApart` is an
assumption on the users of the scripts, since nothing in the code excludes one from another: with it
set to FALSE a create during a teardown has its payload, and
so its recording, deleted. `FreshStart` is stated for a name none of whose teardowns has
failed: after a failure between `docker rm` and the end of `rm -rf` the next
simulation of the name does inherit what is left, control file and pin included.

### Supervisor

The processes of one container. A process is first a fork with another command
line, which neither `pgrep` nor the scan of `/proc` recognises; then the plugin
without a signal handler, which TERM kills; then it has a handler, looks at the
lifecycle file, and opens its session. PID 1 marks the lifecycle file, kills the
watchdog, lists processes, signals and waits for them, one step each. A `telemetry stop`
that cannot write its marker warns and kills all the same (`StopBegin`); `StopHolds` is about one that has left it.

### Reskin

The text of `environment.yaml` is the fleet's name, which prefixes all hostnames,
and its labels, or `Torn`, a file that cannot be read. A request is one that
re-skins or one that edits labels; the latter reads the file twice (`ListNodes`,
`ApplyLabels`); `Empty` and `Write` are the two halves of `std::fs::write`, `Copy`
the console's own copy. A producer goes from `exec` over `Load` (`Environment::load`)
and `Ready` (`file_stamp`, behind the first handshake) to its ticks: `Notice` and
`Reassert`. Of the stamp only what a comparison shows is kept: `changed` are the
producers whose stamp differs from the file's, `missed` those whose file changed
between their load and their stamp, who will never know. netdata
starts the collector again after an exit with status 0 and not after an
error or a signal (`disabled`), as the comment at `main.rs:788` says.

go.d is external: it reads its files when it starts (`exporter_config.rs:57`), asks a
job that had no answer again (`autodetection_retry`), and with the first
answer defines the node bare (`sim-docker.sh:323`). `TelemetryStart` takes the command
in one step, since Supervisor has its steps; a second process of a mode that already
runs is left out. `MaxEdits` bounds requests, `MaxEvents` everything that nobody
should rely on: failed writes, ends, restarts, commands.

### Live, Replay

Live has the four producers at work. What one emits is the next output of a
receiver: the agent at the collector's stdout, a journal file, a signal of OTLP,
a scrape route. Writing to the receiver and capturing are two steps (`Write`,
`Captured`), in that order but for OTLP, which captures a request before it sends it
(`Send`, `Answer`); the process may be killed between the two. The journal writer goes
through its shards in order and notices a dead receiver (`SeesDead`); the
exporter counts failures as `otlp_runtime.rs` does: an error counts towards
`GiveUpAfter`, an accepted request resets, a timeout does neither. A request that ends in an error or a timeout may have
been received or not. The tape is the recording, by then an exact
prefix as Recording shows; `Recorded` relates it to what the receivers got.

Replay adds one process for a mode. Metrics and journals go into pipes that
block when full (`Puts`, `Takes`), a journal receiver may leave (`Leaves`), and
those still open at the end are killed (`Drops`). OTLP repeats a request, within
the startup time, until the first acknowledgement (`MayRepeat`). The scrape
endpoint has a queue per route and serves one accepted client at a time. Frames
become due with the clock (`Due`). `Term` is the end that the operator asks for.
Bounds: `MaxFrames`, `MaxClock`, `MaxRunning` of the tape, `PipeSize`, `MaxTries`.

### Host

One host agent. `create` writes and lints the file, copies specifications, environment and
plugin (`Rename` puts the last in place), stops a previous plugin, checks the installed copy and
enables the exporters (`Guard` to `ReloadGoD`), or takes them down; each step may fail
(`CreateFails`, `NotEnabled`). The environment is written twice, as a copy and with its
paths rewritten, and each time emptied first; a plugin may load it in between. `teardown` archives, disarms, removes the plugin,
waits for the process to go by itself, kills it, waits again, stops the logs
writer, removes the journals, go.d's files and the directory; `Proceed` is one
that goes on where a step failed. The agent's side is external, as the comments
at `provision.rs:628` and `:2016` describe it: `Launch`, `Exec`, `Handles`, `Load`,
`Stamps`, `Tick`, with `disabled` as the agent's flag and its cause, a failed load, a create or
the number of the teardown that killed. go.d reads its files at its start; a
`Foreign` file is an operator's, and at the start go.d's file, the vnodes file, both or neither may be one (`theirs`).
The guard looks at go.d's file alone, so a vnodes file without one is overwritten: `OperatorsKept` covers the first, and the
second beside a first, MCHostAlways shows the rest. Any of the removals may fail, and what is left then is
`left`. A teardown calls the exit clean when the process is gone by itself after the file is removed, also where none ran, or one that had yet to
load: `HonestClean` is about a plugin that had loaded by then (`saw`), and MCHostAlways shows the others, whose
agent may have the plugin disabled while it is told to "start the next fleet on its own". `Apart` keeps creates and teardowns apart,
as one button of one console does.

### Scenarios

Fleets, scenarios and the clock are small exact numbers (quarters, halves,
eighths). `MultiplierAt`, `AdditiveAt`, `Settle` are the easing; `Matches` the
selectors; `Strength` the recovery; `Perturbation` what several active scenarios do
to a signal. `StepFit`, `CheckScenarios` and `LintApplications` are the three
lints, which number the nodes of a role on their own (`AppRank` against `Rank`).
The actions trigger, resolve, prune and let time pass. The warm-up is a
function of the time alone: a slot, a hash, an offset (`Jitter`), a minor form.

### Specs, Engine

Specs has the operators of the format: patches per role, overlay of what a file
extends, merge of a node's services with its refusals, and validation. Engine is
one node over its composed specification: the charts planned, the tick with the
values that it remembers so that each signal is drawn once, bounds that weights
scale and faults widen, counters, partitions with a remainder, the lines that the
log rules give, and the fidelity lint, which looks at a value as multiplier and divisor of its dimension show it
(`Fits`). The logs process ticks an engine of its own, with other noise and at other times (`LogsTick`, `told`), and its
lines are made from that. So `Correlated` is about the lines and what charts would show of the same engine's tick (`OfLogs`), and about the
capacities, which do not vary and so agree with the charts on the screen; MCEngineScreen shows that the levels
on the screen do not. Seasons and noise are any of the factors
`Noise`; floating-point error is left out. `MaxTicks` bounds behaviours. What the parser's
types say of a file is `FilesAssumption` (a number where a number stands, a patch only of fields
that a role may set), what they say of a profile `ProfilesAssumption`; a node has a core
at least, as `cores()` in `lib.rs:94` makes sure. What validation leaves to those who write files
is stated beside the properties that need it (`OverlaysValid` to `RolesKeepRanges`): the theorems have it for
a hypothesis, and MCEngine assumes (`FilesFit`), so that TLC evaluates it, that it holds of the instance.

### Reading, Fleet

Reading turns clauses of a description into groups: keywords, software named,
counts, folding of rows that read alike, scaling to a size (`ScaleToTarget`); and
what is kept of a model's plan. Fleet has the two authors, the console with its form and
the command line, and the directory: each checks the other files for the GUIDs it is
about to use and then writes, in two steps (`Apart`). A GUID is a pair of
environment and hostname, hashes being taken not to collide. A slug is the sequence of the words and
numbers between its hyphens, and so is the id of a specification where it names a node, since
`pg-2` may come about in two ways. The nodes of a file are a function of the place of their
group and their number in it.

## The runs

All runs hold.

| run | instance | question |
|---|---|---|
| recording_live | two sessions of one producer, finalized while they run | is the file exact, complete complete, and finalized final (`ClosedStays`: what is interrupted or finalized stays as it is) |
| recording_threads | two capturing threads, two frame sizes, limits in reach; writer and lock may stall | does the pending counter stay sane, does capture return and a stop end (`Returns`), is the contract kept |
| control | console, `control_file.py` and an editor in turn, one of whom may die; a plugin process that reads at any time; writes with and without a new mtime | does an edit leave alone what it does not name (`Undisturbed`: other entries, start times, recoveries), does a resolve unwind, does the process see the file and run it |
| queue | three creates, two of whose callers may hang up, two places, a teardown | one build at a time, within budget; is everybody served, and progress closed |
| lifecycle | a person's teardown and the sweep, which fail twice; two creates apart from them, pins at any time; recordings that cannot be opened | is any recording lost, does a pin hold, does the expired go |
| supervisor | one supervised mode, two processes, a restart of the container | is a recording cut, does a stop hold, does the rest come back |
| reskin | the collector and the exporters; a re-skinner and a labeller, two requests, two events | does the collector end up with the file, do labels win, do the charts of a fleet that kept its name return |
| replay | the four producers and every tape of up to three frames; receivers that stop, answer anything or hang up | is what was given given again (`FromEndToEnd`), does success mean everything, does a replay end |
| host | two creates and a teardown that fail anywhere, with agent, go.d, exporters and logs writer, and an operator's files | is what a teardown reports so, is anything destroyed, does an installed fleet run |
| scenarios | 973 cases of fleets with scenarios of one or two steps, each effect and each pair of selectors | is the lint right, does a resolved scenario leave nothing, does an unresolved one settle, is the warm-up in its slot |
| engine | seven profiles (hosts with no, one and several services, without disks, refused; a device), two ticks, all faults and noise | is what the authors wrote kept, do all charts and the log agree, is the lint quiet |
| fleet | three descriptions, keywords and four answers of a model, rows of every kind, two writes | is everything that was asked for offered and written, are identities unique and kept |

Several properties are conjunctions of named parts, each of which can be checked
alone: `Undisturbed`, `ClosedStays`, `Returns`, `FromEndToEnd`, `TeardownHonest`,
`NothingDestroyed`, `LintRight`, `Composed`, `Coherent`.

More instances are there to be run by hand, most of them to show what the
assumptions of the runs, and the exceptions of their properties, keep out; where a configuration
is there for several properties, all but one stand in it as comments:

| configuration | instance | result |
|---|---|---|
| MCRecordingStopped | two expected producers, finalized after they stop: `CompleteMeansNothingLost` | holds |
| MCControlHost | `scenario.sh` alone: `OthersKept`, `StartKept` | holds |
| MCControlRace | console and `control_file.py` at once: `OthersKept` | fails: the file is loaded, changed and saved without a lock, so one request undoes the other |
| MCControlResolve | the console triggers, `control_file.py` resolves: `ResolveTakes` | fails: `setdefault` (`control_file.py:87`) leaves the `recovering_since: null` that the console wrote, so the fault goes on, though the comment above it says "Marked rather than removed, so the fault unwinds over the engine's recovery window" |
| MCControlReads | the clients of control: `NextTickAlways` | fails: the file is read between the halves of a save that share an mtime, and not again |
| MCControlReads | the clients of control: `NeverRestarted` | fails: a read of the emptied file forgets the start time (`control.rs:146`), though the comment at `control.rs:131` says "an unrelated edit must not restart it mid-demo" |
| MCCreateQueuePosition | three patient creates: `HonestPosition` | fails: all waiters are shown the last one's position; `NeverUnderstated` holds |
| MCLifecycleAlways | a pin during a sweep: `PinnedAlways` | fails: the sweep decides by an older inventory (`main.rs:1437`), though `operating.md:133` says "Pin a fleet ... to keep it past the TTL" |
| MCLifecycleAlways | a recording without a committed beginning: `SweptAlways` | fails: every teardown stops at `sim-docker.sh:487`, though `main.rs:1456` says "will retry next hour" |
| MCSupervisorStop | the watchdog and an operator who stops: `StopWins` | fails: a round that looked at the marker before the stop starts the process after it (`entrypoint.sh:47`), though its comment says "Deliberate stops win" |
| MCReskinAlways | a re-skin, then go.d asks an exporter with the new name: `ChartsKept` | fails: go.d and exporters read the names at different times, though `operating.md:582` says "A re-skinned fleet keeps its scraped charts" |
| MCReskinAlways | two requests at once (`MaxEvents` 0): `CopyInStep` | fails: the console's copy is that of the request that came last to it, not last to the file |
| MCScenariosFit | the fleets of scenarios: `FitIsRight` | fails: a step that selects by a label that the plugin adds itself (`simulated`, `infra_sim_name`) is reported as one that does not fire, and it does |
| MCHostAlways | the host: `CleanAlways` | fails: a load that failed, or a create that killed, has the plugin disabled when the teardown says that "the agent keeps it enabled and will start the next fleet on its own" (`provision.rs:2035`) |
| MCHostAlways | the host: `OperatorsKeptAlways` | fails: an operator's `/etc/netdata/vnodes/infra-sim.conf` is overwritten (`provision.rs:809`), though `provision.rs:783` says "it is not ours to overwrite" |
| MCEngineScreen | the profiles of engine: `ScreenCorrelated` | fails: the logs process has an engine and noise of its own (`logs.rs:561`), though `logs.rs:10` says "the same composed NodeEngine used by metrics" |
| MCHostAlways | the host: `NothingLeft` | fails: a logs writer that is started while the teardown runs leaves its journal files, though `runtime-and-scenarios.md:370` says "it has to leave nothing behind" |

Flags do the same for other assumptions: with `CreateApart` FALSE a recording is lost;
with `Apart` of Host FALSE a teardown deletes an environment that it has not
archived; with `Apart` of Fleet FALSE two fleets get one GUID. `FreshStart` of Lifecycle holds; of Fleet's `Placed`, `ShapeKept` and
`AllLoad`, marked "By hand" in the module, none does: rows that are folded into one keep the first's place even when
that is none, rounding shares of a small size may swap two tiers
(`describe.rs:827`), and the command line's keyword path never makes slugs distinct.
The type invariants (`TypeOK`, `LiveTypeOK`) can be checked with any configuration of
their modules; those of Recording, Control, Lifecycle and Supervisor are proved.

Why the bounds are enough to see the interesting cases. The protocols treat
sessions, threads, creates and processes alike, and each hazard needs at most
two actors and, at times, a third who profits: a crashed session and the next;
a writer, a writer and a reader; a build, a waiter and a new arrival; a teardown
that fails and its successor. The limits (cap, pending, budget, failures, pipe, tries) are
small enough that each is reached and passed. A replay handles a frame by what came
before it for the same receiver, so three frames have a first, a repeated and a
last one. The algorithms are checked over inputs that hold each
effect, selector, shape of chart and kind of reply at least once, and in pairs where
the code treats pairs. Symmetry is used only in
MCRecordingLive, whose two sessions are interchangeable, and where no liveness is checked.
Deadlock is checked in the host and scenario instances, which have a step for "all done"; in the
others it is not: a bounded instance ends when its requests,
outputs or restarts are used up, as the programs do when nobody asks for more.

Fairness. Recording: a capturing thread, since what capture promises it has to
keep alone; for the end of a stop also the writer and the process that stops,
which is a premise of `StopReturns`, but never the finalizer or another holder
of the lock, because acquiring it has a timeout (`OpenTimeout`,
`WriteTimeout`). Control: each consumer polls on every tick.
CreateQueue: handlers are polled by tokio, and a build, which is a finite script,
ends; nobody has to call. Lifecycle: the sweep runs every hour
and scripts end; only accidental failures are bounded, users need not do anything. The
sweep's fairness is strong, so that requests that keep apart from it do not keep
it away for ever; its own loop does not depend on them.
Reskin: the console finishes what it was asked, netdata and the watchdog start what
is missing and may, ticks go on, jobs are retried. `Follows` excepts a collector that
netdata has disabled because of an unreadable file or an early signal (`hurt`), and
all properties suppose that the file can be read in the end: nothing in the code
repairs it. Supervisor: the watchdog and what the kernel has forked go on; no process has to
end and no operator has to act. Replay: the replay's own process runs and time
passes; receivers need not read, answer or connect, so `ReplayEnds` is about the modes that do not
wait for a pipe. Host: the agent rescans its plugins every 60 seconds and its
process goes on; no request has to be made or to end. Scenarios, Engine and Fleet
have safety properties alone and assume nothing.

## The proofs

All proofs hold for every value of the constants that satisfies the named
assumptions, not just for the instances above.

| theorem | module | says |
|---|---|---|
| TypeCorrect | RecordingProofs | the types of Recording |
| ExactPrefixHolds | RecordingProofs | of each session `events.bin` holds exactly a beginning of its frames, in order, once each |
| NothingLost | RecordingProofs | a recording that reads complete holds every chunk emitted and a session of every expected producer |
| RunningRecorded | RecordingProofs | who runs is recorded, or the recording says incomplete |
| ClosedForGood | RecordingProofs | what is finalized or interrupted is never written again, nor called complete again |
| ContractKept | RecordingProofs | the protocol implements RecordingContract |
| PendingKept | RecordingProofs | the pending counter never goes below zero, for any number of threads |
| ControlTypes | ControlProofs | the types of Control; no recovery begins in the future |
| NextTickHolds | ControlProofs | who remembers the mtime of a whole file runs what the file says, however the writers overlap, unless it was written again under that mtime |
| StartsRemembered | ControlProofs | a plugin keeps the start time that it gave an entry, however the writers overlap, unless it reads the emptied file |
| NothingDisturbed | ControlProofs | with orderly requests, no other entry, start time or recovery is disturbed in the file, and the plugin keeps its start times as above |
| FaultsUnwind | ControlProofs | with orderly requests, console and `control_file.py` take no fault away before its recovery window is over |
| OneBuildAtATime | ConsoleProofs | builds never overlap |
| BudgetKept | ConsoleProofs | creates never exceed the budget |
| FleetTypesHold | ConsoleProofs | every file that is checked or written is the rendering of groups that follow from what it was asked |
| OfferedHolds | ConsoleProofs | a reading has as many nodes as asked for, every tier, and all software that is named and known |
| AsAskedHolds | ConsoleProofs | a written file has each row's nodes with its software, labels and place |
| OneIdentityHolds | ConsoleProofs | with authors apart, no GUID is in two files, and none twice in a file of the console or of a model's reading |
| IdentityKeptHolds | ConsoleProofs | a file that grows keeps its nodes' GUIDs, names, roles and services |
| LifecycleTypes | LifecycleProofs | the types of Lifecycle |
| RecordingWithinReach | LifecycleProofs | with creates apart from teardowns, no recording is lost |
| PinHolds | LifecycleProofs | the sweep takes nothing that is pinned or within its TTL, unless pinned or created after it looked |
| SupervisorTypes | SupervisorProofs | the types of Supervisor |
| CleanStopHolds | SupervisorProofs | a stop of the container cuts no recording |
| StopKept | SupervisorProofs | what is quiet after a stop stays quiet until the next command |
| TeardownIsHonest | EngineProofs | one at a time, what a teardown reports as gone is, and a plugin that had loaded and exited cleanly leaves the agent willing |
| NothingIsDestroyed | EngineProofs | one at a time, only what is archived is deleted; an operator's go.d file and the vnodes file beside it stay |
| AuthoredHolds | EngineProofs | an accepted composition is what each of its authors wrote |
| ComposedHolds | EngineProofs | and the order of a node's services decides nothing, given `OverlaysValid` and `SharedAlike` |
| OneValueHolds | EngineProofs | charts of one scope show one value of a signal in a tick |
| CoherentHolds | EngineProofs | and the log names the number of its own engine and the capacity that the charts show, given `VolumesArePartitions`, `OneNameOneSize` and `SizesNatural` |
| NeverBackHolds | EngineProofs | no counter goes back, given `NamesApart` and `SizesNatural` |
| CloseHolds | EngineProofs | a partition of n parts is off its total by n/2 at the most, given `SizesNatural` |
| AddsUpHolds | EngineProofs | so the lint finds each of few parts (`FewParts`) to add up, given `SizesNatural` |
| InRangeHolds | EngineProofs | what the lint finds out of range is a dimension without physical bounds of a ratio (`PhysicalRatio`) |
| LintQuietHolds | EngineProofs | and beyond those two it reports a total only that the node lacks, and calls no constant stuck, given `NamesApart`, `SizesNatural` and `RolesKeepRanges` |
| LiveToReplay | ReplayProofs | a complete recording holds what every receiver was given, and the replay gives it again, in order, none early, only the first of OTLP twice |
| SuccessMeansAll | ReplayProofs | a replay that reports success has delivered every frame of its mode |
| LintRightHolds | ScenariosProofs | a step that the lint leaves out touches no node, and signals move in the directions that it works out |
| WarmWindowHolds | ScenariosProofs | a warm-up incident runs for its whole length in its slot, apart from the next |
| UnwoundHolds | ScenariosProofs | dropping what has recovered moves no signal, whatever else is active |
| SettledHolds | ScenariosProofs | past its length a scenario without drift or oscillation moves nothing any more |

*Recording.* `ExactPrefix` is not inductive: it says nothing of the batch in
memory. `PrefixInv` adds, for each session, which part of its channel is in the
file: what is settled was written or refused for good, and the batch goes on
where the file ends, or nothing will be appended any more. `NothingLost` needs
more: `LockInv` (who is inside which critical section), `SealInv` (a recording
whose stream does not verify is marked incomplete before it is sealed), and for
every session that a chunk it emitted is in the channel, or on its way there
with its thread, or the recorder has failed, and that a Stop frame is behind all
of them. Then a complete recording has a Stop for each Start, by `ExactPrefix` all
that is before the Stop, and so every chunk. `ClosedForGood` adds `TornInv`, that a
writer appends only to a whole file: by `LockInv` it has held the lock since it looked; the
steps of everybody else leave the flags and the file as they are (`FlagsKept`, `FileKept`).
`ContractKept` maps the steps one by one under the mapping of `Contract`: a step that emits is
a step of a process that runs, and behind a complete recording none does (`CompleteIsOver`); what
is kept was emitted (`OutputInv`: frames name only chunks emitted) and only a commit before
the seal keeps more (`KeptGrows`); the seal says complete only where `CompleteHolds`; and
after it the file stands and the verdict can only be withdrawn.
`PendingKept` counts: what is pending is the frames of the channel behind the last batch
and one for each thread between its `fetch_add` and its end (`Counted`), so a
subtraction takes away only what is there. It needs the threads to be finitely
many (`ThreadAssumption`).

*Control.* `InStep`: a consumer remembers no mtime later than the file's, one that remembers
none runs nothing, and one that remembers the mtime of a whole file runs what that file says or is in `raced`. A write
either moves the mtime, so that nobody remembers it, or puts all who do into `raced`; so `NextTickHolds`
has no hypothesis: requests may overlap, fail, die and share an mtime. Nor has `StartsRemembered`,
which follows from a read: what it forgets is not in a file that is not empty, or has a start time there. The
other two theorems suppose orderly requests (`Orderly`): one at a time
(MCControlRace shows why), and no `scenario.sh`, which loses start times (MCControlHost). Their invariant `AloneInv` says that what a writer is
about to write was made from the entries which the file still spells (`Prepared`), and `Mends` what
a request may make of one entry: the same, nothing when it has recovered, or what the request is about. The
console's, `control_file.py`'s and the editor's ways of parsing, dropping and writing are each shown
to be such a mending. `MemoryInv` carries start times over to the plugin: it remembers
the start of each entry that it runs, and takes that of the file again.

*CreateQueue.* `SlotInv`: a task that builds, or is about to leave, has the slot, and
a handler whose task has not started has none. Mutual exclusion
follows from the slot having one owner. `BudgetInv` adds that there is room as
long as somebody builds: the second check is made by the owner of the slot,
and nobody else creates containers meanwhile.

*Fleet and Reading.* The invariant (`FleetTypes`) says of each file, checked or written, how it came
about: it renders groups that were made of what it was asked (`WellMade`). The rest is about
the steps from rows to nodes, each a recursive function along a sequence, whose
values on the way induction over places relates. Merging adds counts up and keeps, for each row, a
group that stands for it (`MergedKeeps`); naming gives each group a name that none before it has, since
among one more numbers than names are taken one is free (`CandidateIs`), and changes nothing
else (`QualifiedKeeps`); scaling meets the size, with no group below one node
(`ScaleIs`): the remainders that are handed out are counted by their ranks, and each node that
is shed comes from a group that has two. As a hostname begins with the environment's name,
two files share a GUID only if they are of one environment, and the check
before the write sees that one unless another author writes in between (`Apart`). For `IdentityKept` a row that
is put behind others leaves the names of those before it alone, as they are given
from the first to the last (`MergedBegins`, `QualifiedBegins`).

*Lifecycle.* `RetryInv`: past its `docker stop` a teardown works on a stopped
container (`Stopped`), which stays stopped as nobody creates one meanwhile
(`Apart`); so the recording does not grow behind the copy (`Copied`), and once
`archive.json` is there, all of the payload is archived (`Archived`). `SweepInv`: from the
sweep's inventory to the removal, what it has listed or works on is old and not pinned, or
`overtaken`; it is not inductive without the states in which the sweep has
listed and not begun. `CreateApart` is the only hypothesis, and of `RecordingWithinReach` alone; the
instance without it shows that it is needed.

*Supervisor.* `CleanInv`: when the lifecycle file is marked, the processes that have
already looked at it are a set that none can enter, since everyone looks before opening its session;
the scan lists them all (`toscan`), the wait (`waited`) ends when they are gone or the
grace period is over, and who looks later finds the mark and goes. `StopInv`: as long as the
operator's last command is a stop the marker is there, and neither watchdog nor entrypoint starts
anything at which it lies.

*Host.* `CauseInv`: the agent's flag carries the number of the teardown that killed, so a
clean exit is reported only by one whose number it does not carry. `SawInv`: while a teardown waits that took the
file from a loaded plugin, nobody else may have the agent disable it. `OperatorsInv`: a create that is
past its guard has found no go.d file of an operator's, and a teardown removes only its own.
`ApartInv`: past its removal of the plugin's file a teardown finds that nobody puts it
back, and a process that is not there is not launched again (`PluginKeeps`); past its archive the
environment is an archived one. `Apart` is a hypothesis: TLC finds `NothingDestroyed` violated without it.

*Engine and Specs.* `SetUp`: what a node runs is a function of its files, and if it was not
refused it is valid and so are its roles' signals. What a composition has of each author is shown of each merge and
carried along the list of services. That the list may be turned round is harder: a merge in
the middle may be refused. But what one order composes is an upper bound for the
other one: two parts of it do not collide, and are valid together if each of them is (`PartsValid`;
the hard part are patches, of which a part has to be valid where the whole is), so no
merge of the other order is refused, and what it composes is no more (`OneWay`). As that goes both ways, the two
are the same but for the order of charts (`InsideBoth`). This is false where an overlay is not valid, since
nobody checks it until the next merge does, and where two services have one signal with different noise,
of which the last one wins; so these are hypotheses. `Sampled`: all that is shown
was computed from the values of the last tick, which are a function of scope and
signal; `Told` says the same of the lines and their engine. What ties the two engines is a signal that neither noise nor a
fault moves (`SteadyHolds`) and the size of a volume; two hypotheses of `CoherentHolds` say that nothing else goes by the
same name. `Counted`: what the lint remembers of a counter is
the counter without its fraction, and what grows by something not negative and is then cut off does not go back; with two charts of
one id, which nothing prevents, one counter is counted by both and what the lint sees
is only one of them. A sum is as close to another as its terms are (`AddedClose`), and the parts before they
are rounded make up the total, as the remainder takes what the shares leave
(`PartsAdd`). Each part is rounded by a half at the most (`Nearest`), so three parts stay
within the 1.5 of `fidelity.rs:346`. Four may not; but they do if their total is whole and they are not all halves
(`FewParts`), as the errors then add up to a whole number below two. So `system.ram` is covered, whose shares of 86, 3 and 11
hundredths are never all halves at once (`specs/linux-system.yaml:654`). A ratio whose upper bound is physical is clamped
after every fault, before multiplier and divisor. What the lint calls flat is not a constant before its role; a role
could make it one, hence `RolesKeepRanges`.

*Live and Replay.* `TapeInv`: while all sessions are whole the outputs made for a receiver are on the
tape in the order of their numbers, all but one that its producer still holds (`HoldInv`: each
producer holds outputs of its own receivers alone). `SignalInv`: the exporter's count of failures is
the number of refusals since the last accepted request. To turn "in this order, each once" into
numbers the proof counts: the place of a frame among those of its receiver is the number of them up to it
(`Numbering`). Of the replay `Through` says that what lies behind the present frame is
delivered, and the present one only if it is the first of OTLP and nothing is acknowledged yet;
`Piped` that a journal receiver runs, was killed, or has read all; `Serving` that a
route's queue and what its clients were given, or took with them, make up its frames. `Faithful` is inductive only
with these: that no frame repeats is a fact about the loop's position, not about what
was received.

*Scenarios.* `Tracked` (an active entry is one of the library, there once, and not from the future) is all that
the state has to satisfy; the rest is about the operators. Products and sums along a
timeline and along the library are recursive functions, about which induction over
their places shows what is needed: products of equal factors are equal, those
of factors of one direction have that direction (`TimesGrow`, `PlusSign`). For `Unwound` a scenario past its
window has strength 0, so that its part is a neutral one (`Left`); for
`Settled` each effect past its own settling time stands still (`AlongWithin`, `StillStep`). For
`LintRight` the number that a lint gives a node is related to the runtime's: they agree where the
lint says that a step applies (`RankFits`, `RanksAgree`), so what it matches, the runtime matches
(`MatchedApplies`). `WarmWindow` counts the instants of a slot at which an incident runs. Assumed are
what a node and a library are (`FleetsAndScenarios`: no label without a value, no scenario twice), that steps and
ramps multiply by nothing negative, as in every scenario of the repository though the
parser accepts it (two negative factors would move a signal against the direction of each), and that a
slot has room for an incident and its distance (`WarmRotation`), as the constants of
`warmup.rs` have.

Only model-checked: the liveness properties (`Returns`, `PickedUp`, `Answered`, `Swept`, `Revived`,
`Follows`, `LabelsReturn`, `ChartsReturn`, `ReplayEnds`, `Launched`), which are out of this prover's
reach, and the type invariant of Reskin. Every invariant and every action property that a run checks is stated by
a theorem. Induction over data, which the library's theorems offer only for operators as parameters, is
done over the places of a sequence: each recursive function is shown to exist
with all its values on the way (`RunExists`), and a set of places that has the first and with each one
the next has all (`Inductively`, from the well-foundedness of `<` on the naturals).

## What the models show besides

Facts about the code that came up in modelling, that no property is about, or that
a property had to be stated around:

* Control: a resolved entry that has recovered suppresses warm-ups until the next
  save drops it; a `Recover` over zero seconds and negative durations are accepted.
* Describe: a clause of one word that nobody recognises is dropped; a phrase that the
  model calls unsupported is reinstated or dropped as a whole; a row without labels takes those of a
  labelled row it is merged with; the console drops the slugs that a model gave.
* Environments: two names that are sanitised alike have one file, and the later overwrites it.
* Specifications: services that share a signal are compared in base, min and max
  only, though the comment at `sim-spec/src/lib.rs:88` says that a collision is reported; what a base
  extends is ignored; what an overlay gives is not validated again; two planned charts may have one id.
* Lint: four parts that are all halves may be off by 2 when rounded, and five parts need no such
  coincidence, while the lint tolerates 1.5 (`fidelity.rs:346`): it could report a chart that is right. No chart under
  `specs/` is one.
* Host: the teardown's step for stale nodes (`provision.rs:2091`) talks to the agent and is not modelled; a teardown that was not confirmed cannot be repeated,
  as the plugin's file is gone; the branch at `provision.rs:1537` changes nothing.
* Replay: a scrape client that times out takes its frame with it; a journal
  receiver that is killed at the end may lose what it has not read while the replay
  reports success, and `OkMeansAll` says so. A live journal receiver that hangs keeps the
  writer from ending. A timeout of OTLP neither counts as a failure nor ends a row of them.

## Plan

Done: Recording with its contract, Control, CreateQueue, Lifecycle, Supervisor, Host, Live and
Replay, Scenarios, Specs and Engine, Reading and Fleet, all with proofs; Reskin without.

What is left, in this order:

1. Compose teardown, PID 1 and the recording: what `docker stop` leaves behind is
   what `finalize` reads (today Lifecycle takes a container's output as one set, and
   Live takes the recording for the exact prefix that Recording proves it is).
2. The console's inventory and the pairing of names with answers; a restart of the
   console while a build goes on; the memory and disk budgets beside the one of simulations.
3. Proofs: `TypeOK` of Reskin, and that a composition as in 1. keeps what its parts promise.

Not modelled, and why:

* Preflight: one function from what was just read to a board of findings, without
  state; its rules are thresholds on numbers of the host.
* The host installer: a sequential script that nothing runs beside.
* The console page: a browser page that polls the console's API; what it shows is
  the state that the other modules have.
* The inventory's queries, the listings, `upgrade` and `fidelity` of `sim-docker.sh`: they read.
* The evidence file of the fidelity lint, the catalogue of devices, generated
  specifications, examples, prototypes: data.
* Floating-point error, the random generator, seasons, spans and routine log
  lines: a property of them would be one of their formulas.
* Corruption of files from outside.

## Running

`tlc -config MCRecordingLive.cfg MCRecording` checks one instance, and `tlapm
RecordingProofs.tla` one module's proofs. The longest run takes about three
minutes; the proofs take about half an hour together, those of EngineProofs and ConsoleProofs the longest.
