------------------------------ MODULE Lifecycle ------------------------------
(***************************************************************************)
(* One simulation's name through creates, pins, sweeps and teardowns       *)
(* (scripts/sim-docker.sh, and the console's pin, teardown and             *)
(* sweep_expired in crates/sim-console/src/main.rs).                       *)
(*                                                                         *)
(* A simulation is a container and a payload directory that it mounts,     *)
(* both found by name alone.  Nothing excludes one script from another:    *)
(* CreateApart says that its users keep creates and teardowns apart.       *)
(***************************************************************************)
EXTENDS Naturals

CONSTANTS
    Teardowns,      \* callers of sim-docker.sh teardown
    Sweeper,        \* the one that is the console's hourly sweep
    Creators,       \* callers of sim-docker.sh create
    MaxGens,        \* bound of the model: containers ever created
    MaxChunks,      \* bound of the model: output chunks of a container
    MaxFails,       \* bound of the model: teardown scripts that fail or are killed
    CreateApart     \* creates and teardowns do not overlap

ASSUME SweeperAssumption == Sweeper \in Teardowns
ASSUME BoundAssumption == MaxGens \in Nat /\ MaxChunks \in Nat /\ MaxFails \in Nat
ASSUME ApartAssumption == CreateApart \in BOOLEAN

VARIABLES
    ctr,        \* which container has the name, 0 for none
    up,         \* it is running
    mounted,    \* the directory it mounted is the present payload directory
    old,        \* it is past ttl_days
    gens,       \* containers created so far
    dir,        \* the payload directory exists
    rec,        \* chunks in its recording
    broken,     \* its recording has no committed beginning, and never will
    pinned,     \* its "pinned" marker
    faults,     \* its control file has scenarios running
    made,       \* chunks any container ever recorded
    archived,   \* chunks of archives that have their archive.json
    listed,     \* the sweep under way found the simulation expired and unpinned
    overtaken,  \* history: since the sweep looked, the name was pinned or created anew
    tpc,        \* control of each teardown
    copy,       \* chunks each teardown has copied
    cpc,        \* control of each create
    ppc,        \* control of the console's pin request
    fails       \* teardowns failed so far

ctrVars == <<ctr, up, mounted, old, gens>>
dirVars == <<dir, rec, broken, pinned, faults>>
sweepVars == <<listed, overtaken>>
vars == <<ctrVars, dirVars, made, archived, sweepVars, tpc, copy, cpc, ppc, fails>>

Chunks == (1..MaxGens) \X (1..MaxChunks)

TearStates == {"idle", "stop", "defs", "plugin", "recording", "finalize",
               "unreadable", "manifest", "remove", "delete"}

TypeOK ==
    /\ gens \in 0..MaxGens /\ ctr \in {0, gens}
    /\ up \in BOOLEAN /\ mounted \in BOOLEAN /\ old \in BOOLEAN
    /\ dir \in BOOLEAN /\ pinned \in BOOLEAN /\ faults \in BOOLEAN
    /\ broken \in BOOLEAN /\ listed \in BOOLEAN /\ overtaken \in BOOLEAN
    /\ rec \subseteq made /\ made \subseteq Chunks /\ archived \subseteq made
    /\ tpc \in [Teardowns -> TearStates]
    /\ copy \in [Teardowns -> SUBSET made]
    /\ cpc \in [Creators -> {"idle", "prepare", "lint", "run"}]
    /\ ppc \in {"idle", "found"}
    /\ fails \in 0..MaxFails
    /\ ctr = 0 => ~up /\ ~old /\ ~mounted

Init ==
    /\ ctr = 0 /\ gens = 0
    /\ up = FALSE /\ mounted = FALSE /\ old = FALSE
    /\ dir = FALSE /\ rec = {} /\ broken = FALSE /\ pinned = FALSE /\ faults = FALSE
    /\ made = {} /\ archived = {} /\ listed = FALSE /\ overtaken = FALSE
    /\ tpc = [t \in Teardowns |-> "idle"]
    /\ copy = [t \in Teardowns |-> {}]
    /\ cpc = [c \in Creators |-> "idle"]
    /\ ppc = "idle"
    /\ fails = 0

Tearing == \E t \in Teardowns : tpc[t] # "idle"
Sweeping == listed \/ tpc[Sweeper] # "idle"
Creating == \E c \in Creators : cpc[c] # "idle"

-----------------------------------------------------------------------------
(* sim-docker.sh create. *)

\* "docker ps" knows no container of the name.
CreateCheck(c) ==
    /\ cpc[c] = "idle"
    /\ gens < MaxGens
    /\ ctr = 0
    /\ CreateApart => ~Tearing
    /\ cpc' = [cpc EXCEPT ![c] = "prepare"]
    /\ UNCHANGED <<ctrVars, dirVars, made, archived, sweepVars, tpc, copy, ppc, fails>>

\* The payload: definitions are copied over, an existing control file is kept.
CreatePrepare(c) ==
    /\ cpc[c] = "prepare"
    /\ dir' = TRUE
    /\ cpc' = [cpc EXCEPT ![c] = "lint"]
    /\ UNCHANGED <<ctrVars, rec, broken, pinned, faults, made, archived, sweepVars,
                   tpc, copy, ppc, fails>>

\* A lint that fails starts nothing; the payload stays.
CreateLint(c) ==
    /\ cpc[c] = "lint"
    /\ cpc' \in {[cpc EXCEPT ![c] = "run"], [cpc EXCEPT ![c] = "idle"]}
    /\ UNCHANGED <<ctrVars, dirVars, made, archived, sweepVars, tpc, copy, ppc, fails>>

\* docker run: refused when the name is taken by now; it may also create a
\* container that does not start, as it does when its files are gone.
CreateRun(c) ==
    /\ cpc[c] = "run"
    /\ cpc' = [cpc EXCEPT ![c] = "idle"]
    /\ \/ UNCHANGED <<ctrVars, dir>>
       \/ /\ ctr = 0
          /\ gens < MaxGens
          /\ ctr' = gens + 1
          /\ gens' = gens + 1
          /\ up' \in IF dir THEN BOOLEAN ELSE {FALSE}
          /\ dir' = TRUE
          /\ mounted' = TRUE
          /\ old' = FALSE
    /\ overtaken' = (overtaken \/ (Sweeping /\ ctr' # ctr))
    /\ UNCHANGED <<rec, broken, pinned, faults, made, archived, listed, tpc, copy, ppc, fails>>

-----------------------------------------------------------------------------
(* The container, the clock, and requests that write the payload. *)

\* A producer dies, or its disk is full, when it has written the recording's manifest and
\* not yet committed its beginning: from then on every open and every finalize fails.
HalfMade ==
    /\ up /\ mounted
    /\ rec = {} /\ ~broken
    /\ broken' = TRUE
    /\ UNCHANGED <<ctrVars, dir, rec, pinned, faults, made, archived, sweepVars, tpc, copy, cpc,
                   ppc, fails>>

\* A producer records a chunk: into the payload, or into the deleted directory the
\* container still has mounted.
Produce ==
    /\ up
    /\ mounted => ~broken
    /\ \E k \in 1..MaxChunks :
          /\ <<ctr, k>> \notin made
          /\ made' = made \cup {<<ctr, k>>}
          /\ rec' = IF mounted THEN rec \cup {<<ctr, k>>} ELSE rec
    /\ UNCHANGED <<ctrVars, dir, broken, pinned, faults, archived, sweepVars,
                   tpc, copy, cpc, ppc, fails>>

Expire ==
    /\ ctr # 0
    /\ ~old
    /\ old' = TRUE
    /\ UNCHANGED <<ctr, up, mounted, gens, dirVars, made, archived, sweepVars,
                   tpc, copy, cpc, ppc, fails>>

\* A scenario is triggered in the control file.
Trigger ==
    /\ ctr # 0
    /\ dir
    /\ faults' = TRUE
    /\ UNCHANGED <<ctrVars, dir, rec, broken, pinned, made, archived, sweepVars,
                   tpc, copy, cpc, ppc, fails>>

\* pin: the container is looked up, then the marker written, and its directory
\* made if need be.
PinFind ==
    /\ ppc = "idle"
    /\ ctr # 0
    /\ ppc' = "found"
    /\ UNCHANGED <<ctrVars, dirVars, made, archived, sweepVars, tpc, copy, cpc, fails>>

PinWrite ==
    /\ ppc = "found"
    /\ ppc' = "idle"
    /\ \/ dir' = TRUE /\ pinned' = TRUE
       \/ pinned' = FALSE /\ UNCHANGED dir
    /\ overtaken' = (overtaken \/ (Sweeping /\ pinned'))
    /\ UNCHANGED <<ctrVars, rec, broken, faults, made, archived, listed, tpc, copy, cpc, fails>>

-----------------------------------------------------------------------------
(* The console's sweep. *)

\* Budgets::expired, of the inventory.
Expired == ctr # 0 /\ old /\ ~pinned

\* Mutant: a teardown that failed is not tried again.
SweepListOnce ==
    /\ tpc[Sweeper] = "idle"
    /\ ~listed
    /\ Expired
    /\ fails = 0
    /\ listed' = TRUE /\ overtaken' = FALSE
    /\ UNCHANGED <<ctrVars, dirVars, made, archived, tpc, copy, cpc, ppc, fails>>

\* The inventory is taken once; the teardowns it leads to may take minutes each.
SweepList ==
    /\ tpc[Sweeper] = "idle"
    /\ ~listed
    /\ Expired
    /\ listed' = TRUE /\ overtaken' = FALSE
    /\ UNCHANGED <<ctrVars, dirVars, made, archived, tpc, copy, cpc, ppc, fails>>

-----------------------------------------------------------------------------
(* sim-docker.sh teardown. *)

\* Mutant: the sweep tries again what it failed at, without another look.
BeginAgain(t) ==
    /\ tpc[t] = "idle"
    /\ t = Sweeper => listed \/ fails > 0
    /\ CreateApart => ~Creating
    /\ listed' = (listed /\ t # Sweeper)
    /\ tpc' = IF ctr # 0 /\ dir THEN [tpc EXCEPT ![t] = "stop"] ELSE tpc
    /\ tpc' # tpc \/ listed' # listed
    /\ UNCHANGED <<ctrVars, dirVars, made, archived, overtaken, copy, cpc, ppc, fails>>

\* Container and payload must be there, or the script refuses.
Begin(t) ==
    /\ tpc[t] = "idle"
    /\ t = Sweeper => listed
    /\ CreateApart => ~Creating
    /\ listed' = (listed /\ t # Sweeper)
    /\ tpc' = IF ctr # 0 /\ dir THEN [tpc EXCEPT ![t] = "stop"] ELSE tpc
    /\ tpc' # tpc \/ listed' # listed
    /\ UNCHANGED <<ctrVars, dirVars, made, archived, overtaken, copy, cpc, ppc, fails>>

\* A command fails, or the script is killed: the next ones are not run.
Fail(t) ==
    /\ tpc[t] # "idle"
    /\ fails < MaxFails
    /\ fails' = fails + 1
    /\ tpc' = [tpc EXCEPT ![t] = "idle"]
    /\ copy' = [copy EXCEPT ![t] = {}]
    /\ UNCHANGED <<ctrVars, dirVars, made, archived, sweepVars, cpc, ppc>>

\* A command that has nothing to work on fails the script; that is no accident.
Refused(t) ==
    /\ tpc' = [tpc EXCEPT ![t] = "idle"]
    /\ copy' = [copy EXCEPT ![t] = {}]
    /\ UNCHANGED <<ctrVars, dirVars, made, archived, sweepVars, cpc, ppc, fails>>

\* Mutant: the container goes on while it is copied.
StopNothing(t) ==
    /\ tpc[t] = "stop"
    /\ tpc' = [tpc EXCEPT ![t] = "defs"]
    /\ UNCHANGED <<ctrVars, dirVars, made, archived, sweepVars, copy, cpc, ppc, fails>>

\* docker stop: when it returns no producer is left.
Stop(t) ==
    /\ tpc[t] = "stop"
    /\ IF ctr = 0 THEN Refused(t)
       ELSE /\ up' = FALSE
            /\ tpc' = [tpc EXCEPT ![t] = "defs"]
            /\ UNCHANGED <<ctr, mounted, old, gens, dirVars, made, archived, sweepVars,
                           copy, cpc, ppc, fails>>

\* A step that copies what the payload, or the container, must have.
Step(t, from, to, there) ==
    /\ tpc[t] = from
    /\ IF there
       THEN /\ tpc' = [tpc EXCEPT ![t] = to]
            /\ UNCHANGED <<ctrVars, dirVars, made, archived, sweepVars, copy, cpc, ppc, fails>>
       ELSE Refused(t)

CopyDefs(t) == Step(t, "defs", "plugin", dir)
CopyPlugin(t) == Step(t, "plugin", "recording", ctr # 0)

\* Without a recording there is nothing to copy or to finalize.
CopyRecording(t) ==
    /\ tpc[t] = "recording"
    /\ copy' = [copy EXCEPT ![t] = rec]
    /\ tpc' = [tpc EXCEPT ![t] =
          IF ~dir THEN "manifest" ELSE IF broken THEN "unreadable" ELSE "finalize"]
    /\ UNCHANGED <<ctrVars, dirVars, made, archived, sweepVars, cpc, ppc, fails>>

\* The copy is finalized, not the payload's recording.  One that cannot be opened makes
\* the script fail, and the next one, and all that follow.
FinalizeCopy(t) ==
    \/ Step(t, "finalize", "manifest", TRUE)
    \/ tpc[t] = "unreadable" /\ Refused(t)

\* archive_manifest.py writes archive.json: from now on this is an archive.
WriteManifest(t) ==
    /\ tpc[t] = "manifest"
    /\ archived' = archived \cup copy[t]
    /\ tpc' = [tpc EXCEPT ![t] = "remove"]
    /\ UNCHANGED <<ctrVars, dirVars, made, sweepVars, copy, cpc, ppc, fails>>

\* docker rm -f; of a container that is gone it may or may not succeed.
Remove(t) ==
    /\ tpc[t] = "remove"
    /\ \/ /\ ctr' = 0 /\ up' = FALSE /\ mounted' = FALSE /\ old' = FALSE
          /\ tpc' = [tpc EXCEPT ![t] = "delete"]
          /\ UNCHANGED <<gens, dirVars, made, archived, sweepVars, copy, cpc, ppc, fails>>
       \/ ctr = 0 /\ Refused(t)

\* rm -rf of the payload, whatever container has it mounted by now.
Delete(t) ==
    /\ tpc[t] = "delete"
    /\ tpc' = [tpc EXCEPT ![t] = "idle"]
    /\ copy' = [copy EXCEPT ![t] = {}]
    /\ dir' = FALSE /\ rec' = {} /\ broken' = FALSE /\ pinned' = FALSE /\ faults' = FALSE
    /\ mounted' = FALSE
    /\ UNCHANGED <<ctr, up, old, gens, made, archived, sweepVars, cpc, ppc, fails>>

\* It is interrupted half way, perhaps with only a part of the recording's files gone.
DeletePart(t) ==
    /\ tpc[t] = "delete"
    /\ fails < MaxFails
    /\ fails' = fails + 1
    /\ tpc' = [tpc EXCEPT ![t] = "idle"]
    /\ copy' = [copy EXCEPT ![t] = {}]
    /\ rec' \in SUBSET rec
    /\ broken' \in BOOLEAN
    /\ pinned' \in {pinned, FALSE}
    /\ faults' \in {faults, FALSE}
    /\ UNCHANGED <<ctrVars, dir, made, archived, sweepVars, cpc, ppc>>

-----------------------------------------------------------------------------
Create(c) == CreateCheck(c) \/ CreatePrepare(c) \/ CreateLint(c) \/ CreateRun(c)

Work(t) ==
    \/ Stop(t) \/ CopyDefs(t) \/ CopyPlugin(t) \/ CopyRecording(t)
    \/ FinalizeCopy(t) \/ WriteManifest(t) \/ Remove(t) \/ Delete(t)

Next ==
    \/ \E c \in Creators : Create(c)
    \/ HalfMade \/ Produce \/ Expire \/ Trigger \/ PinFind \/ PinWrite \/ SweepList
    \/ \E t \in Teardowns : Begin(t) \/ Work(t) \/ Fail(t) \/ DeletePart(t)

Spec == Init /\ [][Next]_vars

\* The sweeper runs every hour for ever, and every script and request comes to its
\* end; only so many fail.  Its fairness is strong because requests that keep apart
\* from it, where they do, may not keep it away for ever.
FairSpec ==
    /\ Spec
    /\ SF_vars(SweepList)
    /\ SF_vars(Begin(Sweeper))
    /\ \A t \in Teardowns : WF_vars(Work(t))
    /\ \A c \in Creators : WF_vars(CreatePrepare(c) \/ CreateLint(c) \/ CreateRun(c))
    /\ WF_vars(PinWrite)

-----------------------------------------------------------------------------
\* "On failure it remains stopped with its payload intact, so an operator can retry
\* without losing the recording": every chunk ever recorded is in an archive, or
\* still in the payload of the container that recorded it.
Retrievable ==
    \A chunk \in made : chunk \in archived \/ (chunk \in rec /\ ctr = chunk[1])

\* What the sweep takes away is past its TTL and nobody has pinned it: "Pin a fleet to
\* keep it past the TTL" (docs/operating.md:133).  Teardowns, creates, pins and failures
\* may come in between; but whatever is pinned, or created under the name, when the sweep
\* has taken its inventory, is overtaken by it.
PinnedKept ==
    [][tpc[Sweeper] = "remove" /\ tpc'[Sweeper] = "delete" /\ ctr # 0 =>
          (old /\ ~pinned) \/ overtaken]_vars

\* By hand: the same whenever the pin came.
PinnedAlways ==
    [][tpc[Sweeper] = "remove" /\ tpc'[Sweeper] = "delete" /\ ctr # 0 => old /\ ~pinned]_vars

\* By hand: "it has to leave nothing behind": as long as no teardown has failed half way, a new
\* container finds no recording and no running scenario of an earlier one.
FreshStart ==
    [][ctr' # ctr /\ ctr' # 0 /\ fails = 0 => rec = {} /\ ~broken /\ ~faults]_vars

\* A simulation past its TTL that nobody pins is taken away in the end, though
\* teardowns fail now and then; unless its recording cannot be opened, which makes all of
\* them fail.
Swept == (ctr # 0 /\ old) ~> (ctr = 0 \/ pinned \/ broken)

\* By hand: the same whatever the recording is like, "will retry next hour" (main.rs:1456).
SweptAlways == (ctr # 0 /\ old) ~> (ctr = 0 \/ pinned)
=============================================================================
