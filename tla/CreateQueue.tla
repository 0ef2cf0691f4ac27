----------------------------- MODULE CreateQueue -----------------------------
(***************************************************************************)
(* Creates on a shared console (crates/sim-console/src/main.rs, create).   *)
(*                                                                         *)
(* A create is checked against the host's budgets, takes a ticket, waits   *)
(* for the one slot of a fair semaphore, is checked again, and is then     *)
(* built by a blocking task that owns slot and ticket, so that a caller    *)
(* who hangs up loses the answer but not the slot.  Its progress is kept   *)
(* in a map that another request polls.                                    *)
(***************************************************************************)
EXTENDS Integers, Sequences

CONSTANTS
    Creates,        \* POST /api/create requests
    Impatient,      \* those whose caller may hang up
    MaxLive,        \* max_live_simulations of the budgets file
    MaxTeardowns,   \* bound of the model: simulations torn down meanwhile
    NoOne           \* nobody has the slot

ASSUME ImpatientAssumption == Impatient \subseteq Creates
ASSUME BoundAssumption == MaxLive \in Nat /\ MaxTeardowns \in Nat
ASSUME FreeAssumption == NoOne \notin Creates

VARIABLES
    live,       \* containers on the host, stopped ones included
    gone,       \* teardowns so far
    waiting,    \* CreateQueue.waiting: tickets out
    slot,       \* who has the semaphore's permit
    queue,      \* who waits for it, in order
    hpc,        \* control of each handler
    wpc,        \* control of its blocking task
    entry       \* its entry in the progress map

queueVars == <<live, gone, waiting, slot, queue, hpc, wpc, entry>>

HandlerStates == {"new", "checked", "joined", "announced", "waiting", "building", "ended", "gone"}
TaskStates == {"none", "build", "built", "leaving", "ended"}

QueueTypes ==
    /\ live \in Nat
    /\ gone \in 0..MaxTeardowns
    /\ waiting \in Nat
    /\ slot \in Creates \cup {NoOne}
    /\ queue \in Seq(Creates)
    /\ hpc \in [Creates -> HandlerStates]
    /\ wpc \in [Creates -> TaskStates]
    /\ entry \in [Creates -> {"none", "queued", "building", "done"}]

QueueInit ==
    /\ live \in 0..MaxLive
    /\ gone = 0
    /\ waiting = 0
    /\ slot = NoOne
    /\ queue = <<>>
    /\ hpc = [h \in Creates |-> "new"]
    /\ wpc = [h \in Creates |-> "none"]
    /\ entry = [h \in Creates |-> "none"]

\* Budgets::check_create, of the live simulations.
HasRoom == live < MaxLive

\* The semaphore hands a released permit to the first in line.
Release ==
    /\ slot' = IF queue = <<>> THEN NoOne ELSE Head(queue)
    /\ queue' = IF queue = <<>> THEN queue ELSE Tail(queue)

\* The first check; the fleet's size and the disk may be refused too.
Check(h) ==
    /\ hpc[h] = "new"
    /\ \/ HasRoom /\ hpc' = [hpc EXCEPT ![h] = "checked"]
       \/ hpc' = [hpc EXCEPT ![h] = "ended"]
    /\ UNCHANGED <<live, gone, waiting, slot, queue, wpc, entry>>

\* waiting.fetch_add, and the ticket that will undo it.
Join(h) ==
    /\ hpc[h] = "checked"
    /\ waiting' = waiting + 1
    /\ hpc' = [hpc EXCEPT ![h] = "joined"]
    /\ UNCHANGED <<live, gone, slot, queue, wpc, entry>>

\* CreateQueue::queued_ahead, the position that is shown.
Reported == IF waiting = 0 THEN 0 ELSE waiting - 1

\* A create that finds others gets an entry that says it is queued.
Announce(h) ==
    /\ hpc[h] = "joined"
    /\ entry' = IF Reported > 0 THEN [entry EXCEPT ![h] = "queued"] ELSE entry
    /\ hpc' = [hpc EXCEPT ![h] = "announced"]
    /\ UNCHANGED <<live, gone, waiting, slot, queue, wpc>>

\* acquire_owned.
Acquire(h) ==
    /\ hpc[h] = "announced"
    /\ hpc' = [hpc EXCEPT ![h] = "waiting"]
    /\ IF slot = NoOne THEN slot' = h /\ UNCHANGED queue
                      ELSE queue' = Append(queue, h) /\ UNCHANGED slot
    /\ UNCHANGED <<live, gone, waiting, wpc, entry>>

\* The second check refuses: the permit goes back, then the ticket.
Refuse(h) ==
    /\ hpc[h] = "waiting"
    /\ slot = h
    /\ entry' = IF entry[h] = "none" THEN entry ELSE [entry EXCEPT ![h] = "done"]
    /\ Release
    /\ waiting' = waiting - 1
    /\ hpc' = [hpc EXCEPT ![h] = "ended"]
    /\ UNCHANGED <<live, gone, wpc>>

\* Mutant: the budgets are not checked again.
StartUnchecked(h) ==
    /\ hpc[h] = "waiting"
    /\ slot = h
    /\ entry' = [entry EXCEPT ![h] = "building"]
    /\ hpc' = [hpc EXCEPT ![h] = "building"]
    /\ wpc' = [wpc EXCEPT ![h] = "build"]
    /\ UNCHANGED <<live, gone, waiting, slot, queue>>

\* It allows: the blocking task takes slot and ticket with it.
Start(h) ==
    /\ hpc[h] = "waiting"
    /\ slot = h
    /\ HasRoom
    /\ entry' = [entry EXCEPT ![h] = "building"]
    /\ hpc' = [hpc EXCEPT ![h] = "building"]
    /\ wpc' = [wpc EXCEPT ![h] = "build"]
    /\ UNCHANGED <<live, gone, waiting, slot, queue>>

\* Environment, image, lint and sim-docker.sh create: a container, or an error
\* that may leave one behind, or none.
BuildOne(h) ==
    /\ wpc[h] = "build"
    /\ live' \in {live, live + 1}
    /\ wpc' = [wpc EXCEPT ![h] = "built"]
    /\ UNCHANGED <<gone, waiting, slot, queue, hpc, entry>>

\* The task's end drops the ticket first and the permit after it.
DropTicket(h) ==
    /\ wpc[h] = "built"
    /\ waiting' = waiting - 1
    /\ wpc' = [wpc EXCEPT ![h] = "leaving"]
    /\ UNCHANGED <<live, gone, slot, queue, hpc, entry>>

\* Mutant: the semaphore forgets to wake the next.
DropSlotSilently(h) ==
    /\ wpc[h] = "leaving"
    /\ slot' = NoOne
    /\ wpc' = [wpc EXCEPT ![h] = "ended"]
    /\ UNCHANGED <<live, gone, waiting, queue, hpc, entry>>

DropSlot(h) ==
    /\ wpc[h] = "leaving"
    /\ Release
    /\ wpc' = [wpc EXCEPT ![h] = "ended"]
    /\ UNCHANGED <<live, gone, waiting, hpc, entry>>

\* The handler gets the task's result.
Finish(h) ==
    /\ hpc[h] = "building"
    /\ wpc[h] = "ended"
    /\ entry' = [entry EXCEPT ![h] = "done"]
    /\ hpc' = [hpc EXCEPT ![h] = "ended"]
    /\ UNCHANGED <<live, gone, waiting, slot, queue, wpc>>

\* The caller hangs up and the handler is dropped where it waits for the slot: it
\* leaves the line, or gives back a permit it was just handed.
Leave(h) ==
    /\ hpc[h] = "waiting"
    /\ h \in Impatient
    /\ IF slot = h THEN Release
       ELSE /\ \E i \in 1..Len(queue) :
                   /\ queue[i] = h
                   /\ queue' = SubSeq(queue, 1, i - 1) \o SubSeq(queue, i + 1, Len(queue))
            /\ UNCHANGED slot
    /\ waiting' = waiting - 1
    /\ hpc' = [hpc EXCEPT ![h] = "gone"]
    /\ UNCHANGED <<live, gone, wpc, entry>>

\* Mutant: the permit stays with the handler, and is dropped with it.
AbandonBuildAll(h) ==
    /\ hpc[h] = "building"
    /\ h \in Impatient
    /\ slot = h
    /\ Release
    /\ hpc' = [hpc EXCEPT ![h] = "gone"]
    /\ UNCHANGED <<live, gone, waiting, wpc, entry>>

\* Or where it waits for the blocking task, which goes on.
AbandonBuild(h) ==
    /\ hpc[h] = "building"
    /\ h \in Impatient
    /\ hpc' = [hpc EXCEPT ![h] = "gone"]
    /\ UNCHANGED <<live, gone, waiting, slot, queue, wpc, entry>>

\* A teardown, by request or by the sweeper.
Teardown ==
    /\ live > 0
    /\ gone < MaxTeardowns
    /\ live' = live - 1
    /\ gone' = gone + 1
    /\ UNCHANGED <<waiting, slot, queue, hpc, wpc, entry>>

-----------------------------------------------------------------------------
Handler(h) ==
    \/ Check(h) \/ Join(h) \/ Announce(h) \/ Acquire(h)
    \/ Refuse(h) \/ Start(h) \/ Finish(h)
Task(h) == BuildOne(h) \/ DropTicket(h) \/ DropSlot(h)
HangUp(h) == Leave(h) \/ AbandonBuild(h)

QueueNext == (\E h \in Creates : Handler(h) \/ Task(h) \/ HangUp(h)) \/ Teardown

QueueSpec == QueueInit /\ [][QueueNext]_queueVars

\* The runtime polls a handler that can go on, and a build ends.
FairQueueSpec == QueueSpec /\ \A h \in Creates : WF_queueVars(Handler(h)) /\ WF_queueVars(Task(h))

-----------------------------------------------------------------------------
\* "Creates are serialized": two builds never run at once, even when the caller of
\* the first has hung up.
Building(h) == wpc[h] \in {"build", "built"}
Serialized == \A g, h \in Creates : Building(g) /\ Building(h) => g = h

\* Creates alone never take the host over max_live_simulations, however many
\* passed the first check while there was still room.
WithinBudget == live <= MaxLive

\* How many creates are really ahead of one that waits.
Ahead(h) ==
    IF slot = h THEN 0
    ELSE LET place == CHOOSE i \in 1..Len(queue) : queue[i] = h
         IN  IF wpc[slot] = "leaving" THEN place - 1 ELSE place

\* By hand: the position shown to a create that waits never promises too much; at zero the
\* slot is its own, or about to be.
NeverUnderstated == \A h \in Creates : hpc[h] = "waiting" => Ahead(h) <= Reported

\* By hand: while a build is under way and nobody is just joining, it is exactly the number
\* of creates ahead ("queued behind N create(s) - yours starts when theirs finishes").
HonestPosition ==
    \A h \in Creates :
       /\ hpc[h] = "waiting" /\ entry[h] = "queued" /\ slot # h /\ Building(slot)
       /\ waiting = Len(queue) + 1
       => Reported = Ahead(h)

\* Nobody waits for ever: builds end, and the line moves.
Served == \A h \in Creates : hpc[h] = "waiting" ~> hpc[h] # "waiting"

\* The progress of a create whose caller stays comes to an end, refused or built.
ProgressEnds ==
    \A h \in Creates : entry[h] \in {"queued", "building"} ~> entry[h] = "done" \/ hpc[h] = "gone"
\* Whoever asks is answered: the line moves for every waiting create, and every
\* progress entry is closed, whatever other callers hang up.
Answered == Served /\ ProgressEnds
=============================================================================
