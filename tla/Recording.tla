------------------------------ MODULE Recording ------------------------------
(***************************************************************************)
(* The raw-recording protocol of crates/sim-engine/src/recording.rs.       *)
(*                                                                         *)
(* Several producer processes (metrics, journal, OTLP, exporters) share    *)
(* one directory.  Each process is a session: it opens the recording,      *)
(* commits a Start frame before it runs, queues every chunk of output it   *)
(* has emitted, and a writer thread moves the queue into events.bin under  *)
(* append.lock, one durable commit per batch.  A finalizer then derives    *)
(* from the committed stream whether the recording is complete.            *)
(*                                                                         *)
(* Frames are numbered by their place in the session's channel, so a       *)
(* frame of the stream is a pair <<session, number>>.  Sizes matter only   *)
(* for the byte cap; the memory bound and the batch bound count frames.    *)
(***************************************************************************)
EXTENDS Integers, Sequences, FiniteSets

CONSTANTS
    Sessions,       \* producer processes, restarts of one producer included
    Threads,        \* capturing threads of one process (control poller, server)
    Producers,      \* metrics, journal, otlp, exporters
    ProducerOf,     \* the producer a session is
    Expected,       \* INFRA_SIM_RECORD_EXPECTED, the manifest's expected_producers
    Sizes,          \* encoded sizes of data frames
    Cap,            \* manifest cap_bytes, without the header
    MaxPending,     \* MAX_PENDING, in frames
    MaxBatch,       \* MAX_BATCH, in frames
    MaxOutputs,     \* bound of the model: chunks of output per session
    FinalizeLive,   \* may finalize run while producers still run?
    Finalizer, Free \* the other values of the lock

ASSUME ProducerAssumption == ProducerOf \in [Sessions -> Producers]
ASSUME ExpectedAssumption == Expected \subseteq Producers
ASSUME ThreadAssumption == IsFiniteSet(Threads)
ASSUME SizeAssumption == Sizes \subseteq Nat \ {0}
ASSUME BoundAssumption ==
    /\ Cap \in Nat
    /\ MaxPending \in Nat
    /\ MaxBatch \in Nat \ {0}
    /\ MaxOutputs \in Nat
    /\ FinalizeLive \in BOOLEAN
ASSUME LockAssumption == Finalizer \notin Sessions /\ Free \notin Sessions \cup {Finalizer}

VARIABLES
    \* The shared directory.
    stage,          \* how far the creation of manifest, events.bin, committed got
    events,         \* whole frames of events.bin, as <<session, number>>
    used,           \* bytes of those frames
    torn,           \* events.bin ends in part of a frame
    committed,      \* frames covered by the committed length
    incomplete,     \* the file "incomplete" exists
    finalized,      \* the file "finalized" exists
    lock,           \* holder of append.lock
    fpc,            \* control of the finalizer
    \* Each producer process.
    pc,             \* control of the process
    failed,         \* Shared.failed
    pending,        \* Shared.pending
    captured,       \* frames sent into the channel, Start first, ever
    settled,        \* frames whose batch is over, written or refused
    taken,          \* frames the writer has received: the batch is settled+1..taken
    written,        \* frames put into events.bin so far
    wpc,            \* control of write_batch, called by opener and writer
    tpc,            \* control of the capturing threads
    held,           \* the frame a capturing thread is about to queue
    emitted         \* chunks of output the producer has emitted

fileVars   == <<events, used, torn, committed>>
dirVars    == <<stage, fileVars, incomplete, finalized>>
chanVars   == <<captured, settled, taken, written>>
threadVars == <<tpc, held, emitted>>
procVars   == <<pc, failed, pending, chanVars, wpc, threadVars>>
vars       == <<dirVars, lock, fpc, procVars>>

Frame == [kind : {"start", "data", "stop"}, out : Nat, size : Nat \ {0}]
StartFrame == [kind |-> "start", out |-> 0, size |-> 1]
StopFrame  == [kind |-> "stop",  out |-> 0, size |-> 1]

Stages == {"none", "manifest", "events", "ready"}
ProcessStates ==
    {"idle", "creating", "header", "commit", "status", "starting",
     "running", "dropping", "draining", "closed", "refused", "crashed"}
WriterStates ==
    {"recv", "lock", "append", "error", "marker", "done", "gone"}
ThreadStates == {"ready", "output", "reserve", "send", "over", "mark", "marker"}

DirType ==
    /\ stage \in Stages
    /\ events \in Seq(Sessions \X (Nat \ {0}))
    /\ used \in Nat
    /\ torn \in BOOLEAN
    /\ committed \in 0..Len(events)
    /\ incomplete \in BOOLEAN
    /\ finalized \in BOOLEAN

ControlType ==
    /\ lock \in Sessions \cup {Finalizer, Free}
    /\ fpc \in {"idle", "verify", "seal"}
    /\ pc \in [Sessions -> ProcessStates]
    /\ wpc \in [Sessions -> WriterStates]
    /\ failed \in [Sessions -> BOOLEAN]
    /\ pending \in [Sessions -> Int]

ChannelType ==
    /\ captured \in [Sessions -> Seq(Frame)]
    /\ settled \in [Sessions -> Nat]
    /\ written \in [Sessions -> Nat]
    /\ taken \in [Sessions -> Nat]
    /\ \A s \in Sessions : /\ settled[s] <= written[s]
                          /\ written[s] <= taken[s]
                          /\ taken[s] <= Len(captured[s])

ThreadType ==
    /\ tpc \in [Sessions -> [Threads -> ThreadStates]]
    /\ held \in [Sessions -> [Threads -> Frame]]
    /\ emitted \in [Sessions -> Nat]

TypeOK == DirType /\ ControlType /\ ChannelType /\ ThreadType

Init ==
    /\ stage = "none"
    /\ events = <<>>
    /\ used = 0
    /\ torn = FALSE
    /\ committed = 0
    /\ incomplete = FALSE
    /\ finalized = FALSE
    /\ lock = Free
    /\ fpc = "idle"
    /\ pc = [s \in Sessions |-> "idle"]
    /\ failed = [s \in Sessions |-> FALSE]
    /\ pending = [s \in Sessions |-> 0]
    /\ captured = [s \in Sessions |-> <<>>]
    /\ settled = [s \in Sessions |-> 0]
    /\ taken = [s \in Sessions |-> 0]
    /\ written = [s \in Sessions |-> 0]
    /\ wpc = [s \in Sessions |-> "recv"]
    /\ tpc = [s \in Sessions |-> [t \in Threads |-> "ready"]]
    /\ held = [s \in Sessions |-> [t \in Threads |-> StartFrame]]
    /\ emitted = [s \in Sessions |-> 0]

-----------------------------------------------------------------------------
(* What the files say. *)

\* status_locked: the file and the committed length disagree.
Mismatch == torn \/ Len(events) # committed

\* What `status` reports of a finalized recording.
Complete == finalized /\ ~incomplete /\ ~Mismatch

FrameAt(i) == captured[events[i][1]][events[i][2]]

\* verify: sessions of the committed stream with a frame of this kind.
SessionsWith(kind) ==
    {s \in Sessions : \E i \in 1..committed : events[i][1] = s /\ FrameAt(i).kind = kind}

\* Mutant: sessions that never stopped are overlooked.
VerifyStartsOnly ==
    LET started == SessionsWith("start")
    IN  started = {} \/ \E p \in Expected : \A s \in started : ProducerOf[s] # p

\* verify: a reason why the committed stream cannot be complete.
VerifyReason ==
    LET started == SessionsWith("start")
        stopped == SessionsWith("stop")
    IN  \/ \E p \in Expected : \A s \in started : ProducerOf[s] # p
        \/ started = {}
        \/ \E s \in started : s \notin stopped

\* Mutant of Refusal: the seal is not looked at.
RefusalOfTorn == Mismatch

\* write_batch: a reason to append nothing, found under the lock.
Refusal == finalized \/ Mismatch

Live(s) == pc[s] \notin {"idle", "closed", "refused", "crashed"}

Idle(s) == \A t \in Threads : tpc[s][t] = "ready"

-----------------------------------------------------------------------------
(* Recorder::open_expected, up to the release of its lock. *)

\* The lock was not free for five seconds, or its file could not be opened.
OpenTimeout(s) ==
    /\ pc[s] = "idle"
    /\ pc' = [pc EXCEPT ![s] = "refused"]
    /\ UNCHANGED <<dirVars, lock, fpc, failed, pending, chanVars, wpc, threadVars>>

\* Lock, and look at what is there: a finalized recording, or one whose creation
\* was interrupted, is refused and the lock released.
OpenLock(s) ==
    /\ pc[s] = "idle"
    /\ lock = Free
    /\ \/ /\ finalized \/ stage \in {"manifest", "events"}
          /\ pc' = [pc EXCEPT ![s] = "refused"]
          /\ UNCHANGED lock
       \/ /\ ~finalized /\ stage \in {"none", "ready"}
          /\ pc' = [pc EXCEPT ![s] = IF stage = "none" THEN "creating" ELSE "status"]
          /\ lock' = s
    /\ UNCHANGED <<dirVars, fpc, failed, pending, chanVars, wpc, threadVars>>

\* A step of the creation: it may reach the disk, fail, or do both (an fsync
\* that fails after the rename).
CreateStep(s, from, to, reached) ==
    /\ pc[s] = from
    /\ \/ /\ stage' = reached
          /\ pc' = [pc EXCEPT ![s] = to]
          /\ UNCHANGED lock
       \/ /\ stage' \in {stage, reached}
          /\ pc' = [pc EXCEPT ![s] = "refused"]
          /\ lock' = Free
    /\ UNCHANGED <<fileVars, incomplete, finalized, fpc, failed, pending, chanVars,
                   wpc, threadVars>>

OpenCreate(s) ==
    \/ CreateStep(s, "creating", "header", "manifest")
    \/ CreateStep(s, "header", "commit", "events")
    \/ CreateStep(s, "commit", "status", "ready")

\* The status under the lock: an incomplete recording fails the recorder from
\* the start, and mark_incomplete may fail to create the marker.
OpenFailed(s) ==
    /\ pc[s] = "status"
    /\ incomplete \/ Mismatch
    /\ failed' = [failed EXCEPT ![s] = TRUE]
    /\ incomplete' \in {incomplete, TRUE}
    /\ lock' = Free
    /\ pc' = [pc EXCEPT ![s] = "starting"]
    /\ UNCHANGED <<stage, fileVars, finalized, fpc, pending, chanVars, wpc, threadVars>>

\* Otherwise the Start frame is the batch that the opener itself writes next.
OpenStart(s) ==
    /\ pc[s] = "status"
    /\ ~incomplete /\ ~Mismatch
    /\ captured' = [captured EXCEPT ![s] = Append(@, StartFrame)]
    /\ taken' = [taken EXCEPT ![s] = @ + 1]
    /\ wpc' = [wpc EXCEPT ![s] = "lock"]
    /\ lock' = Free
    /\ pc' = [pc EXCEPT ![s] = "starting"]
    /\ UNCHANGED <<dirVars, fpc, failed, pending, settled, written, threadVars>>

\* Mutant: the producer runs though neither Start nor marker was persisted.
MayAlwaysRun(s) == TRUE

MayRun(s) == ~failed[s] \/ incomplete

\* After the synchronous Start: a producer that can record neither the Start nor
\* its failure is refused; any other gets its channel and its writer thread, which
\* may fail to spawn.
OpenStarted(s) ==
    /\ pc[s] = "starting"
    /\ wpc[s] \in {"recv", "done"}
    /\ \/ /\ MayRun(s)
          /\ pc' = [pc EXCEPT ![s] = "running"]
       \/ pc' = [pc EXCEPT ![s] = "refused"]
    /\ wpc' = [wpc EXCEPT ![s] = "recv"]
    /\ settled' = [settled EXCEPT ![s] = taken[s]]
    /\ written' = [written EXCEPT ![s] = taken[s]]
    /\ UNCHANGED <<dirVars, lock, fpc, failed, pending, captured, taken, threadVars>>

-----------------------------------------------------------------------------
(* Capturing threads: emit a chunk, then Recorder::capture it. *)

\* RecordedWriter::write: the chunk is out; its frame is not captured yet.
Emit(s, t) ==
    /\ pc[s] = "running"
    /\ tpc[s][t] = "ready"
    /\ emitted[s] < MaxOutputs
    /\ emitted' = [emitted EXCEPT ![s] = @ + 1]
    /\ \E z \in Sizes :
          held' = [held EXCEPT ![s][t] = [kind |-> "data", out |-> emitted[s] + 1, size |-> z]]
    /\ tpc' = [tpc EXCEPT ![s][t] = "output"]
    /\ UNCHANGED <<dirVars, lock, fpc, pc, failed, pending, chanVars, wpc>>

\* The output write failed after part of it went out.
EmitFails(s, t) ==
    /\ pc[s] = "running"
    /\ tpc[s][t] = "ready"
    /\ emitted[s] < MaxOutputs
    /\ emitted' = [emitted EXCEPT ![s] = @ + 1]
    /\ tpc' = [tpc EXCEPT ![s][t] = "mark"]
    /\ UNCHANGED <<dirVars, lock, fpc, pc, failed, pending, chanVars, wpc, held>>

\* Drop for Recorder: the last owner of the recorder captures the Stop frame.
Drop(s, t) ==
    /\ pc[s] = "running"
    /\ Idle(s)
    /\ pc' = [pc EXCEPT ![s] = "dropping"]
    /\ held' = [held EXCEPT ![s][t] = StopFrame]
    /\ tpc' = [tpc EXCEPT ![s][t] = "output"]
    /\ UNCHANGED <<dirVars, lock, fpc, failed, pending, chanVars, wpc, emitted>>

\* The frame is dropped or sent: the thread holds none (a Start stands for none).
Release(s, t) == held' = [held EXCEPT ![s][t] = StartFrame]

\* capture: nothing once failed; encode may refuse the frame.
CaptureCheck(s, t) ==
    /\ tpc[s][t] = "output"
    /\ \/ /\ failed[s]
          /\ tpc' = [tpc EXCEPT ![s][t] = "ready"]
          /\ Release(s, t)
       \/ /\ ~failed[s]
          /\ tpc' = [tpc EXCEPT ![s][t] = "mark"]
          /\ Release(s, t)
       \/ /\ ~failed[s]
          /\ tpc' = [tpc EXCEPT ![s][t] = "reserve"]
          /\ UNCHANGED held
    /\ UNCHANGED <<dirVars, lock, fpc, pc, failed, pending, chanVars, wpc, emitted>>

\* Mutant: a bounded channel, where capture waits for room.
CaptureWaits(s, t) ==
    /\ tpc[s][t] = "reserve"
    /\ pending[s] < MaxPending
    /\ pending' = [pending EXCEPT ![s] = @ + 1]
    /\ tpc' = [tpc EXCEPT ![s][t] = "send"]
    /\ UNCHANGED <<dirVars, lock, fpc, pc, failed, chanVars, wpc, held, emitted>>

\* pending.fetch_add, and the comparison with MAX_PENDING.
CaptureReserve(s, t) ==
    /\ tpc[s][t] = "reserve"
    /\ pending' = [pending EXCEPT ![s] = @ + 1]
    /\ tpc' = [tpc EXCEPT ![s][t] = IF pending[s] + 1 > MaxPending THEN "over" ELSE "send"]
    /\ UNCHANGED <<dirVars, lock, fpc, pc, failed, chanVars, wpc, held, emitted>>

\* The writer fell behind: give the reservation back and stop recording.
CaptureOver(s, t) ==
    /\ tpc[s][t] = "over"
    /\ pending' = [pending EXCEPT ![s] = @ - 1]
    /\ tpc' = [tpc EXCEPT ![s][t] = "mark"]
    /\ Release(s, t)
    /\ UNCHANGED <<dirVars, lock, fpc, pc, failed, chanVars, wpc, emitted>>

CaptureSend(s, t) ==
    /\ tpc[s][t] = "send"
    /\ wpc[s] # "gone"
    /\ captured' = [captured EXCEPT ![s] = Append(@, held[s][t])]
    /\ tpc' = [tpc EXCEPT ![s][t] = "ready"]
    /\ Release(s, t)
    /\ UNCHANGED <<dirVars, lock, fpc, pc, failed, pending, settled, taken, written,
                   wpc, emitted>>

\* Nobody receives any more: the frame's reservation is given back.
CaptureUnsent(s, t) ==
    /\ tpc[s][t] = "send"
    /\ wpc[s] = "gone"
    /\ pending' = [pending EXCEPT ![s] = @ - 1]
    /\ tpc' = [tpc EXCEPT ![s][t] = "mark"]
    /\ Release(s, t)
    /\ UNCHANGED <<dirVars, lock, fpc, pc, failed, chanVars, wpc, emitted>>

\* mark_incomplete: first the flag, then the marker file, which may not be made.
CaptureMark(s, t) ==
    /\ tpc[s][t] = "mark"
    /\ failed' = [failed EXCEPT ![s] = TRUE]
    /\ tpc' = [tpc EXCEPT ![s][t] = "marker"]
    /\ UNCHANGED <<dirVars, lock, fpc, pc, pending, chanVars, wpc, held, emitted>>

CaptureMarker(s, t) ==
    /\ tpc[s][t] = "marker"
    /\ incomplete' \in {incomplete, TRUE}
    /\ tpc' = [tpc EXCEPT ![s][t] = "ready"]
    /\ UNCHANGED <<stage, fileVars, finalized, lock, fpc, pc, failed, pending,
                   chanVars, wpc, held, emitted>>

\* The Stop frame is queued or refused: the sender is dropped, the writer joined.
DropSender(s) ==
    /\ pc[s] = "dropping"
    /\ Idle(s)
    /\ pc' = [pc EXCEPT ![s] = "draining"]
    /\ UNCHANGED <<dirVars, lock, fpc, failed, pending, chanVars, wpc, threadVars>>

DropJoin(s) ==
    /\ pc[s] = "draining"
    /\ wpc[s] = "recv" => taken[s] = Len(captured[s])
    /\ wpc[s] \in {"recv", "gone"}
    /\ pc' = [pc EXCEPT ![s] = "closed"]
    /\ UNCHANGED <<dirVars, lock, fpc, failed, pending, chanVars, wpc, threadVars>>

-----------------------------------------------------------------------------
(* The writer thread: run_writer, and write_batch for it and for the opener. *)

\* The end of the next batch.
Gathered(s) ==
    IF Len(captured[s]) - taken[s] > MaxBatch THEN taken[s] + MaxBatch ELSE Len(captured[s])

Discards(s) == failed[s]

\* Receive what is queued, up to MAX_BATCH; a failed recorder discards it.
WriterGather(s) ==
    /\ pc[s] \in {"running", "dropping", "draining"}
    /\ wpc[s] = "recv"
    /\ taken[s] < Len(captured[s])
    /\ taken' = [taken EXCEPT ![s] = Gathered(s)]
    /\ wpc' = [wpc EXCEPT ![s] = IF Discards(s) THEN "done" ELSE "lock"]
    /\ UNCHANGED <<dirVars, lock, fpc, pc, failed, pending, captured, settled,
                   written, threadVars>>

\* Lock, and look: another process may have failed the recording, finalized it, or
\* died in an append.  The lock is kept only to append.
WriteLock(s) ==
    /\ wpc[s] = "lock"
    /\ lock = Free
    /\ failed' = [failed EXCEPT ![s] = @ \/ incomplete]
    /\ wpc' = [wpc EXCEPT ![s] = IF incomplete THEN "done"
                                  ELSE IF Refusal THEN "error"
                                  ELSE "append"]
    /\ lock' = IF incomplete \/ Refusal THEN Free ELSE s
    /\ UNCHANGED <<dirVars, fpc, pc, pending, chanVars, threadVars>>

\* Mutant: flock without a deadline.
WriteWaits(s) == FALSE

WriteTimeout(s) ==
    /\ wpc[s] = "lock"
    /\ wpc' = [wpc EXCEPT ![s] = "error"]
    /\ UNCHANGED <<dirVars, lock, fpc, pc, failed, pending, chanVars, threadVars>>

NextSize(s) == captured[s][written[s] + 1].size
Fits(s) == written[s] < taken[s] /\ used + NextSize(s) <= Cap

\* The next frame of the batch goes to the file.
WriteFrame(s) ==
    /\ wpc[s] = "append"
    /\ Fits(s)
    /\ events' = Append(events, <<s, written[s] + 1>>)
    /\ used' = used + NextSize(s)
    /\ written' = [written EXCEPT ![s] = @ + 1]
    /\ UNCHANGED <<stage, torn, committed, incomplete, finalized, lock, fpc, pc,
                   failed, pending, captured, settled, taken, wpc, threadVars>>

\* A write failed: part of a frame may be in the file, and the lock is released.
WriteFrameFails(s) ==
    /\ wpc[s] = "append"
    /\ Fits(s)
    /\ torn' \in {torn, TRUE}
    /\ lock' = Free
    /\ wpc' = [wpc EXCEPT ![s] = "error"]
    /\ UNCHANGED <<stage, events, used, committed, incomplete, finalized, fpc, pc,
                   failed, pending, chanVars, threadVars>>

\* One durable commit of what was appended.  The first frame over the cap ended
\* the batch, and is an error after the commit.
WriteCommit(s) ==
    /\ wpc[s] = "append"
    /\ ~Fits(s)
    /\ committed' = Len(events)
    /\ lock' = Free
    /\ wpc' = [wpc EXCEPT ![s] = IF written[s] = taken[s] THEN "done" ELSE "error"]
    /\ UNCHANGED <<stage, events, used, torn, incomplete, finalized, fpc, pc, failed,
                   pending, chanVars, threadVars>>

\* Mutant: a failed commit is retried from the start of the batch.
WriteCommitRetried(s) ==
    /\ wpc[s] = "append"
    /\ ~Fits(s)
    /\ committed' \in {committed, Len(events)}
    /\ lock' = Free
    /\ written' = [written EXCEPT ![s] = settled[s]]
    /\ wpc' = [wpc EXCEPT ![s] = "lock"]
    /\ UNCHANGED <<stage, events, used, torn, incomplete, finalized, fpc, pc, failed,
                   pending, captured, settled, taken, threadVars>>

\* The commit failed, before or after its rename.
WriteCommitFails(s) ==
    /\ wpc[s] = "append"
    /\ ~Fits(s)
    /\ committed' \in {committed, Len(events)}
    /\ lock' = Free
    /\ wpc' = [wpc EXCEPT ![s] = "error"]
    /\ UNCHANGED <<stage, events, used, torn, incomplete, finalized, fpc, pc, failed,
                   pending, chanVars, threadVars>>

\* mark_incomplete by the writer or the opener.
WriteMark(s) ==
    /\ wpc[s] = "error"
    /\ failed' = [failed EXCEPT ![s] = TRUE]
    /\ wpc' = [wpc EXCEPT ![s] = "marker"]
    /\ UNCHANGED <<dirVars, lock, fpc, pc, pending, chanVars, threadVars>>

WriteMarker(s) ==
    /\ wpc[s] = "marker"
    /\ incomplete' \in {incomplete, TRUE}
    /\ wpc' = [wpc EXCEPT ![s] = "done"]
    /\ UNCHANGED <<stage, fileVars, finalized, lock, fpc, pc, failed, pending,
                   chanVars, threadVars>>

\* The thread panics where it reports a failure and nobody reads its standard
\* error: what it took or is still queued is not written, nor given back.
WriterDies(s) ==
    /\ pc[s] \in {"running", "dropping", "draining"}
    /\ wpc[s] = "marker"
    /\ incomplete' \in {incomplete, TRUE}
    /\ wpc' = [wpc EXCEPT ![s] = "gone"]
    /\ UNCHANGED <<stage, fileVars, finalized, lock, fpc, pc, failed, pending,
                   chanVars, threadVars>>

\* Mutant: a batch gives back what earlier ones have given back already.
BatchSizeOverall(s) == taken[s]

BatchSize(s) == taken[s] - settled[s]

WriterDone(s) ==
    /\ pc[s] \in {"running", "dropping", "draining"}
    /\ wpc[s] = "done"
    /\ pending' = [pending EXCEPT ![s] = @ - BatchSize(s)]
    /\ settled' = [settled EXCEPT ![s] = taken[s]]
    /\ written' = [written EXCEPT ![s] = taken[s]]
    /\ wpc' = [wpc EXCEPT ![s] = "recv"]
    /\ UNCHANGED <<dirVars, lock, fpc, pc, failed, captured, taken, threadVars>>

-----------------------------------------------------------------------------
(* A producer dies without unwinding (SIGKILL): the kernel drops its lock, its
   memory is gone, and a frame it was writing may be cut short. *)
Crash(s) ==
    /\ Live(s)
    /\ pc' = [pc EXCEPT ![s] = "crashed"]
    /\ wpc' = [wpc EXCEPT ![s] = "recv"]
    /\ tpc' = [tpc EXCEPT ![s] = [t \in Threads |-> "ready"]]
    /\ torn' \in IF wpc[s] = "append" THEN {torn, TRUE} ELSE {torn}
    /\ lock' = IF lock = s THEN Free ELSE lock
    /\ failed' = [failed EXCEPT ![s] = FALSE]
    /\ pending' = [pending EXCEPT ![s] = 0]
    /\ settled' = [settled EXCEPT ![s] = 0]
    /\ taken' = [taken EXCEPT ![s] = 0]
    /\ written' = [written EXCEPT ![s] = 0]
    /\ held' = [held EXCEPT ![s] = [t \in Threads |-> StartFrame]]
    /\ UNCHANGED <<stage, events, used, committed, incomplete, finalized, fpc,
                   captured, emitted>>

-----------------------------------------------------------------------------
(* finalize. *)

FinalizeLock ==
    /\ fpc = "idle"
    /\ lock = Free
    /\ stage = "ready"
    /\ FinalizeLive \/ \A s \in Sessions : ~Live(s)
    /\ lock' = Finalizer
    /\ fpc' = "verify"
    /\ UNCHANGED <<dirVars, procVars>>

\* The marker goes in before the seal; if it cannot be written, nothing is sealed.
FinalizeVerify ==
    /\ fpc = "verify"
    /\ \/ /\ VerifyReason => incomplete
          /\ fpc' = "seal"
          /\ UNCHANGED <<incomplete, lock>>
       \/ /\ VerifyReason /\ ~incomplete
          /\ incomplete' = TRUE
          /\ fpc' = "seal"
          /\ UNCHANGED lock
       \/ /\ VerifyReason /\ ~incomplete
          /\ incomplete' \in BOOLEAN
          /\ fpc' = "idle"
          /\ lock' = Free
    /\ UNCHANGED <<stage, fileVars, finalized, procVars>>

FinalizeSeal ==
    /\ fpc = "seal"
    /\ finalized' \in {finalized, TRUE}
    /\ fpc' = "idle"
    /\ lock' = Free
    /\ UNCHANGED <<stage, fileVars, incomplete, procVars>>

FinalizeCrash ==
    /\ fpc # "idle"
    /\ fpc' = "idle"
    /\ lock' = Free
    /\ UNCHANGED <<dirVars, procVars>>

-----------------------------------------------------------------------------
Open(s) ==
    \/ OpenLock(s) \/ OpenTimeout(s) \/ OpenCreate(s)
    \/ OpenFailed(s) \/ OpenStart(s) \/ OpenStarted(s)

Capture(s, t) ==
    \/ CaptureCheck(s, t) \/ CaptureReserve(s, t) \/ CaptureOver(s, t)
    \/ CaptureSend(s, t) \/ CaptureUnsent(s, t)
    \/ CaptureMark(s, t) \/ CaptureMarker(s, t)

WriteBatch(s) ==
    \/ WriteLock(s) \/ WriteTimeout(s) \/ WriteFrame(s)
    \/ WriteFrameFails(s) \/ WriteCommit(s) \/ WriteCommitFails(s)
    \/ WriteMark(s) \/ WriteMarker(s) \/ WriterDies(s)

Writer(s) == WriterGather(s) \/ WriteBatch(s) \/ WriterDone(s)

Finalize == FinalizeLock \/ FinalizeVerify \/ FinalizeSeal \/ FinalizeCrash

Next ==
    \/ \E s \in Sessions :
          \/ Open(s) \/ Writer(s) \/ DropSender(s) \/ DropJoin(s) \/ Crash(s)
          \/ \E t \in Threads :
                Emit(s, t) \/ EmitFails(s, t) \/ Drop(s, t) \/ Capture(s, t)
    \/ Finalize

Spec == Init /\ [][Next]_vars

\* The operating system keeps scheduling threads: a capturing thread between
\* two steps of capture, and a writer or a joiner with work to do, eventually
\* takes its step.  Nothing forces a producer to emit, stop or be finalized.
CaptureFairness == \A s \in Sessions, t \in Threads : WF_vars(Capture(s, t))
WriterFairness ==
    \A s \in Sessions : WF_vars(Writer(s)) /\ WF_vars(DropSender(s)) /\ WF_vars(DropJoin(s))

CaptureSpec == Spec /\ CaptureFairness

-----------------------------------------------------------------------------
(* Properties. *)

\* "The recording is always an exact prefix of what was captured" (write_batch):
\* every frame of the file, committed or not, comes after all the frames its
\* session captured before it, and appears once.
ExactPrefix ==
    \A i \in 1..Len(events) :
        LET s == events[i][1]
            n == events[i][2]
        IN  /\ n \in 1..Len(captured[s])
            /\ \A m \in 1..(n - 1) : \E j \in 1..(i - 1) : events[j] = <<s, m>>
            /\ \A j \in 1..(i - 1) : events[j] # <<s, n>>

Recorded(s, k) ==
    \E i \in 1..committed : events[i][1] = s /\ FrameAt(i).kind = "data" /\ FrameAt(i).out = k

\* "Failure to record must never manufacture a successful complete recording"
\* (capture): a recording that reads complete holds every chunk that any
\* producer ever emitted, and all the producers it was configured to expect.
CompleteMeansNothingLost ==
    Complete =>
        /\ \A s \in Sessions : \A k \in 1..emitted[s] : Recorded(s, k)
        /\ \A p \in Expected : \E s \in SessionsWith("start") : ProducerOf[s] = p

\* The AtomicU64 pending never wraps below zero, where every capture would
\* overflow: each batch gives back what its frames reserved, and no more.
PendingNeverWraps == \A s \in Sessions : pending[s] >= 0

\* A producer that cannot record learns it before running (open_expected): one
\* that runs has its Start committed, or the recording says incomplete.
RunningIsRecorded ==
    \A s \in Sessions :
        pc[s] \in {"running", "dropping", "draining"} => incomplete \/ s \in SessionsWith("start")

\* The file was left longer than its committed length by a holder that is gone.
Interrupted == torn \/ (Len(events) # committed /\ lock \in {Free, Finalizer})

\* An interrupted append is never extended or committed over: the committed
\* prefix stays what it was, through every later session and finalization.
InterruptedStays == [][Interrupted => UNCHANGED <<events, committed>>]_vars

\* "Every later append is refused" (status): a finalized stream does not change,
\* and a late producer can only turn the verdict to incomplete, never back.
FinalizedFrozen ==
    [][finalized => /\ finalized'
                    /\ UNCHANGED <<events, torn, committed>>
                    /\ Complete' => Complete]_vars

\* What is closed stays: neither an interrupted append nor a finalized stream is
\* ever touched again, whoever is still alive and whoever comes later.
ClosedStays == InterruptedStays /\ FinalizedFrozen

\* Capture "must never block the telemetry path that called it": a capturing
\* thread gets back to its output whatever the writers, the lock and the
\* finalizer do.
CaptureReturns ==
    \A s \in Sessions, t \in Threads : (tpc[s][t] # "ready") ~> (tpc[s][t] = "ready")

\* A clean stop ends (Drop joins the writer) if only the writer is scheduled: nobody
\* waits forever for the lock.
StopReturns ==
    WriterFairness =>
        \A s \in Sessions : (pc[s] = "dropping") ~> (pc[s] \in {"closed", "crashed"})

\* Nobody waits for the recording: neither who captures nor who stops.
Returns == CaptureReturns /\ StopReturns

-----------------------------------------------------------------------------
(* Refinement: the protocol keeps the contract of a recording. *)

Outputs == {c \in Sessions \X (1..MaxOutputs) : c[2] <= emitted[c[1]]}
Kept    == {<<events[i][1], FrameAt(i).out>> : i \in {j \in 1..committed : FrameAt(j).kind = "data"}}
Verdict == IF ~finalized THEN "open" ELSE IF Complete THEN "complete" ELSE "incomplete"

Contract == INSTANCE RecordingContract WITH out <- Outputs, kept <- Kept, verdict <- Verdict

\* The recording of recording.rs implements RecordingContract.
KeepsContract == Contract!Spec
=============================================================================
