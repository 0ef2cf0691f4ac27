--------------------------- MODULE RecordingProofs ---------------------------
(***************************************************************************)
(* Theorems about Recording, for every number of sessions, threads and     *)
(* frames, and every value of the bounds: the types, the counter of        *)
(* pending bytes, that the file is an exact prefix of what was captured,   *)
(* and that a recording that reads complete lost nothing.                  *)
(***************************************************************************)
EXTENDS Recording, TLAPS, SequenceTheorems, FiniteSetTheorems

USE DEF vars, dirVars, fileVars, chanVars, threadVars, procVars

-----------------------------------------------------------------------------
(* Facts about the data: sequences, and functions of sessions and threads. *)

\* A frame that marks the start or the end of a session is a frame.
LEMMA MarkFrames == StartFrame \in Frame /\ StopFrame \in Frame
BY DEF Frame, StartFrame, StopFrame

\* Channels and the stream are sequences, with natural lengths.
LEMMA ChannelSeq ==
    ASSUME ChannelType, NEW s \in Sessions
    PROVE  captured[s] \in Seq(Frame) /\ Len(captured[s]) \in Nat
<1>1. captured[s] \in Seq(Frame)
  BY DEF ChannelType
<1> QED
  BY <1>1, LenProperties

LEMMA StreamSeq ==
    ASSUME DirType
    PROVE  events \in Seq(Sessions \X (Nat \ {0})) /\ Len(events) \in Nat
<1>1. events \in Seq(Sessions \X (Nat \ {0}))
  BY DEF DirType
<1> QED
  BY <1>1, LenProperties

\* Sending a frame lengthens one channel and keeps every frame already sent.
LEMMA ChannelAppend ==
    ASSUME ChannelType, NEW s \in Sessions, NEW f \in Frame,
           captured' = [captured EXCEPT ![s] = Append(@, f)]
    PROVE  /\ captured' \in [Sessions -> Seq(Frame)]
           /\ Len(captured'[s]) = Len(captured[s]) + 1
           /\ captured'[s][Len(captured[s]) + 1] = f
           /\ \A n \in 1..Len(captured[s]) : captured'[s][n] = captured[s][n]
           /\ \A r \in Sessions \ {s} : captured'[r] = captured[r]
<1>1. captured[s] \in Seq(Frame) /\ captured \in [Sessions -> Seq(Frame)]
  BY DEF ChannelType
<1>2. captured'[s] = Append(captured[s], f)
  BY <1>1
<1>3. /\ Append(captured[s], f) \in Seq(Frame)
      /\ Len(Append(captured[s], f)) = Len(captured[s]) + 1
      /\ Append(captured[s], f)[Len(captured[s]) + 1] = f
      /\ \A n \in 1..Len(captured[s]) : Append(captured[s], f)[n] = captured[s][n]
  BY <1>1, AppendProperties
<1> QED
  BY <1>1, <1>2, <1>3

\* Writing the next frame of a batch lengthens the stream by that frame.
LEMMA StreamAppend ==
    ASSUME DirType, ChannelType, NEW s \in Sessions, written[s] < taken[s],
           events' = Append(events, <<s, written[s] + 1>>)
    PROVE  /\ events' \in Seq(Sessions \X (Nat \ {0}))
           /\ Len(events') = Len(events) + 1
           /\ events'[Len(events) + 1] = <<s, written[s] + 1>>
           /\ \A i \in 1..Len(events) : events'[i] = events[i]
<1>1. <<s, written[s] + 1>> \in Sessions \X (Nat \ {0})
  BY DEF ChannelType
<1> QED
  BY <1>1, StreamSeq, AppendProperties

\* A step of one thread changes the state of no other.
LEMMA ThreadStep ==
    ASSUME ThreadType, NEW s \in Sessions, NEW t \in Threads, NEW c \in ThreadStates,
           tpc' = [tpc EXCEPT ![s][t] = c]
    PROVE  /\ tpc' \in [Sessions -> [Threads -> ThreadStates]]
           /\ tpc'[s][t] = c
           /\ \A u \in Threads \ {t} : tpc'[s][u] = tpc[s][u]
           /\ \A r \in Sessions \ {s} : tpc'[r] = tpc[r]
BY DEF ThreadType

LEMMA HeldStep ==
    ASSUME ThreadType, NEW s \in Sessions, NEW t \in Threads, NEW f \in Frame,
           held' = [held EXCEPT ![s][t] = f]
    PROVE  /\ held' \in [Sessions -> [Threads -> Frame]]
           /\ held'[s][t] = f
           /\ \A u \in Threads \ {t} : held'[s][u] = held[s][u]
           /\ \A r \in Sessions \ {s} : held'[r] = held[r]
BY DEF ThreadType

-----------------------------------------------------------------------------
(* Type correctness. *)

LEMMA InitType == Init => TypeOK
<1> SUFFICES ASSUME Init PROVE TypeOK
  OBVIOUS
<1>1. DirType
  <2>1. events = <<>> /\ Len(events) = 0 /\ committed = 0
    BY DEF Init
  <2>2. events \in Seq(Sessions \X (Nat \ {0}))
    BY <2>1, EmptySeq
  <2>3. stage = "none" /\ used = 0 /\ ~torn /\ ~incomplete /\ ~finalized
    BY DEF Init
  <2>4. torn \in BOOLEAN /\ incomplete \in BOOLEAN /\ finalized \in BOOLEAN
    BY DEF Init
  <2>5. committed \in 0..Len(events)
    BY <2>1
  <2> QED
    BY <2>2, <2>3, <2>4, <2>5 DEF DirType, Stages
<1>2. ControlType
  BY DEF Init, ControlType, ProcessStates, WriterStates
<1>3. ChannelType
  <2>1. \A s \in Sessions : captured[s] = <<>> /\ Len(captured[s]) = 0
    BY DEF Init
  <2>2. captured \in [Sessions -> Seq(Frame)]
    BY EmptySeq DEF Init
  <2> QED
    BY <2>1, <2>2 DEF Init, ChannelType
<1>4. ThreadType
  BY MarkFrames DEF Init, ThreadType, ThreadStates
<1> QED
  BY <1>1, <1>2, <1>3, <1>4 DEF TypeOK

\* What an action leaves alone keeps its type.
LEMMA SameDir == DirType /\ UNCHANGED dirVars => DirType'
BY DEF DirType

LEMMA SameChannel == ChannelType /\ UNCHANGED chanVars => ChannelType'
BY DEF ChannelType

LEMMA SameThread == ThreadType /\ UNCHANGED threadVars => ThreadType'
BY DEF ThreadType

\* A marker file may or may not be created.
LEMMA MarkerDir ==
    DirType /\ incomplete' \in {incomplete, TRUE} /\ UNCHANGED <<stage, fileVars, finalized>>
        => DirType'
BY DEF DirType

USE DEF Stages, ProcessStates, WriterStates, ThreadStates

LEMMA OpenType ==
    ASSUME TypeOK, NEW s \in Sessions, Open(s)
    PROVE  TypeOK'
<1> USE DEF TypeOK
<1>1. CASE OpenLock(s) \/ OpenTimeout(s)
  <2>1. ControlType'
    BY <1>1 DEF OpenLock, OpenTimeout, ControlType
  <2> QED
    BY <1>1, <2>1, SameDir, SameChannel, SameThread DEF OpenLock, OpenTimeout
<1>2. CASE OpenCreate(s)
  <2>1. ControlType' /\ DirType'
    BY <1>2 DEF OpenCreate, CreateStep, ControlType, DirType
  <2> QED
    BY <1>2, <2>1, SameChannel, SameThread DEF OpenCreate, CreateStep
<1>3. CASE OpenFailed(s)
  <2>1. ControlType'
    BY <1>3 DEF OpenFailed, ControlType
  <2> QED
    BY <1>3, <2>1, MarkerDir, SameChannel, SameThread DEF OpenFailed
<1>4. CASE OpenStart(s)
  <2>1. ControlType'
    BY <1>4 DEF OpenStart, ControlType
  <2>2. Len(captured'[s]) = Len(captured[s]) + 1 /\ Len(captured[s]) \in Nat
    BY <1>4, MarkFrames, ChannelAppend, ChannelSeq DEF OpenStart
  <2>3. /\ captured' \in [Sessions -> Seq(Frame)]
        /\ \A r \in Sessions \ {s} : captured'[r] = captured[r]
    BY <1>4, MarkFrames, ChannelAppend DEF OpenStart
  <2>4. ChannelType'
    BY <1>4, <2>2, <2>3 DEF OpenStart, ChannelType
  <2> QED
    BY <1>4, <2>1, <2>4, SameDir, SameThread DEF OpenStart
<1>5. CASE OpenStarted(s)
  <2>1. ControlType'
    BY <1>5 DEF OpenStarted, ControlType
  <2>2. ChannelType'
    BY <1>5 DEF OpenStarted, ChannelType
  <2> QED
    BY <1>5, <2>1, <2>2, SameDir, SameThread DEF OpenStarted
<1> QED
  BY <1>1, <1>2, <1>3, <1>4, <1>5 DEF Open

LEMMA CaptureType ==
    ASSUME TypeOK, NEW s \in Sessions, NEW t \in Threads,
           Emit(s, t) \/ EmitFails(s, t) \/ Drop(s, t) \/ Capture(s, t)
    PROVE  TypeOK'
<1> USE DEF TypeOK
<1>1. CASE Emit(s, t)
  <2>1. PICK z \in Sizes :
          held' = [held EXCEPT ![s][t] = [kind |-> "data", out |-> emitted[s] + 1, size |-> z]]
    BY <1>1 DEF Emit
  <2>2. [kind |-> "data", out |-> emitted[s] + 1, size |-> z] \in Frame
    BY SizeAssumption DEF Frame, ThreadType
  <2>a. held' \in [Sessions -> [Threads -> Frame]]
    BY <2>1, <2>2, HeldStep
  <2>b. tpc' \in [Sessions -> [Threads -> ThreadStates]]
    BY <1>1, ThreadStep DEF Emit
  <2>c. emitted' \in [Sessions -> Nat]
    BY <1>1 DEF Emit, ThreadType
  <2>3. ThreadType'
    BY <2>a, <2>b, <2>c DEF ThreadType
  <2>4. ControlType'
    BY <1>1 DEF Emit, ControlType
  <2> QED
    BY <1>1, <2>3, <2>4, SameDir, SameChannel DEF Emit
<1>2. CASE EmitFails(s, t)
  <2>a. tpc' \in [Sessions -> [Threads -> ThreadStates]]
    BY <1>2, ThreadStep DEF EmitFails
  <2>b. emitted' \in [Sessions -> Nat] /\ held' \in [Sessions -> [Threads -> Frame]]
    BY <1>2 DEF EmitFails, ThreadType
  <2>1. ThreadType'
    BY <2>a, <2>b DEF ThreadType
  <2>2. ControlType'
    BY <1>2 DEF EmitFails, ControlType
  <2> QED
    BY <1>2, <2>1, <2>2, SameDir, SameChannel DEF EmitFails
<1>3. CASE Drop(s, t)
  <2>1. ThreadType'
    BY <1>3, MarkFrames, HeldStep, ThreadStep DEF Drop, ThreadType
  <2>2. ControlType'
    BY <1>3 DEF Drop, ControlType
  <2> QED
    BY <1>3, <2>1, <2>2, SameDir, SameChannel DEF Drop
<1>4. CASE CaptureCheck(s, t)
  <2>a. held' \in [Sessions -> [Threads -> Frame]]
    BY <1>4, MarkFrames, HeldStep DEF CaptureCheck, Release, ThreadType
  <2>b. tpc' \in [Sessions -> [Threads -> ThreadStates]]
    BY <1>4, ThreadStep DEF CaptureCheck
  <2>1. ThreadType'
    BY <1>4, <2>a, <2>b DEF CaptureCheck, ThreadType
  <2>2. ControlType'
    BY <1>4 DEF CaptureCheck, ControlType
  <2> QED
    BY <1>4, <2>1, <2>2, SameDir, SameChannel DEF CaptureCheck
<1>5. CASE CaptureReserve(s, t)
  <2>1. ThreadType'
    BY <1>5, ThreadStep DEF CaptureReserve, ThreadType
  <2>2. ControlType'
    BY <1>5 DEF CaptureReserve, ControlType
  <2> QED
    BY <1>5, <2>1, <2>2, SameDir, SameChannel DEF CaptureReserve
<1>6. CASE CaptureOver(s, t) \/ CaptureUnsent(s, t)
  <2>a. held' \in [Sessions -> [Threads -> Frame]]
    BY <1>6, MarkFrames, HeldStep DEF CaptureOver, CaptureUnsent, Release
  <2>b. tpc' \in [Sessions -> [Threads -> ThreadStates]]
    BY <1>6, ThreadStep DEF CaptureOver, CaptureUnsent
  <2>1. ThreadType'
    BY <1>6, <2>a, <2>b DEF CaptureOver, CaptureUnsent, ThreadType
  <2>2. ControlType'
    BY <1>6 DEF CaptureOver, CaptureUnsent, ControlType
  <2> QED
    BY <1>6, <2>1, <2>2, SameDir, SameChannel DEF CaptureOver, CaptureUnsent
<1>7. CASE CaptureSend(s, t)
  <2>1. held[s][t] \in Frame
    BY DEF ThreadType
  <2>2. /\ captured' \in [Sessions -> Seq(Frame)]
        /\ Len(captured'[s]) = Len(captured[s]) + 1
        /\ \A r \in Sessions \ {s} : captured'[r] = captured[r]
    BY <1>7, <2>1, ChannelAppend DEF CaptureSend, CaptureUnsent
  <2>3. Len(captured[s]) \in Nat
    BY ChannelSeq
  <2>4. ChannelType'
    BY <1>7, <2>2, <2>3 DEF CaptureSend, CaptureUnsent, ChannelType
  <2>5. ThreadType'
    BY <1>7, MarkFrames, HeldStep, ThreadStep DEF CaptureSend, CaptureUnsent, Release, ThreadType
  <2>6. ControlType'
    BY <1>7 DEF CaptureSend, CaptureUnsent, ControlType
  <2> QED
    BY <1>7, <2>4, <2>5, <2>6, SameDir DEF CaptureSend, CaptureUnsent
<1>8. CASE CaptureMark(s, t) \/ CaptureMarker(s, t)
  <2>1. ThreadType'
    BY <1>8, ThreadStep DEF CaptureMark, CaptureMarker, ThreadType
  <2>2. ControlType'
    BY <1>8 DEF CaptureMark, CaptureMarker, ControlType
  <2> QED
    BY <1>8, <2>1, <2>2, SameDir, MarkerDir, SameChannel DEF CaptureMark, CaptureMarker
<1> QED
  BY <1>1, <1>2, <1>3, <1>4, <1>5, <1>6, <1>7, <1>8 DEF Capture

\* The end of a batch is past its start and within the channel.
LEMMA GatheredBounds ==
    ASSUME ChannelType, NEW s \in Sessions, taken[s] < Len(captured[s])
    PROVE  /\ Gathered(s) \in Nat
           /\ taken[s] < Gathered(s)
           /\ Gathered(s) <= Len(captured[s])
<1>1. taken[s] \in Nat /\ Len(captured[s]) \in Nat
  BY ChannelSeq DEF ChannelType
<1> QED
  BY <1>1, BoundAssumption DEF Gathered

LEMMA WriterType ==
    ASSUME TypeOK, NEW s \in Sessions, Writer(s)
    PROVE  TypeOK'
<1> USE DEF TypeOK
<1>1. CASE WriterGather(s)
  <2>1. ChannelType'
    BY <1>1, GatheredBounds DEF WriterGather, ChannelType
  <2>2. ControlType'
    BY <1>1 DEF WriterGather, ControlType
  <2> QED
    BY <1>1, <2>1, <2>2, SameDir, SameThread DEF WriterGather
<1>2. CASE WriteLock(s) \/ WriteTimeout(s) \/ WriteMark(s)
  <2>1. ControlType'
    BY <1>2 DEF WriteLock, WriteTimeout, WriteMark, ControlType, DirType
  <2> QED
    BY <1>2, <2>1, SameDir, SameChannel, SameThread DEF WriteLock, WriteTimeout, WriteMark
<1>3. CASE WriteFrame(s)
  <2>1. written[s] < taken[s] /\ written[s] + 1 \in 1..Len(captured[s])
    BY <1>3, ChannelSeq DEF WriteFrame, Fits, ChannelType
  <2>2. NextSize(s) \in Nat
    <3>1. captured[s][written[s] + 1] \in Frame
      BY <2>1, ChannelSeq, ElementOfSeq
    <3> QED
      BY <3>1 DEF Frame, NextSize
  <2>3. DirType'
    <3>1. used' \in Nat
      BY <1>3, <2>2 DEF WriteFrame, DirType
    <3>2. /\ events' \in Seq(Sessions \X (Nat \ {0}))
          /\ Len(events') = Len(events) + 1
      BY <1>3, <2>1, StreamAppend DEF WriteFrame
    <3>3. committed' \in 0..Len(events')
      BY <1>3, <3>2, StreamSeq DEF WriteFrame, DirType
    <3> QED
      BY <1>3, <3>1, <3>2, <3>3 DEF WriteFrame, DirType
  <2>4. ChannelType'
    BY <1>3, <2>1 DEF WriteFrame, ChannelType
  <2>5. ControlType'
    BY <1>3 DEF WriteFrame, ControlType
  <2> QED
    BY <1>3, <2>3, <2>4, <2>5, SameThread DEF WriteFrame
<1>4. CASE WriteFrameFails(s) \/ WriteCommit(s) \/ WriteCommitFails(s)
  <2>a. Len(events) \in 0..Len(events) /\ committed \in 0..Len(events)
    BY StreamSeq DEF DirType
  <2>b. committed' \in 0..Len(events) /\ events' = events
    BY <1>4, <2>a DEF WriteFrameFails, WriteCommit, WriteCommitFails
  <2>1. DirType'
    BY <1>4, <2>b DEF WriteFrameFails, WriteCommit, WriteCommitFails, DirType
  <2>2. ControlType'
    BY <1>4 DEF WriteFrameFails, WriteCommit, WriteCommitFails, ControlType
  <2> QED
    BY <1>4, <2>1, <2>2, SameChannel, SameThread
    DEF WriteFrameFails, WriteCommit, WriteCommitFails
<1>5. CASE WriteMarker(s) \/ WriterDies(s)
  <2>1. ControlType'
    BY <1>5 DEF WriteMarker, WriterDies, ControlType
  <2> QED
    BY <1>5, <2>1, MarkerDir, SameChannel, SameThread DEF WriteMarker, WriterDies
<1>6. CASE WriterDone(s)
  <2>1. ControlType'
    BY <1>6 DEF WriterDone, BatchSize, ControlType, ChannelType
  <2>2. ChannelType'
    BY <1>6 DEF WriterDone, ChannelType
  <2> QED
    BY <1>6, <2>1, <2>2, SameDir, SameThread DEF WriterDone
<1> QED
  BY <1>1, <1>2, <1>3, <1>4, <1>5, <1>6 DEF Writer, WriteBatch

LEMMA CrashType ==
    ASSUME TypeOK, NEW s \in Sessions, Crash(s)
    PROVE  TypeOK'
<1> USE DEF TypeOK
<1>1. DirType'
  BY DEF Crash, DirType
<1>2. ControlType'
  BY DEF Crash, ControlType
<1>3. ChannelType'
  BY ChannelSeq DEF Crash, ChannelType
<1>4. ThreadType'
  BY MarkFrames DEF Crash, ThreadType
<1> QED
  BY <1>1, <1>2, <1>3, <1>4

LEMMA FinalizeType ==
    ASSUME TypeOK, Finalize
    PROVE  TypeOK'
<1> USE DEF TypeOK
<1>1. DirType'
  BY DEF Finalize, FinalizeLock, FinalizeVerify, FinalizeSeal, FinalizeCrash, DirType
<1>2. ControlType'
  BY DEF Finalize, FinalizeLock, FinalizeVerify, FinalizeSeal, FinalizeCrash, ControlType
<1> QED
  BY <1>1, <1>2, SameChannel, SameThread
  DEF Finalize, FinalizeLock, FinalizeVerify, FinalizeSeal, FinalizeCrash

LEMMA NextType == TypeOK /\ [Next]_vars => TypeOK'
<1> SUFFICES ASSUME TypeOK, [Next]_vars PROVE TypeOK'
  OBVIOUS
<1>1. ASSUME NEW s \in Sessions, Open(s) PROVE TypeOK'
  BY <1>1, OpenType
<1>2. ASSUME NEW s \in Sessions, Writer(s) PROVE TypeOK'
  BY <1>2, WriterType
<1>3. ASSUME NEW s \in Sessions, DropSender(s) \/ DropJoin(s) PROVE TypeOK'
  <2>1. ControlType'
    BY <1>3 DEF DropSender, DropJoin, ControlType, TypeOK
  <2> QED
    BY <1>3, <2>1, SameDir, SameChannel, SameThread DEF DropSender, DropJoin, TypeOK
<1>4. ASSUME NEW s \in Sessions, Crash(s) PROVE TypeOK'
  BY <1>4, CrashType
<1>5. ASSUME NEW s \in Sessions, NEW t \in Threads,
             Emit(s, t) \/ EmitFails(s, t) \/ Drop(s, t) \/ Capture(s, t)
      PROVE  TypeOK'
  BY <1>5, CaptureType
<1>6. CASE Finalize
  BY <1>6, FinalizeType
<1>7. CASE UNCHANGED vars
  <2>1. ControlType'
    BY <1>7 DEF ControlType, TypeOK
  <2> QED
    BY <1>7, <2>1, SameDir, SameChannel, SameThread DEF TypeOK
<1> QED
  BY <1>1, <1>2, <1>3, <1>4, <1>5, <1>6, <1>7 DEF Next

\* Every state the protocol reaches is well typed; in particular a writer never
\* receives, and never writes, past the end of its channel.
THEOREM TypeCorrect == Spec => []TypeOK
BY InitType, NextType, PTL DEF Spec

-----------------------------------------------------------------------------
(***************************************************************************)
(* The counter of pending bytes never wraps.                               *)
(*                                                                         *)
(* What a process has reserved and not given back is what its channel      *)
(* holds past the last settled batch, and one more for every thread        *)
(* between its reservation and the end of its capture.                     *)
(***************************************************************************)
Active == {"running", "dropping", "draining"}

\* The threads whose reservation no frame of the channel stands for.
Reserved(s) == {t \in Threads : tpc[s][t] \in {"send", "over"}}

Counted(s) == pending[s] = (Len(captured[s]) - settled[s]) + Cardinality(Reserved(s))

\* Only a process that runs or ends has a counter at work, and threads.
PendingInv(s) ==
    /\ pc[s] \in Active => Counted(s)
    /\ pc[s] \notin Active \cup {"closed"} => pending[s] = 0
    /\ pc[s] = "closed" => pending[s] >= 0
    /\ pc[s] \notin {"running", "dropping"} => Idle(s)
    /\ pc[s] = "starting" /\ wpc[s] = "recv" => captured[s] = <<>>
    /\ pc[s] = "starting" /\ wpc[s] # "recv" => taken[s] = Len(captured[s])
    /\ pc[s] \in ProcessStates \ (Active \cup {"starting", "closed", "refused", "crashed"}) =>
            captured[s] = <<>> /\ taken[s] = 0 /\ wpc[s] = "recv"

CounterInv == TypeOK /\ \A s \in Sessions : PendingInv(s)

\* The threads that have reserved are finitely many.
LEMMA ReservedFinite ==
    ASSUME NEW s \in Sessions
    PROVE  IsFiniteSet(Reserved(s)) /\ Cardinality(Reserved(s)) \in Nat
<1>1. Reserved(s) \in SUBSET Threads
  BY DEF Reserved
<1> QED
  BY <1>1, ThreadAssumption, FS_Subset, FS_CardinalityType

LEMMA NoneReserved ==
    ASSUME NEW s \in Sessions, Idle(s)
    PROVE  Cardinality(Reserved(s)) = 0
<1>1. Reserved(s) = {}
  BY DEF Idle, Reserved
<1> QED
  BY <1>1, FS_EmptySet

\* A channel is not shorter than what is settled of it.
LEMMA Lengths ==
    ASSUME TypeOK, NEW s \in Sessions
    PROVE  /\ Len(captured[s]) \in Nat /\ settled[s] \in Nat /\ taken[s] \in Nat
           /\ settled[s] <= taken[s] /\ taken[s] <= Len(captured[s])
           /\ pending[s] \in Int
BY ChannelSeq DEF TypeOK, ChannelType, ControlType

LEMMA InitCounter == Init => CounterInv
BY InitType DEF Init, CounterInv, PendingInv, Active, Idle

\* A step that leaves alone what the counter is about.
LEMMA SameCounter ==
    ASSUME TypeOK, NEW s \in Sessions, PendingInv(s),
           pending'[s] = pending[s], captured'[s] = captured[s], settled'[s] = settled[s],
           taken'[s] = taken[s], tpc'[s] = tpc[s], pc'[s] = pc[s], wpc'[s] = wpc[s]
    PROVE  PendingInv(s)'
<1>1. Reserved(s)' = Reserved(s) /\ Idle(s)' = Idle(s)
  BY DEF Reserved, Idle
<1> QED
  BY <1>1 DEF PendingInv, Counted

\* The opening, up to the first batch.
LEMMA OpenCounter ==
    ASSUME TypeOK, NEW s \in Sessions, PendingInv(s), Open(s)
    PROVE  PendingInv(s)'
<1>1. CASE OpenLock(s) \/ OpenTimeout(s) \/ OpenCreate(s) \/ OpenFailed(s)
  <2>1. /\ pc[s] \in {"idle", "creating", "header", "commit", "status"}
        /\ pc'[s] \in {"creating", "header", "commit", "status", "starting", "refused"}
        /\ UNCHANGED <<pending, chanVars, tpc, wpc>>
    BY <1>1 DEF OpenLock, OpenTimeout, OpenCreate, CreateStep, OpenFailed, TypeOK, ControlType
  <2>2. captured[s] = <<>> /\ taken[s] = 0 /\ wpc[s] = "recv" /\ pending[s] = 0 /\ Idle(s)
    BY <2>1 DEF PendingInv, Active
  <2> QED
    BY <2>1, <2>2 DEF PendingInv, Active, Idle
<1>2. CASE OpenStart(s)
  <2>1. captured[s] = <<>> /\ taken[s] = 0 /\ pending[s] = 0 /\ Idle(s)
    BY <1>2 DEF OpenStart, PendingInv, Active
  <2>2. Len(captured'[s]) = 1 /\ taken'[s] = 1 /\ pc'[s] = "starting" /\ wpc'[s] = "lock"
    BY <1>2, <2>1, MarkFrames, ChannelAppend DEF OpenStart, TypeOK, ChannelType, ControlType
  <2> QED
    BY <1>2, <2>1, <2>2 DEF OpenStart, PendingInv, Active, Idle
<1>3. CASE OpenStarted(s)
  <2>1. /\ pc[s] = "starting" /\ pc'[s] \in {"running", "refused"} /\ wpc'[s] = "recv"
        /\ settled'[s] = taken[s] /\ UNCHANGED <<captured, pending, tpc>>
    BY <1>3 DEF OpenStarted, TypeOK, ControlType, ChannelType
  <2>2. taken[s] = Len(captured[s])
    <3>1. CASE wpc[s] = "recv"
      <4>1. captured[s] = <<>>
        BY <2>1, <3>1 DEF PendingInv
      <4> QED
        BY <4>1, Lengths
    <3>2. CASE wpc[s] # "recv"
      BY <2>1, <3>2 DEF PendingInv
    <3> QED
      BY <3>1, <3>2
  <2>3. pending[s] = 0 /\ Idle(s)
    BY <2>1 DEF PendingInv, Active
  <2>4. Idle(s)' /\ Cardinality(Reserved(s)') = 0
    <3>1. Idle(s)' /\ Reserved(s)' = Reserved(s)
      BY <2>1, <2>3 DEF Idle, Reserved
    <3> QED
      BY <2>3, <3>1, NoneReserved
  <2>5. Counted(s)'
    BY <2>1, <2>2, <2>3, <2>4, Lengths DEF Counted
  <2> QED
    BY <2>1, <2>3, <2>4, <2>5 DEF PendingInv, Active
<1> QED
  BY <1>1, <1>2, <1>3 DEF Open

\* What the writer takes and writes changes no reservation; the end of a batch does.
LEMMA WriterCounter ==
    ASSUME TypeOK, NEW s \in Sessions, PendingInv(s), Writer(s)
    PROVE  PendingInv(s)'
<1>1. CASE WriterGather(s)
  <2>1. pc[s] \in Active /\ UNCHANGED <<pc, pending, captured, settled, tpc>>
    BY <1>1 DEF WriterGather, Active
  <2>2. Reserved(s)' = Reserved(s) /\ Idle(s)' = Idle(s)
    BY <2>1 DEF Reserved, Idle
  <2> QED
    BY <2>1, <2>2 DEF PendingInv, Counted, Active
<1>2. CASE WriteBatch(s)
  <2>1. /\ wpc[s] # "recv" /\ wpc'[s] # "recv"
        /\ UNCHANGED <<pc, pending, captured, settled, taken, tpc>>
    BY <1>2 DEF WriteBatch, WriteLock, WriteTimeout, WriteFrame, WriteFrameFails, WriteCommit,
       WriteCommitFails, WriteMark, WriteMarker, WriterDies, TypeOK, ControlType
  <2>2. Reserved(s)' = Reserved(s) /\ Idle(s)' = Idle(s)
    BY <2>1 DEF Reserved, Idle
  <2> QED
    BY <2>1, <2>2 DEF PendingInv, Counted
<1>3. CASE WriterDone(s)
  <2>1. /\ pc[s] \in Active /\ UNCHANGED <<pc, captured, taken, tpc>>
        /\ pending'[s] = pending[s] - (taken[s] - settled[s]) /\ settled'[s] = taken[s]
    BY <1>3 DEF WriterDone, BatchSize, Active, TypeOK, ControlType, ChannelType
  <2>2. Reserved(s)' = Reserved(s) /\ Idle(s)' = Idle(s)
    BY <2>1 DEF Reserved, Idle
  <2>3. Counted(s)'
    BY <2>1, <2>2, Lengths, ReservedFinite DEF PendingInv, Counted
  <2> QED
    BY <2>1, <2>2, <2>3 DEF PendingInv, Active
<1> QED
  BY <1>1, <1>2, <1>3 DEF Writer

\* Where a thread goes says whether it has a reservation from then on.
LEMMA StepReserved ==
    ASSUME TypeOK, NEW s \in Sessions, NEW t \in Threads, NEW c \in ThreadStates,
           tpc' = [tpc EXCEPT ![s][t] = c]
    PROVE  /\ c \in {"send", "over"} => Reserved(s)' = Reserved(s) \cup {t}
           /\ c \notin {"send", "over"} => Reserved(s)' = Reserved(s) \ {t}
           /\ \A r \in Sessions \ {s} : tpc'[r] = tpc[r]
<1>1. /\ tpc'[s][t] = c
      /\ \A u \in Threads \ {t} : tpc'[s][u] = tpc[s][u]
      /\ \A r \in Sessions \ {s} : tpc'[r] = tpc[r]
  BY ThreadStep, ZenonT(40) DEF TypeOK
<1> QED
  BY <1>1 DEF Reserved

\* A thread that reserves is counted from then on, until it sends or gives back.
LEMMA CaptureCounter ==
    ASSUME TypeOK, NEW s \in Sessions, NEW t \in Threads, PendingInv(s), Capture(s, t)
    PROVE  PendingInv(s)'
<1>1. /\ ~Idle(s) /\ pc[s] \in {"running", "dropping"}
      /\ UNCHANGED <<pc, settled, taken, wpc>>
  BY DEF Capture, CaptureCheck, CaptureReserve, CaptureOver, CaptureSend, CaptureUnsent, CaptureMark,
     CaptureMarker, Idle, PendingInv
<1>2. Counted(s)
  BY <1>1 DEF PendingInv, Active
<1>3. IsFiniteSet(Reserved(s)) /\ Cardinality(Reserved(s)) \in Nat
  BY ReservedFinite
<1>4. Counted(s)'
  <2>1. CASE CaptureCheck(s, t) \/ CaptureMark(s, t) \/ CaptureMarker(s, t)
    <3>1. PICK c \in {"ready", "mark", "reserve", "marker"} :
              tpc' = [tpc EXCEPT ![s][t] = c]
      BY <2>1 DEF CaptureCheck, CaptureMark, CaptureMarker
    <3>2. t \notin Reserved(s) /\ UNCHANGED <<pending, captured>>
      BY <2>1 DEF CaptureCheck, CaptureMark, CaptureMarker, Reserved
    <3>3. c \in ThreadStates /\ c \notin {"send", "over"}
      OBVIOUS
    <3>4. Reserved(s)' = Reserved(s) \ {t}
      BY <3>1, <3>3, StepReserved
    <3>5. Reserved(s)' = Reserved(s)
      BY <3>2, <3>4
    <3> QED
      BY <1>1, <1>2, <3>2, <3>5 DEF Counted
  <2>2. CASE CaptureReserve(s, t)
    <3>1. pending'[s] = pending[s] + 1 /\ UNCHANGED captured
      BY <2>2 DEF CaptureReserve, TypeOK, ControlType
    <3>2. PICK c \in {"over", "send"} : tpc' = [tpc EXCEPT ![s][t] = c]
      BY <2>2 DEF CaptureReserve
    <3>3. t \notin Reserved(s)
      BY <2>2 DEF CaptureReserve, Reserved
    <3>4. Reserved(s)' = Reserved(s) \cup {t}
      BY <3>2, StepReserved
    <3>5. Cardinality(Reserved(s)') = Cardinality(Reserved(s)) + 1
      BY <1>3, <3>3, <3>4, FS_AddElement
    <3>6. Len(captured'[s]) = Len(captured[s]) /\ settled'[s] = settled[s]
      BY <1>1, <3>1
    <3> QED
      BY <1>2, <1>3, <3>1, <3>5, <3>6, Lengths DEF Counted
  <2>3. CASE CaptureOver(s, t) \/ CaptureUnsent(s, t)
    <3>1. pending'[s] = pending[s] - 1 /\ UNCHANGED captured
      BY <2>3 DEF CaptureOver, CaptureUnsent, TypeOK, ControlType
    <3>2. t \in Reserved(s) /\ tpc' = [tpc EXCEPT ![s][t] = "mark"]
      BY <2>3 DEF CaptureOver, CaptureUnsent, Reserved
    <3>4. Reserved(s)' = Reserved(s) \ {t}
      BY <3>2, StepReserved
    <3>5. Cardinality(Reserved(s)') = Cardinality(Reserved(s)) - 1
      BY <1>3, <3>2, <3>4, FS_RemoveElement
    <3>6. Len(captured'[s]) = Len(captured[s]) /\ settled'[s] = settled[s]
      BY <1>1, <3>1
    <3> QED
      BY <1>2, <1>3, <3>1, <3>5, <3>6, Lengths DEF Counted
  <2>4. CASE CaptureSend(s, t)
    <3>1. UNCHANGED pending /\ captured' = [captured EXCEPT ![s] = Append(@, held[s][t])]
      BY <2>4 DEF CaptureSend, CaptureUnsent
    <3>2. t \in Reserved(s) /\ tpc' = [tpc EXCEPT ![s][t] = "ready"]
      BY <2>4 DEF CaptureSend, CaptureUnsent, Reserved
    <3>4. Reserved(s)' = Reserved(s) \ {t}
      BY <3>2, StepReserved
    <3>5. Cardinality(Reserved(s)') = Cardinality(Reserved(s)) - 1
      BY <1>3, <3>2, <3>4, FS_RemoveElement
    <3>6. Len(captured'[s]) = Len(captured[s]) + 1
      <4>1. held[s][t] \in Frame
        BY DEF TypeOK, ThreadType
      <4>2. ChannelType
        BY DEF TypeOK
      <4> QED
        BY <3>1, <4>1, <4>2, ChannelAppend
    <3>7. pending'[s] = pending[s] /\ settled'[s] = settled[s]
      BY <1>1, <3>1
    <3>8. /\ Len(captured[s]) \in Nat /\ settled[s] \in Nat
          /\ pending[s] = (Len(captured[s]) - settled[s]) + Cardinality(Reserved(s))
      BY <1>2, Lengths DEF Counted
    <3>9. pending'[s] = (Len(captured'[s]) - settled'[s]) + Cardinality(Reserved(s)')
      BY <1>3, <3>5, <3>6, <3>7, <3>8
    <3> QED
      BY <3>9 DEF Counted
  <2> QED
    BY <2>1, <2>2, <2>3, <2>4 DEF Capture
<1> QED
  BY <1>1, <1>4 DEF PendingInv, Active

\* Output that begins, and the end of the process, reserve nothing.
LEMMA OutputCounter ==
    ASSUME TypeOK, NEW s \in Sessions, NEW t \in Threads, PendingInv(s),
           Emit(s, t) \/ EmitFails(s, t) \/ Drop(s, t)
    PROVE  PendingInv(s)'
<1>1. /\ pc[s] = "running" /\ tpc[s][t] = "ready"
      /\ \E c \in {"output", "mark"} : tpc' = [tpc EXCEPT ![s][t] = c]
      /\ UNCHANGED <<pending, chanVars, wpc>>
  BY DEF Emit, EmitFails, Drop, Idle
<1>2. pc'[s] \in {"running", "dropping"}
  BY <1>1 DEF Emit, EmitFails, Drop, TypeOK, ControlType
<1>3. Reserved(s)' = Reserved(s)
  BY <1>1, ThreadStep DEF Reserved, TypeOK
<1> QED
  BY <1>1, <1>2, <1>3 DEF PendingInv, Counted, Active

LEMMA EndCounter ==
    ASSUME TypeOK, NEW s \in Sessions, PendingInv(s), DropSender(s) \/ DropJoin(s) \/ Crash(s)
    PROVE  PendingInv(s)'
<1>1. CASE DropSender(s)
  <2>1. /\ pc[s] = "dropping" /\ pc'[s] = "draining" /\ Idle(s)
        /\ UNCHANGED <<pending, chanVars, wpc, tpc>>
    BY <1>1 DEF DropSender, TypeOK, ControlType
  <2>2. Reserved(s)' = Reserved(s) /\ Idle(s)'
    BY <2>1 DEF Reserved, Idle
  <2> QED
    BY <2>1, <2>2 DEF PendingInv, Counted, Active
<1>2. CASE DropJoin(s)
  <2>1. /\ pc[s] = "draining" /\ pc'[s] = "closed"
        /\ UNCHANGED <<pending, chanVars, wpc, tpc>>
    BY <1>2 DEF DropJoin, TypeOK, ControlType
  <2>2. Idle(s)' /\ pending[s] >= 0
    BY <2>1, Lengths, ReservedFinite DEF PendingInv, Counted, Active, Idle
  <2> QED
    BY <2>1, <2>2 DEF PendingInv, Active
<1>3. CASE Crash(s)
  <2>1. /\ pc'[s] = "crashed" /\ pending'[s] = 0
        /\ tpc'[s] = [u \in Threads |-> "ready"]
    BY <1>3 DEF Crash, TypeOK, ControlType, ThreadType
  <2> QED
    BY <2>1 DEF PendingInv, Active, Idle
<1> QED
  BY <1>1, <1>2, <1>3

\* A process does nothing to the memory of another.
LEMMA OthersCounter ==
    ASSUME TypeOK, NEW s \in Sessions, NEW r \in Sessions \ {s}, PendingInv(r),
           \/ Open(s) \/ Writer(s) \/ DropSender(s) \/ DropJoin(s) \/ Crash(s)
           \/ \E t \in Threads : Emit(s, t) \/ EmitFails(s, t) \/ Drop(s, t) \/ Capture(s, t)
    PROVE  PendingInv(r)'
<1> USE DEF TypeOK, ControlType, ChannelType, ThreadType
<1> DEFINE Untouched == /\ pending'[r] = pending[r] /\ captured'[r] = captured[r]
                        /\ settled'[r] = settled[r] /\ taken'[r] = taken[r]
                        /\ tpc'[r] = tpc[r] /\ pc'[r] = pc[r] /\ wpc'[r] = wpc[r]
<1>1. CASE Open(s)
  <2>1. Untouched
    BY <1>1 DEF Open, OpenLock, OpenTimeout, OpenCreate, CreateStep, OpenFailed, OpenStart, OpenStarted
  <2> QED
    BY <2>1, SameCounter
<1>2. CASE Writer(s)
  <2>1. Untouched
    BY <1>2 DEF Writer, WriterGather, WriteBatch, WriteLock, WriteTimeout, WriteFrame,
       WriteFrameFails, WriteCommit, WriteCommitFails, WriteMark, WriteMarker, WriterDies, WriterDone
  <2> QED
    BY <2>1, SameCounter
<1>3. CASE DropSender(s) \/ DropJoin(s) \/ Crash(s)
  <2>1. Untouched
    BY <1>3 DEF DropSender, DropJoin, Crash
  <2> QED
    BY <2>1, SameCounter
<1>4. ASSUME NEW t \in Threads, Emit(s, t) \/ EmitFails(s, t) \/ Drop(s, t) \/ Capture(s, t)
      PROVE  PendingInv(r)'
  <2>1. PICK c \in ThreadStates : tpc' = [tpc EXCEPT ![s][t] = c]
    BY <1>4 DEF Emit, EmitFails, Drop, Capture, CaptureCheck, CaptureReserve, CaptureOver,
       CaptureSend, CaptureUnsent, CaptureMark, CaptureMarker
  <2>2. tpc'[r] = tpc[r]
    BY <2>1, StepReserved
  <2>3. /\ pending'[r] = pending[r] /\ captured'[r] = captured[r] /\ pc'[r] = pc[r]
        /\ UNCHANGED <<settled, taken, wpc>>
    BY <1>4, ZenonT(40) DEF Emit, EmitFails, Drop, Capture, CaptureCheck, CaptureReserve, CaptureOver,
       CaptureSend, CaptureUnsent, CaptureMark, CaptureMarker
  <2>4. Untouched
    BY <2>2, <2>3
  <2> QED
    BY <2>4, SameCounter
<1> QED
  BY <1>1, <1>2, <1>3, <1>4

LEMMA NextCounter == CounterInv /\ [Next]_vars => CounterInv'
<1> SUFFICES ASSUME CounterInv, [Next]_vars PROVE CounterInv'
  OBVIOUS
<1>1. TypeOK /\ TypeOK' /\ \A r \in Sessions : PendingInv(r)
  BY NextType DEF CounterInv
<1>2. ASSUME NEW s \in Sessions,
             \/ Open(s) \/ Writer(s) \/ DropSender(s) \/ DropJoin(s) \/ Crash(s)
             \/ \E t \in Threads : Emit(s, t) \/ EmitFails(s, t) \/ Drop(s, t) \/ Capture(s, t),
             NEW r \in Sessions
      PROVE  PendingInv(r)'
  <2>1. CASE r = s
    BY <1>1, <1>2, <2>1, OpenCounter, WriterCounter, EndCounter, OutputCounter, CaptureCounter
  <2>2. CASE r # s
    BY <1>1, <1>2, <2>2, OthersCounter
  <2> QED
    BY <2>1, <2>2
<1>3. ASSUME Finalize \/ UNCHANGED vars, NEW r \in Sessions PROVE PendingInv(r)'
  BY <1>1, <1>3, SameCounter
  DEF Finalize, FinalizeLock, FinalizeVerify, FinalizeSeal, FinalizeCrash
<1> QED
  BY <1>1, <1>2, <1>3 DEF CounterInv, Next

\* The counter of pending bytes never wraps below zero, for any number of threads and
\* whatever fails: a batch gives back what its frames reserved, and a thread over the
\* limit its own reservation, once each.
THEOREM PendingKept == Spec => []PendingNeverWraps
<1>1. CounterInv => PendingNeverWraps
  <2> SUFFICES ASSUME CounterInv, NEW s \in Sessions PROVE pending[s] >= 0
    BY DEF PendingNeverWraps
  <2>1. TypeOK /\ PendingInv(s)
    BY DEF CounterInv
  <2> QED
    BY <2>1, Lengths, ReservedFinite DEF PendingInv, Counted
<1> QED
  BY <1>1, InitCounter, NextCounter, PTL DEF Spec

-----------------------------------------------------------------------------
(***************************************************************************)
(* The file is an exact prefix of what was captured.                       *)
(*                                                                         *)
(* This is not inductive: what the file holds depends on what the writers  *)
(* remember (written, taken, failed) at each point of write_batch.  The    *)
(* invariant below says how.                                               *)
(***************************************************************************)
-----------------------------------------------------------------------------
(* The inductive invariant of ExactPrefix. *)

Opening == {"idle", "creating", "header", "commit", "status"}

\* Frame n of session s is in the file; the committed length covers it.
InFile(s, n) == \E i \in 1..Len(events) : events[i] = <<s, n>>
IsCommitted(s, n) == \E i \in 1..committed : events[i] = <<s, n>>

\* What the control of write_batch says of a session's counters.
WriterInv(s) ==
    /\ pc[s] \in Opening => written[s] = 0 /\ taken[s] = 0 /\ wpc[s] = "recv"
    /\ pc[s] = "crashed" => wpc[s] = "recv"
    /\ wpc[s] = "recv" => written[s] = taken[s]
    /\ wpc[s] \in {"marker", "gone"} => failed[s]
    /\ wpc[s] = "done" /\ ~failed[s] =>
          written[s] = taken[s] /\ \A n \in 1..written[s] : IsCommitted(s, n)

\* A writer appends only when all it has passed is in the file ...
NoGap(s) ==
    wpc[s] \in {"lock", "append"} \/ (pc[s] # "crashed" /\ ~failed[s]) =>
        \A n \in 1..written[s] : InFile(s, n)

\* ... and nothing that it has not passed is.
NotAhead(s) ==
    pc[s] # "crashed" =>
        \A i \in 1..Len(events) : events[i][1] = s => events[i][2] <= written[s]

SessionPrefix(s) == WriterInv(s) /\ NoGap(s) /\ NotAhead(s)
PrefixInv == TypeOK /\ ExactPrefix /\ \A s \in Sessions : SessionPrefix(s)

\* No step takes a frame out of the file, or uncommits one.
FileGrows ==
    /\ Len(events) <= Len(events')
    /\ \A i \in 1..Len(events) : events'[i] = events[i]
    /\ committed <= committed'

\* No step takes a frame out of a channel.
ChannelsGrow ==
    \A s \in Sessions :
        /\ Len(captured[s]) <= Len(captured'[s])
        /\ \A n \in 1..Len(captured[s]) : captured'[s][n] = captured[s][n]

LEMMA InitPrefix == Init => PrefixInv
<1> SUFFICES ASSUME Init PROVE PrefixInv
  OBVIOUS
<1>1. events = <<>> /\ Len(events) = 0
  BY DEF Init
<1>2. ExactPrefix
  BY <1>1 DEF ExactPrefix
<1>3. ASSUME NEW s \in Sessions PROVE SessionPrefix(s)
  BY <1>1 DEF Init, SessionPrefix, WriterInv, NoGap, NotAhead, Opening
<1> QED
  BY <1>2, <1>3, InitType DEF PrefixInv

\* The file and the counters of a session that no step of its writer touches.
LEMMA SameSession ==
    ASSUME TypeOK, TypeOK', FileGrows, NEW r \in Sessions, SessionPrefix(r),
           written'[r] = written[r], taken'[r] = taken[r], wpc'[r] = wpc[r],
           failed[r] => failed'[r],
           pc'[r] \in Opening => pc[r] \in Opening,
           pc'[r] = "crashed" <=> pc[r] = "crashed",
           \A i \in 1..Len(events') : i > Len(events) => events'[i][1] # r
    PROVE  SessionPrefix(r)'
<1>1. Len(events) \in Nat /\ Len(events') \in Nat /\ committed \in Nat /\ committed' \in Nat
  BY StreamSeq DEF TypeOK, DirType
<1>2. committed <= Len(events)
  BY <1>1 DEF TypeOK, DirType
<1>3. ASSUME NEW n \in Nat, InFile(r, n) PROVE InFile(r, n)'
  BY <1>1, <1>3 DEF InFile, FileGrows
<1>4. ASSUME NEW n \in Nat, IsCommitted(r, n) PROVE IsCommitted(r, n)'
  BY <1>1, <1>2, <1>4, SMTT(30) DEF IsCommitted, FileGrows
<1>5. WriterInv(r)'
  BY <1>4 DEF SessionPrefix, WriterInv, TypeOK, ChannelType
<1>6. NoGap(r)'
  BY <1>3 DEF SessionPrefix, NoGap, TypeOK, ChannelType, ControlType
<1>7. NotAhead(r)'
  BY <1>1 DEF SessionPrefix, NotAhead, FileGrows
<1> QED
  BY <1>5, <1>6, <1>7 DEF SessionPrefix

\* The file is the same, and the channels only grew.
LEMMA SameFile ==
    ASSUME TypeOK, TypeOK', ExactPrefix, ChannelsGrow, events' = events
    PROVE  ExactPrefix'
<1>1. ASSUME NEW i \in 1..Len(events) PROVE events[i][1] \in Sessions
  BY <1>1, StreamSeq, ElementOfSeq DEF TypeOK
<1>2. \A r \in Sessions : Len(captured[r]) \in Nat /\ Len(captured'[r]) \in Nat
  <2>1. captured' \in [Sessions -> Seq(Frame)]
    BY DEF TypeOK, ChannelType
  <2> QED
    BY <2>1, ChannelSeq, LenProperties DEF TypeOK
<1>3. ASSUME NEW i \in 1..Len(events)
      PROVE  events[i][2] \in 1..Len(captured'[events[i][1]])
  <2>1. events[i][2] \in 1..Len(captured[events[i][1]])
    BY DEF ExactPrefix
  <2> QED
    BY <1>1, <1>2, <2>1 DEF ChannelsGrow
<1> QED
  BY <1>3 DEF ExactPrefix

LEMMA SameChannels == TypeOK /\ UNCHANGED captured => ChannelsGrow
BY ChannelSeq DEF ChannelsGrow, TypeOK

\* A step of no writer: what it may do to the control of the processes.
LEMMA QuietStep ==
    ASSUME PrefixInv, TypeOK', ChannelsGrow, events' = events, committed <= committed',
           UNCHANGED <<written, taken, wpc>>,
           \A r \in Sessions :
              /\ failed[r] => failed'[r]
              /\ pc'[r] \in Opening => pc[r] \in Opening
              /\ pc'[r] = "crashed" <=> pc[r] = "crashed"
    PROVE  PrefixInv'
<1>1. FileGrows /\ \A i \in 1..Len(events') : ~(i > Len(events))
  BY StreamSeq DEF FileGrows, PrefixInv, TypeOK
<1>2. ExactPrefix'
  BY SameFile DEF PrefixInv
<1>3. ASSUME NEW r \in Sessions PROVE SessionPrefix(r)'
  BY <1>1, SameSession DEF PrefixInv
<1> QED
  BY <1>2, <1>3 DEF PrefixInv

\* A step of the writer of s, or its crash: nothing else of the others changed.
LEMMA WriterStep ==
    ASSUME PrefixInv, TypeOK', NEW s \in Sessions, ExactPrefix', FileGrows, SessionPrefix(s)',
           \A i \in 1..Len(events') : i > Len(events) => events'[i][1] = s,
           \A r \in Sessions \ {s} :
              /\ written'[r] = written[r] /\ taken'[r] = taken[r] /\ wpc'[r] = wpc[r]
              /\ failed'[r] = failed[r] /\ pc'[r] = pc[r]
    PROVE  PrefixInv'
<1>1. ASSUME NEW r \in Sessions \ {s} PROVE SessionPrefix(r)'
  BY SameSession DEF PrefixInv
<1> QED
  BY <1>1 DEF PrefixInv

-----------------------------------------------------------------------------
(* Every action preserves it. *)

\* The steps of the opener that write no frame.
LEMMA QuietOpen ==
    ASSUME PrefixInv, TypeOK', NEW s \in Sessions,
           OpenLock(s) \/ OpenTimeout(s) \/ OpenCreate(s) \/ OpenFailed(s)
    PROVE  PrefixInv'
<1>1. /\ UNCHANGED <<events, captured, committed, written, taken, wpc>>
      /\ failed' = [failed EXCEPT ![s] = TRUE] \/ failed' = failed
  BY DEF OpenLock, OpenTimeout, OpenCreate, CreateStep, OpenFailed
<1>2. /\ pc[s] \in Opening
      /\ \E to \in ProcessStates \ {"crashed"} : pc' = [pc EXCEPT ![s] = to]
  BY DEF OpenLock, OpenTimeout, OpenCreate, CreateStep, OpenFailed, Opening
<1>3. ASSUME NEW r \in Sessions
      PROVE  /\ failed[r] => failed'[r]
             /\ pc'[r] \in Opening => pc[r] \in Opening
             /\ pc'[r] = "crashed" <=> pc[r] = "crashed"
  BY <1>1, <1>2 DEF PrefixInv, TypeOK, ControlType, Opening
<1>4. committed <= committed' /\ ChannelsGrow
  BY <1>1, SameChannels DEF PrefixInv, TypeOK, DirType
<1> QED
  BY <1>1, <1>3, <1>4, QuietStep

\* The steps of the capturing threads.
LEMMA QuietCapture ==
    ASSUME PrefixInv, TypeOK', NEW s \in Sessions, NEW t \in Threads,
           Emit(s, t) \/ EmitFails(s, t) \/ Drop(s, t) \/ Capture(s, t)
    PROVE  PrefixInv'
<1>1. /\ UNCHANGED <<events, committed, written, taken, wpc>>
      /\ failed' = [failed EXCEPT ![s] = TRUE] \/ failed' = failed
  BY DEF Emit, EmitFails, Drop, Capture, CaptureCheck, CaptureReserve, CaptureOver,
         CaptureSend, CaptureUnsent, CaptureMark, CaptureMarker
<1>2. (pc[s] = "running" /\ pc' = [pc EXCEPT ![s] = "dropping"]) \/ pc' = pc
  BY DEF Emit, EmitFails, Drop, Capture, CaptureCheck, CaptureReserve, CaptureOver,
         CaptureSend, CaptureUnsent, CaptureMark, CaptureMarker
<1>3. ChannelsGrow
  <2>1. CASE CaptureSend(s, t)
    <3>1. held[s][t] \in Frame
      BY DEF PrefixInv, TypeOK, ThreadType
    <3>2. \A r \in Sessions : Len(captured[r]) \in Nat
      BY ChannelSeq DEF PrefixInv, TypeOK
    <3> QED
      BY <2>1, <3>1, <3>2, ChannelAppend DEF CaptureSend, CaptureUnsent, ChannelsGrow, PrefixInv, TypeOK
  <2>2. CASE ~CaptureSend(s, t)
    <3>1. captured' = captured
      BY <2>2 DEF Emit, EmitFails, Drop, Capture, CaptureCheck, CaptureReserve,
         CaptureOver, CaptureUnsent, CaptureMark, CaptureMarker
    <3> QED
      BY <3>1, SameChannels DEF PrefixInv
  <2> QED
    BY <2>1, <2>2
<1> QED
  BY <1>1, <1>2, <1>3, QuietStep DEF PrefixInv, TypeOK, ControlType, DirType, Opening

\* The end of a clean stop, and the finalizer.
LEMMA QuietEnd ==
    ASSUME PrefixInv, TypeOK',
           (\E s \in Sessions : DropSender(s) \/ DropJoin(s)) \/ Finalize \/ UNCHANGED vars
    PROVE  PrefixInv'
<1>1. UNCHANGED <<events, captured, committed, written, taken, wpc, failed>>
  BY DEF DropSender, DropJoin, Finalize, FinalizeLock, FinalizeVerify, FinalizeSeal,
         FinalizeCrash
<1>2. ASSUME NEW r \in Sessions
      PROVE  /\ pc'[r] \in Opening => pc[r] \in Opening
             /\ pc'[r] = "crashed" <=> pc[r] = "crashed"
  BY ZenonT(40) DEF DropSender, DropJoin, Finalize, FinalizeLock, FinalizeVerify, FinalizeSeal,
         FinalizeCrash, PrefixInv, TypeOK, ControlType, Opening
<1>3. ChannelsGrow /\ committed <= committed'
  BY <1>1, SameChannels DEF PrefixInv, TypeOK, DirType
<1>4. \A r \in Sessions : failed[r] => failed'[r]
  BY <1>1
<1> QED
  BY <1>1, <1>2, <1>3, <1>4, QuietStep

\* The steps of write_batch that append nothing.
LEMMA WriterKeeps ==
    ASSUME PrefixInv, TypeOK', NEW s \in Sessions,
           UNCHANGED <<events, captured>>, committed <= committed',
           \A r \in Sessions \ {s} :
              /\ written'[r] = written[r] /\ taken'[r] = taken[r] /\ wpc'[r] = wpc[r]
              /\ failed'[r] = failed[r] /\ pc'[r] = pc[r],
           WriterInv(s)', NoGap(s)', NotAhead(s)'
    PROVE  PrefixInv'
<1>1. FileGrows /\ \A i \in 1..Len(events') : ~(i > Len(events))
  BY StreamSeq DEF FileGrows, PrefixInv, TypeOK
<1>2. ExactPrefix'
  BY SameFile, SameChannels DEF PrefixInv
<1> QED
  BY <1>1, <1>2, WriterStep DEF SessionPrefix

\* The Start frame becomes a batch of one frame; nothing of it is written yet.
LEMMA StartPrefix ==
    ASSUME PrefixInv, TypeOK', NEW s \in Sessions, OpenStart(s)
    PROVE  PrefixInv'
<1>1. ChannelsGrow
  <2>1. \A r \in Sessions : Len(captured[r]) \in Nat
    BY ChannelSeq DEF PrefixInv, TypeOK
  <2> QED
    BY <2>1, MarkFrames, ChannelAppend DEF OpenStart, ChannelsGrow, PrefixInv, TypeOK
<1>2. ExactPrefix'
  BY <1>1, SameFile DEF OpenStart, PrefixInv
<1>3. FileGrows /\ \A i \in 1..Len(events') : ~(i > Len(events))
  BY StreamSeq DEF OpenStart, FileGrows, PrefixInv, TypeOK, DirType
<1>4. /\ pc[s] = "status" /\ pc'[s] = "starting" /\ wpc'[s] = "lock"
      /\ written[s] = 0 /\ written' = written /\ events' = events
  BY DEF OpenStart, PrefixInv, TypeOK, ControlType, SessionPrefix, WriterInv, Opening
<1>5. WriterInv(s)' /\ NoGap(s)'
  BY <1>4 DEF WriterInv, NoGap, Opening
<1>6. NotAhead(s)'
  BY <1>4 DEF NotAhead, PrefixInv, SessionPrefix
<1> QED
  BY <1>2, <1>3, <1>5, <1>6, WriterStep
  DEF OpenStart, SessionPrefix, PrefixInv, TypeOK, ControlType, ChannelType

\* The opener gives up its batch, done or refused, and its counters catch up.
LEMMA StartedPrefix ==
    ASSUME PrefixInv, TypeOK', NEW s \in Sessions, OpenStarted(s) \/ WriterDone(s)
    PROVE  PrefixInv'
<1>1. /\ wpc[s] \in {"recv", "done"} /\ wpc'[s] = "recv"
      /\ written'[s] = taken[s] /\ taken' = taken /\ failed' = failed
      /\ pc[s] \notin Opening /\ pc'[s] \notin Opening
      /\ pc[s] # "crashed" /\ pc'[s] # "crashed"
      /\ UNCHANGED <<events, captured, committed>>
  BY SMTT(30) DEF OpenStarted, WriterDone, PrefixInv, TypeOK, ControlType, ChannelType, Opening
<1>2. written[s] \in Nat /\ taken[s] \in Nat /\ written[s] <= taken[s]
  BY DEF PrefixInv, TypeOK, ChannelType
<1>3. ~failed[s] => written[s] = taken[s] /\ \A n \in 1..written[s] : InFile(s, n)
  BY <1>1 DEF PrefixInv, SessionPrefix, WriterInv, NoGap
<1>4. WriterInv(s)'
  BY <1>1 DEF WriterInv
<1>5. NoGap(s)'
  BY <1>1, <1>3 DEF NoGap, InFile
<1>6. NotAhead(s)'
  <2>1. \A i \in 1..Len(events) : events[i][1] = s => events[i][2] <= written[s]
    BY <1>1 DEF NotAhead, PrefixInv, SessionPrefix
  <2>2. \A i \in 1..Len(events) : events[i][2] \in Int
    BY StreamSeq, ElementOfSeq DEF PrefixInv, TypeOK
  <2> QED
    BY <1>1, <1>2, <2>1, <2>2 DEF NotAhead
<1>7. committed <= committed'
  BY <1>1 DEF PrefixInv, TypeOK, DirType
<1>8. ASSUME NEW r \in Sessions \ {s}
      PROVE  /\ written'[r] = written[r] /\ taken'[r] = taken[r] /\ wpc'[r] = wpc[r]
             /\ failed'[r] = failed[r] /\ pc'[r] = pc[r]
  BY SMTT(30) DEF OpenStarted, WriterDone, PrefixInv, TypeOK, ControlType, ChannelType
<1> QED
  BY <1>1, <1>4, <1>5, <1>6, <1>7, <1>8, WriterKeeps

\* The writer receives a batch, and discards it if the recorder has failed.
LEMMA GatherPrefix ==
    ASSUME PrefixInv, TypeOK', NEW s \in Sessions, WriterGather(s)
    PROVE  PrefixInv'
<1>1. /\ wpc[s] = "recv" /\ wpc'[s] \in {"lock", "done"} /\ pc'[s] = pc[s]
      /\ pc[s] \notin Opening /\ pc[s] # "crashed"
      /\ wpc'[s] = "done" <=> failed[s]
      /\ UNCHANGED <<events, captured, committed, written, failed, pc>>
  BY DEF WriterGather, Discards, PrefixInv, TypeOK, ControlType, Opening
<1>2. WriterInv(s)'
  BY <1>1 DEF WriterInv
<1>3. NoGap(s)'
  BY <1>1 DEF PrefixInv, SessionPrefix, NoGap, InFile
<1>4. NotAhead(s)'
  BY <1>1 DEF PrefixInv, SessionPrefix, NotAhead
<1>5. committed <= committed'
  BY <1>1 DEF PrefixInv, TypeOK, DirType
<1>6. ASSUME NEW r \in Sessions \ {s} PROVE taken'[r] = taken[r] /\ wpc'[r] = wpc[r]
  BY DEF WriterGather, PrefixInv, TypeOK, ChannelType, ControlType
<1> QED
  BY <1>1, <1>2, <1>3, <1>4, <1>5, <1>6, WriterKeeps

\* The steps of write_batch that append and commit nothing.
LEMMA RefusedPrefix ==
    ASSUME PrefixInv, TypeOK', NEW s \in Sessions,
           \/ WriteLock(s) \/ WriteTimeout(s) \/ WriteFrameFails(s)
           \/ WriteMark(s) \/ WriteMarker(s) \/ WriterDies(s)
    PROVE  PrefixInv'
<1>1. /\ wpc[s] \in {"lock", "append", "error", "marker"} /\ wpc'[s] # "recv"
      /\ wpc[s] \notin {"lock"} => wpc'[s] # "append"
      /\ wpc'[s] # "lock"
      /\ failed[s] => failed'[s]
      /\ wpc'[s] \in {"marker", "gone", "done"} => failed'[s]
      /\ UNCHANGED <<events, captured, committed, written, taken, pc>>
  <2>1. CASE WriteLock(s)
    BY <2>1 DEF WriteLock, PrefixInv, TypeOK, ControlType, DirType
  <2>2. CASE WriteMarker(s) \/ WriterDies(s)
    BY <2>2 DEF WriteMarker, WriterDies, PrefixInv, SessionPrefix, WriterInv, TypeOK, ControlType
  <2>3. CASE WriteTimeout(s) \/ WriteFrameFails(s) \/ WriteMark(s)
    BY <2>3 DEF WriteTimeout, WriteFrameFails, WriteMark, PrefixInv, TypeOK, ControlType
  <2> QED
    BY <2>1, <2>2, <2>3
<1>2. WriterInv(s)'
  BY <1>1 DEF PrefixInv, SessionPrefix, WriterInv
<1>3. NoGap(s)'
  BY <1>1 DEF PrefixInv, SessionPrefix, NoGap, InFile
<1>4. NotAhead(s)'
  BY <1>1 DEF PrefixInv, SessionPrefix, NotAhead
<1>5. committed <= committed'
  BY <1>1 DEF PrefixInv, TypeOK, DirType
<1>6. ASSUME NEW r \in Sessions \ {s} PROVE failed'[r] = failed[r] /\ wpc'[r] = wpc[r]
  BY DEF WriteLock, WriteTimeout, WriteFrameFails, WriteMark, WriteMarker, WriterDies, PrefixInv,
         TypeOK, ControlType
<1> QED
  BY <1>1, <1>2, <1>3, <1>4, <1>5, <1>6, WriterKeeps

\* A commit covers what is in the file: if it is the whole batch, all of it.
LEMMA CommitPrefix ==
    ASSUME PrefixInv, TypeOK', NEW s \in Sessions, WriteCommit(s) \/ WriteCommitFails(s)
    PROVE  PrefixInv'
<1>1. /\ wpc[s] = "append" /\ wpc'[s] \in {"done", "error"}
      /\ wpc'[s] = "done" => written[s] = taken[s] /\ committed' = Len(events)
      /\ UNCHANGED <<events, captured, written, taken, failed, pc>>
  BY DEF WriteCommit, WriteCommitFails, PrefixInv, TypeOK, ControlType
<1>2. \A n \in 1..written[s] : InFile(s, n)
  BY <1>1 DEF PrefixInv, SessionPrefix, NoGap
<1>3. WriterInv(s)'
  BY <1>1, <1>2 DEF PrefixInv, SessionPrefix, WriterInv, InFile, IsCommitted
<1>4. NoGap(s)'
  BY <1>1, <1>2 DEF NoGap, InFile
<1>5. NotAhead(s)'
  BY <1>1 DEF PrefixInv, SessionPrefix, NotAhead
<1>6. committed <= committed' /\ \A r \in Sessions \ {s} : wpc'[r] = wpc[r]
  <2>1. committed \in Nat /\ committed <= Len(events)
    BY StreamSeq DEF PrefixInv, TypeOK, DirType
  <2> QED
    BY <2>1 DEF WriteCommit, WriteCommitFails, PrefixInv, TypeOK, ControlType
<1> QED
  BY <1>1, <1>3, <1>4, <1>5, <1>6, WriterKeeps

\* A frame is appended after all those before it, and for the first time.
LEMMA FramePrefix ==
    ASSUME PrefixInv, TypeOK', NEW s \in Sessions, WriteFrame(s)
    PROVE  PrefixInv'
<1> DEFINE len == Len(events)
<1>1. /\ wpc[s] = "append" /\ written[s] < taken[s] /\ written[s] \in Nat /\ len \in Nat
      /\ taken[s] \in Nat /\ taken[s] <= Len(captured[s]) /\ Len(captured[s]) \in Nat
  BY StreamSeq, ChannelSeq DEF WriteFrame, Fits, PrefixInv, TypeOK, ChannelType
<1>2. /\ Len(events') = len + 1 /\ events'[len + 1] = <<s, written[s] + 1>>
      /\ \A i \in 1..len : events'[i] = events[i]
  BY <1>1, StreamAppend DEF WriteFrame, PrefixInv, TypeOK
<1>3. /\ written' = [written EXCEPT ![s] = @ + 1]
      /\ UNCHANGED <<captured, committed, taken, wpc, failed, pc>>
  BY DEF WriteFrame
<1>4. pc[s] # "crashed" /\ \A n \in 1..written[s] : InFile(s, n)
  BY <1>1 DEF PrefixInv, SessionPrefix, WriterInv, NoGap
<1>a. events'[len + 1][1] = s /\ events'[len + 1][2] = written[s] + 1
  BY <1>2
<1>b. \A i \in 1..Len(events') : i \in 1..len \/ i = len + 1
  BY <1>1, <1>2
<1>5. FileGrows /\ \A i \in 1..Len(events') : i > len => events'[i][1] = s
  <2>1. committed' = committed /\ committed \in Int
    BY <1>3 DEF PrefixInv, TypeOK, DirType
  <2> QED
    BY <1>1, <1>2, <1>a, <1>b, <2>1 DEF FileGrows
<1>6. \A i \in 1..len : events[i][1] = s => events[i][2] <= written[s]
  BY <1>4 DEF PrefixInv, SessionPrefix, NotAhead
<1>7. ExactPrefix'
  <2>1. ASSUME NEW i \in 1..len
        PROVE  LET r == events'[i][1]
                   n == events'[i][2]
               IN  /\ n \in 1..Len(captured'[r])
                   /\ \A m \in 1..(n - 1) : \E j \in 1..(i - 1) : events'[j] = <<r, m>>
                   /\ \A j \in 1..(i - 1) : events'[j] # <<r, n>>
    <3>1. events'[i] = events[i] /\ captured' = captured
      BY <1>2, <1>3
    <3>2. \A j \in 1..(i - 1) : j \in 1..len /\ events'[j] = events[j]
      BY <1>1, <1>2
    <3>3. LET r == events[i][1]
              n == events[i][2]
          IN  /\ n \in 1..Len(captured[r])
              /\ \A m \in 1..(n - 1) : \E j \in 1..(i - 1) : events[j] = <<r, m>>
              /\ \A j \in 1..(i - 1) : events[j] # <<r, n>>
      BY DEF PrefixInv, ExactPrefix
    <3> QED
      BY <3>1, <3>2, <3>3
  <2>2. LET r == events'[len + 1][1]
            n == events'[len + 1][2]
        IN  /\ n \in 1..Len(captured'[r])
            /\ \A m \in 1..(n - 1) : \E j \in 1..len : events'[j] = <<r, m>>
            /\ \A j \in 1..len : events'[j] # <<r, n>>
    <3>1. written[s] + 1 \in 1..Len(captured'[s])
      BY <1>1, <1>3
    <3>2. \A m \in 1..written[s] : \E j \in 1..len : events'[j] = <<s, m>>
      BY <1>2, <1>4 DEF InFile
    <3>3. ASSUME NEW j \in 1..len PROVE events'[j] # <<s, written[s] + 1>>
      BY <1>1, <1>2, <1>6
    <3>4. (written[s] + 1) - 1 = written[s]
      BY <1>1
    <3> QED
      BY <1>a, <3>1, <3>2, <3>3, <3>4
  <2>3. (len + 1) - 1 = len
    BY <1>1
  <2> QED
    BY <1>b, <2>1, <2>2, <2>3 DEF ExactPrefix
<1>8. WriterInv(s)'
  BY <1>1, <1>3, <1>4 DEF PrefixInv, SessionPrefix, WriterInv, TypeOK, ChannelType
<1>9. NoGap(s)'
  <2>1. written'[s] = written[s] + 1
    BY <1>3 DEF PrefixInv, TypeOK, ChannelType
  <2>2. \A n \in 1..written'[s] : n \in 1..written[s] \/ n = written[s] + 1
    BY <1>1, <2>1
  <2>3. \A i \in 1..len : i \in 1..Len(events') /\ events'[i] = events[i]
    BY <1>1, <1>2
  <2>4. len + 1 \in 1..Len(events')
    BY <1>1, <1>2
  <2>5. \A n \in 1..written'[s] : \E i \in 1..Len(events') : events'[i] = <<s, n>>
    BY <1>2, <1>4, <2>2, <2>3, <2>4 DEF InFile
  <2> QED
    BY <2>5 DEF NoGap, InFile
<1>10. NotAhead(s)'
  <2>1. written'[s] = written[s] + 1
    BY <1>3 DEF PrefixInv, TypeOK, ChannelType
  <2>3. \A i \in 1..len : events[i][2] \in Int
    BY StreamSeq, ElementOfSeq DEF PrefixInv, TypeOK
  <2> QED
    BY <1>1, <1>2, <1>6, <1>a, <1>b, <2>1, <2>3 DEF NotAhead
<1>11. ASSUME NEW r \in Sessions \ {s} PROVE written'[r] = written[r]
  BY <1>3 DEF PrefixInv, TypeOK, ChannelType
<1> QED
  BY <1>3, <1>5, <1>7, <1>8, <1>9, <1>10, <1>11, WriterStep DEF SessionPrefix

\* The memory of a process that dies is gone, and it never writes again.
LEMMA CrashPrefix ==
    ASSUME PrefixInv, TypeOK', NEW s \in Sessions, Crash(s)
    PROVE  PrefixInv'
<1>1. /\ UNCHANGED <<events, captured, committed>>
      /\ pc'[s] = "crashed" /\ wpc'[s] = "recv" /\ written'[s] = 0 /\ taken'[s] = 0
  BY DEF Crash, PrefixInv, TypeOK, ControlType, ChannelType
<1>2. WriterInv(s)' /\ NoGap(s)' /\ NotAhead(s)'
  BY <1>1 DEF WriterInv, NoGap, NotAhead, Opening
<1>3. committed <= committed'
  BY <1>1 DEF PrefixInv, TypeOK, DirType
<1>4. ASSUME NEW r \in Sessions \ {s}
      PROVE  /\ written'[r] = written[r] /\ taken'[r] = taken[r] /\ wpc'[r] = wpc[r]
             /\ failed'[r] = failed[r] /\ pc'[r] = pc[r]
  BY DEF Crash, PrefixInv, TypeOK, ControlType, ChannelType
<1> QED
  BY <1>1, <1>2, <1>3, <1>4, WriterKeeps

LEMMA NextPrefix == PrefixInv /\ [Next]_vars => PrefixInv'
<1> SUFFICES ASSUME PrefixInv, [Next]_vars PROVE PrefixInv'
  OBVIOUS
<1>1. TypeOK'
  BY NextType DEF PrefixInv
<1>2. ASSUME NEW s \in Sessions, Open(s) PROVE PrefixInv'
  BY <1>1, <1>2, QuietOpen, StartPrefix, StartedPrefix DEF Open
<1>3. ASSUME NEW s \in Sessions, Writer(s) PROVE PrefixInv'
  BY <1>1, <1>3, GatherPrefix, RefusedPrefix, FramePrefix, CommitPrefix, StartedPrefix
  DEF Writer, WriteBatch
<1>4. ASSUME NEW s \in Sessions, Crash(s) PROVE PrefixInv'
  BY <1>1, <1>4, CrashPrefix
<1>5. ASSUME NEW s \in Sessions, NEW t \in Threads,
             Emit(s, t) \/ EmitFails(s, t) \/ Drop(s, t) \/ Capture(s, t)
      PROVE  PrefixInv'
  BY <1>1, <1>5, QuietCapture
<1>6. CASE (\E s \in Sessions : DropSender(s) \/ DropJoin(s)) \/ Finalize \/ UNCHANGED vars
  BY <1>1, <1>6, QuietEnd
<1> QED
  BY <1>2, <1>3, <1>4, <1>5, <1>6 DEF Next

\* Whatever crashes, fails or races, the frames of a session are in the file in
\* the order it captured them, without a gap and without a duplicate.
THEOREM ExactPrefixHolds == Spec => []ExactPrefix
<1>1. PrefixInv => ExactPrefix
  BY DEF PrefixInv
<1> QED
  BY <1>1, InitPrefix, NextPrefix, PTL DEF Spec

-----------------------------------------------------------------------------
(***************************************************************************)
(* Completeness: a recording that reads complete lost nothing that any     *)
(* producer emitted.                                                       *)
(*                                                                         *)
(* The argument follows a chunk of output: while its process lives it is   *)
(* queued, carried by the thread that emitted it, or the recorder has      *)
(* failed; the Stop frame is queued only when all chunks are; the file     *)
(* holds every frame before a Stop it holds (ExactPrefix); and nothing is  *)
(* sealed without the marker unless each session with a Start has a Stop,  *)
(* which each session that emitted anything has, or the marker exists.     *)
(***************************************************************************)

(* The parts of the inductive invariant. *)

\* Who may hold append.lock, and what it protects.
LockInv ==
    /\ \A s \in Sessions :
          /\ pc[s] \in {"creating", "header", "commit", "status"} => lock = s
          /\ wpc[s] = "append" => lock = s /\ ~finalized
    /\ fpc # "idle" => lock = Finalizer

Ran(s) == pc[s] \in {"running", "dropping", "draining", "closed"} \/ emitted[s] > 0

\* A process emits nothing before its Start is committed or the marker exists.
StartInv(s) ==
    /\ pc[s] \in Opening => captured[s] = <<>>
    /\ pc[s] = "starting" /\ wpc[s] = "recv" => failed[s]
    /\ pc[s] = "starting" /\ wpc[s] # "recv" => taken[s] = 1 /\ captured[s] = <<StartFrame>>
    /\ pc[s] \in Opening \cup {"starting", "refused"} => emitted[s] = 0 /\ Idle(s)
    /\ Ran(s) => incomplete \/ s \in SessionsWith("start")

\* Chunk k of the output of s is in frame n of its channel.
Holds(s, n, k) == captured[s][n].kind = "data" /\ captured[s][n].out = k
Queued(s, k) == \E n \in 1..Len(captured[s]) : Holds(s, n, k)

\* A thread is about to queue it, or to fail the recorder.
Carried(s, k) ==
    \E t \in Threads :
        \/ tpc[s][t] \in {"over", "mark"}
        \/ /\ tpc[s][t] \in {"output", "reserve", "send"}
           /\ held[s][t].kind = "data" /\ held[s][t].out = k

\* A Stop frame in a channel is behind all the output of its process, which emits no more.
StopLast(s) ==
    \A n \in 1..Len(captured[s]) : captured[s][n].kind = "stop" =>
        /\ pc[s] \notin Opening \cup {"starting", "running"}
        /\ \A k \in 1..emitted[s] : \E m \in 1..(n - 1) : Holds(s, m, k)

\* Only the thread that drops the recorder captures a Stop, and not before the rest is queued.
HeldInv(s) ==
    \A t \in Threads :
        /\ tpc[s][t] \in {"output", "reserve", "send"} =>
              (held[s][t].kind = "stop" <=> pc[s] = "dropping")
        /\ tpc[s][t] \in {"reserve", "send"} /\ pc[s] = "dropping" =>
              \A k \in 1..emitted[s] : Queued(s, k)

OneDropper(s) ==
    pc[s] = "dropping" =>
        \A t, u \in Threads : tpc[s][t] # "ready" /\ tpc[s][u] # "ready" => t = u

EndIdle(s) == pc[s] \in {"draining", "closed", "crashed"} => Idle(s)

NoneLost(s) ==
    pc[s] # "crashed" => failed[s] \/ \A k \in 1..emitted[s] : Queued(s, k) \/ Carried(s, k)

StopInv(s) == StopLast(s) /\ HeldInv(s) /\ OneDropper(s) /\ EndIdle(s) /\ NoneLost(s)

\* The seal is put only on a stream that verifies, or behind the marker.
SealInv == fpc = "seal" \/ finalized => (VerifyReason => incomplete)

SessionInv(s) == StartInv(s) /\ StopInv(s)
CompleteInv == PrefixInv /\ LockInv /\ SealInv /\ \A s \in Sessions : SessionInv(s)

LEMMA InitComplete == Init => CompleteInv
<1> SUFFICES ASSUME Init PROVE CompleteInv
  OBVIOUS
<1>1. LockInv /\ SealInv
  BY DEF Init, LockInv, SealInv
<1>2. ASSUME NEW s \in Sessions PROVE StartInv(s)
  BY DEF Init, StartInv, Ran, Idle, Opening
<1>3. ASSUME NEW s \in Sessions PROVE StopInv(s)
  <2>1. captured[s] = <<>> /\ Len(captured[s]) = 0 /\ emitted[s] = 0
    BY DEF Init
  <2> QED
    BY <2>1 DEF Init, StopInv, StopLast, HeldInv, OneDropper, EndIdle, NoneLost, Idle
<1> QED
  BY <1>1, <1>2, <1>3, InitPrefix DEF CompleteInv, SessionInv

-----------------------------------------------------------------------------
(* The lock. *)

LEMMA LockOpen ==
    ASSUME TypeOK, PrefixInv, LockInv, NEW s \in Sessions, Open(s)
    PROVE  LockInv'
<1>1. CASE OpenTimeout(s) \/ OpenStarted(s)
  BY <1>1 DEF OpenTimeout, OpenStarted, LockInv, TypeOK, ControlType
<1>2. CASE OpenLock(s)
  BY <1>2, LockAssumption DEF OpenLock, LockInv, TypeOK, ControlType, PrefixInv,
     SessionPrefix, WriterInv, Opening
<1>3. CASE OpenCreate(s)
  BY <1>3, LockAssumption DEF OpenCreate, CreateStep, LockInv, TypeOK, ControlType, PrefixInv,
     SessionPrefix, WriterInv, Opening
<1>4. CASE OpenFailed(s) \/ OpenStart(s)
  BY <1>4, LockAssumption, ZenonT(40) DEF OpenFailed, OpenStart, LockInv, TypeOK, ControlType, PrefixInv,
     SessionPrefix, WriterInv, Opening
<1> QED
  BY <1>1, <1>2, <1>3, <1>4 DEF Open

LEMMA LockWriter ==
    ASSUME TypeOK, PrefixInv, LockInv, NEW s \in Sessions, Writer(s)
    PROVE  LockInv'
<1>1. CASE WriterGather(s) \/ WriterDone(s) \/ WriteTimeout(s) \/ WriteMark(s)
           \/ WriteMarker(s) \/ WriterDies(s) \/ WriteFrame(s)
  <2>1. UNCHANGED <<lock, fpc, finalized, pc>>
    BY <1>1 DEF WriterGather, WriterDone, WriteTimeout, WriteMark, WriteMarker, WriterDies, WriteFrame
  <2>2. ASSUME NEW r \in Sessions, wpc'[r] = "append" PROVE wpc[r] = "append"
    <3>1. CASE WriterGather(s) \/ WriterDone(s)
      BY <3>1, <2>2 DEF WriterGather, WriterDone, TypeOK, ControlType
    <3>2. CASE WriteTimeout(s) \/ WriteMark(s)
      BY <3>2, <2>2 DEF WriteTimeout, WriteMark, TypeOK, ControlType
    <3>3. CASE WriteMarker(s) \/ WriterDies(s) \/ WriteFrame(s)
      BY <3>3, <2>2 DEF WriteMarker, WriterDies, WriteFrame, TypeOK, ControlType
    <3> QED
      BY <1>1, <3>1, <3>2, <3>3
  <2> QED
    BY <2>1, <2>2 DEF LockInv
<1>2. CASE WriteLock(s)
  BY <1>2, LockAssumption DEF WriteLock, Refusal, LockInv, TypeOK, ControlType, PrefixInv,
     SessionPrefix, WriterInv, Opening
<1>3. CASE WriteFrameFails(s) \/ WriteCommit(s) \/ WriteCommitFails(s)
  <2>1. wpc[s] = "append" /\ lock = s /\ pc[s] \notin Opening /\ fpc = "idle"
    BY <1>3, LockAssumption DEF WriteFrameFails, WriteCommit, WriteCommitFails, LockInv,
       PrefixInv, SessionPrefix, WriterInv
  <2>2. /\ UNCHANGED <<fpc, finalized, pc>> /\ lock' = Free
        /\ wpc'[s] # "append" /\ \A r \in Sessions \ {s} : wpc'[r] = wpc[r]
    BY <1>3 DEF WriteFrameFails, WriteCommit, WriteCommitFails, TypeOK, ControlType
  <2> QED
    BY <2>1, <2>2, LockAssumption DEF LockInv, Opening
<1> QED
  BY <1>1, <1>2, <1>3 DEF Writer, WriteBatch

LEMMA LockCapture ==
    ASSUME TypeOK, LockInv, NEW s \in Sessions, NEW t \in Threads,
           Emit(s, t) \/ EmitFails(s, t) \/ Drop(s, t) \/ Capture(s, t)
    PROVE  LockInv'
<1>1. UNCHANGED <<lock, fpc, finalized, wpc>>
  BY DEF Emit, EmitFails, Drop, Capture, CaptureCheck, CaptureReserve, CaptureOver,
         CaptureSend, CaptureUnsent, CaptureMark, CaptureMarker
<1>2. (pc[s] = "running" /\ pc' = [pc EXCEPT ![s] = "dropping"]) \/ pc' = pc
  BY DEF Emit, EmitFails, Drop, Capture, CaptureCheck, CaptureReserve, CaptureOver,
         CaptureSend, CaptureUnsent, CaptureMark, CaptureMarker
<1> QED
  BY <1>1, <1>2 DEF LockInv, TypeOK, ControlType

LEMMA LockOther ==
    ASSUME TypeOK, LockInv,
           \/ \E s \in Sessions : DropSender(s) \/ DropJoin(s) \/ Crash(s)
           \/ Finalize
           \/ UNCHANGED vars
    PROVE  LockInv'
<1>1. ASSUME NEW s \in Sessions, DropSender(s) \/ DropJoin(s) PROVE LockInv'
  BY <1>1 DEF DropSender, DropJoin, LockInv, TypeOK, ControlType
<1>2. ASSUME NEW s \in Sessions, Crash(s) PROVE LockInv'
  BY <1>2, LockAssumption DEF Crash, LockInv, TypeOK, ControlType
<1>3. CASE FinalizeLock
  BY <1>3, LockAssumption DEF FinalizeLock, LockInv
<1>4. CASE FinalizeVerify \/ FinalizeSeal \/ FinalizeCrash
  BY <1>4, LockAssumption DEF FinalizeVerify, FinalizeSeal, FinalizeCrash, LockInv
<1>5. CASE UNCHANGED vars
  BY <1>5 DEF LockInv
<1> QED
  BY <1>1, <1>2, <1>3, <1>4, <1>5 DEF Finalize

LEMMA NextLock == PrefixInv /\ LockInv /\ [Next]_vars => LockInv'
<1> SUFFICES ASSUME PrefixInv, LockInv, [Next]_vars PROVE LockInv'
  OBVIOUS
<1>1. TypeOK
  BY DEF PrefixInv
<1> QED
  BY <1>1, LockOpen, LockWriter, LockCapture, LockOther DEF Next

-----------------------------------------------------------------------------
(* What any step keeps. *)

\* The steps of one session.
SessionStep(s) ==
    \/ Open(s) \/ Writer(s) \/ DropSender(s) \/ DropJoin(s) \/ Crash(s)
    \/ \E t \in Threads : Emit(s, t) \/ EmitFails(s, t) \/ Drop(s, t) \/ Capture(s, t)

\* The state of a process that its invariant speaks of.
Local(s) == <<pc[s], wpc[s], failed[s], captured[s], taken[s], tpc[s], held[s], emitted[s]>>

\* A session touches the state of no other.
LEMMA OthersKept ==
    ASSUME TypeOK, NEW s \in Sessions, SessionStep(s), NEW r \in Sessions \ {s}
    PROVE  UNCHANGED Local(r)
<1> USE DEF Local, TypeOK, ControlType, ChannelType, ThreadType
<1>1. CASE Open(s)
  BY <1>1 DEF Open, OpenLock, OpenTimeout, OpenCreate, CreateStep, OpenFailed, OpenStart,
     OpenStarted
<1>2. CASE WriterGather(s) \/ WriterDone(s) \/ WriteLock(s) \/ WriteTimeout(s)
  BY <1>2 DEF WriterGather, WriterDone, WriteLock, WriteTimeout
<1>3. CASE WriteFrame(s) \/ WriteFrameFails(s) \/ WriteCommit(s) \/ WriteCommitFails(s)
  BY <1>3 DEF WriteFrame, WriteFrameFails, WriteCommit, WriteCommitFails
<1>4. CASE WriteMark(s) \/ WriteMarker(s) \/ WriterDies(s) \/ DropSender(s) \/ DropJoin(s) \/ Crash(s)
  BY <1>4 DEF WriteMark, WriteMarker, WriterDies, DropSender, DropJoin, Crash
<1>5. ASSUME NEW t \in Threads, Emit(s, t) \/ EmitFails(s, t) \/ Drop(s, t)
      PROVE  UNCHANGED Local(r)
  BY <1>5 DEF Emit, EmitFails, Drop
<1>6. ASSUME NEW t \in Threads, Capture(s, t)
      PROVE  UNCHANGED Local(r)
  BY <1>6 DEF Capture, CaptureCheck, CaptureReserve, CaptureOver, CaptureSend, CaptureUnsent, CaptureMark,
     CaptureMarker, Release
<1> QED
  BY <1>1, <1>2, <1>3, <1>4, <1>5, <1>6 DEF SessionStep, Writer, WriteBatch

\* The finalizer touches the state of no process.
LEMMA FinalizerKeeps ==
    ASSUME TypeOK, Finalize \/ UNCHANGED vars, NEW r \in Sessions
    PROVE  UNCHANGED Local(r)
BY DEF Local, Finalize, FinalizeLock, FinalizeVerify, FinalizeSeal, FinalizeCrash

\* The marker is never removed.
LEMMA MarkerStays ==
    ASSUME TypeOK, [Next]_vars, incomplete
    PROVE  incomplete'
<1> USE DEF TypeOK, DirType
<1>1. ASSUME NEW s \in Sessions, Open(s) PROVE incomplete'
  BY <1>1 DEF Open, OpenLock, OpenTimeout, OpenCreate, CreateStep, OpenFailed, OpenStart,
     OpenStarted
<1>2. ASSUME NEW s \in Sessions, WriteMarker(s) \/ WriterDies(s) PROVE incomplete'
  BY <1>2 DEF WriteMarker, WriterDies
<1>3. ASSUME NEW s \in Sessions, Writer(s), ~WriteMarker(s), ~WriterDies(s) PROVE incomplete'
  BY <1>3 DEF Writer, WriteBatch, WriterGather, WriterDone, WriteLock, WriteTimeout,
     WriteFrame, WriteFrameFails, WriteCommit, WriteCommitFails, WriteMark
<1>4. ASSUME NEW s \in Sessions, DropSender(s) \/ DropJoin(s) \/ Crash(s) PROVE incomplete'
  BY <1>4 DEF DropSender, DropJoin, Crash
<1>5. ASSUME NEW s \in Sessions, NEW t \in Threads,
             Emit(s, t) \/ EmitFails(s, t) \/ Drop(s, t) \/ Capture(s, t)
      PROVE  incomplete'
  BY <1>5 DEF Emit, EmitFails, Drop, Capture, CaptureCheck, CaptureReserve, CaptureOver,
     CaptureSend, CaptureUnsent, CaptureMark, CaptureMarker
<1>6. CASE Finalize \/ UNCHANGED vars
  BY <1>6 DEF Finalize, FinalizeLock, FinalizeVerify, FinalizeSeal, FinalizeCrash
<1> QED
  BY <1>1, <1>2, <1>3, <1>4, <1>5, <1>6 DEF Next

LEMMA KeepsGrows ==
    ASSUME TypeOK, UNCHANGED <<events, captured>>, committed' = committed
    PROVE  FileGrows /\ ChannelsGrow
BY StreamSeq, SameChannels DEF FileGrows, TypeOK, DirType

\* The file and the channels only grow.
LEMMA StepGrows ==
    ASSUME TypeOK, [Next]_vars
    PROVE  FileGrows /\ ChannelsGrow
<1>1. /\ Len(events) \in Nat /\ committed \in Nat /\ committed <= Len(events)
      /\ \A r \in Sessions : Len(captured[r]) \in Nat
  BY StreamSeq, ChannelSeq DEF TypeOK, DirType
<1>2. ASSUME NEW s \in Sessions, OpenStart(s) PROVE FileGrows /\ ChannelsGrow
  <2>1. FileGrows
    BY <1>1, <1>2 DEF OpenStart, FileGrows
  <2> QED
    BY <1>1, <1>2, <2>1, MarkFrames, ChannelAppend DEF OpenStart, ChannelsGrow, TypeOK
<1>3. ASSUME NEW s \in Sessions, Open(s), ~OpenStart(s) PROVE FileGrows /\ ChannelsGrow
  <2>1. UNCHANGED <<events, captured>> /\ committed' = committed
    BY <1>3 DEF Open, OpenLock, OpenTimeout, OpenCreate, CreateStep, OpenFailed, OpenStarted
  <2> QED
    BY <2>1, KeepsGrows
<1>4. ASSUME NEW s \in Sessions, WriteFrame(s) PROVE FileGrows /\ ChannelsGrow
  <2>1. written[s] < taken[s]
    BY <1>4 DEF WriteFrame, Fits
  <2> QED
    BY <1>1, <1>4, <2>1, StreamAppend, SameChannels DEF WriteFrame, FileGrows, TypeOK
<1>5. ASSUME NEW s \in Sessions, WriteCommit(s) \/ WriteCommitFails(s)
      PROVE  FileGrows /\ ChannelsGrow
  <2>1. UNCHANGED <<events, captured>> /\ committed' \in {committed, Len(events)}
    BY <1>5 DEF WriteCommit, WriteCommitFails
  <2> QED
    BY <1>1, <2>1, SameChannels DEF FileGrows
<1>6. ASSUME NEW s \in Sessions,
             \/ WriterGather(s) \/ WriterDone(s) \/ WriteLock(s) \/ WriteTimeout(s)
             \/ WriteFrameFails(s) \/ WriteMark(s) \/ WriteMarker(s) \/ WriterDies(s)
      PROVE  FileGrows /\ ChannelsGrow
  <2>1. UNCHANGED <<events, captured>> /\ committed' = committed
    BY <1>6 DEF WriterGather, WriterDone, WriteLock, WriteTimeout, WriteFrameFails,
       WriteMark, WriteMarker, WriterDies
  <2> QED
    BY <2>1, KeepsGrows
<1>7. ASSUME NEW s \in Sessions, DropSender(s) \/ DropJoin(s) \/ Crash(s)
      PROVE  FileGrows /\ ChannelsGrow
  <2>1. UNCHANGED <<events, captured>> /\ committed' = committed
    BY <1>7 DEF DropSender, DropJoin, Crash
  <2> QED
    BY <2>1, KeepsGrows
<1>8. ASSUME NEW s \in Sessions, NEW t \in Threads, CaptureSend(s, t)
      PROVE  FileGrows /\ ChannelsGrow
  <2>1. held[s][t] \in Frame
    BY DEF TypeOK, ThreadType
  <2>2. FileGrows
    BY <1>1, <1>8 DEF CaptureSend, CaptureUnsent, FileGrows
  <2> QED
    BY <1>1, <1>8, <2>1, <2>2, ChannelAppend DEF CaptureSend, CaptureUnsent, ChannelsGrow, TypeOK
<1>9. ASSUME NEW s \in Sessions, NEW t \in Threads, ~CaptureSend(s, t),
             Emit(s, t) \/ EmitFails(s, t) \/ Drop(s, t) \/ Capture(s, t)
      PROVE  FileGrows /\ ChannelsGrow
  <2>1. UNCHANGED <<events, captured>> /\ committed' = committed
    BY <1>9 DEF Emit, EmitFails, Drop, Capture, CaptureCheck, CaptureReserve, CaptureOver,
       CaptureUnsent, CaptureMark, CaptureMarker
  <2> QED
    BY <2>1, KeepsGrows
<1>10. CASE Finalize \/ UNCHANGED vars
  <2>1. UNCHANGED <<events, captured>> /\ committed' = committed
    BY <1>10 DEF Finalize, FinalizeLock, FinalizeVerify, FinalizeSeal, FinalizeCrash
  <2> QED
    BY <2>1, KeepsGrows
<1> QED
  BY <1>2, <1>3, <1>4, <1>5, <1>6, <1>7, <1>8, <1>9, <1>10 DEF Next, Writer, WriteBatch

\* A frame of the file stays what it was.
LEMMA FrameKept ==
    ASSUME PrefixInv, PrefixInv', FileGrows, ChannelsGrow, NEW i \in 1..Len(events)
    PROVE  /\ i \in 1..Len(events') /\ events'[i] = events[i] /\ FrameAt(i)' = FrameAt(i)
<1>1. Len(events) \in Nat /\ Len(events') \in Nat
  BY StreamSeq DEF PrefixInv, TypeOK, DirType
<1>2. events[i][1] \in Sessions /\ events[i][2] \in 1..Len(captured[events[i][1]])
  <2>1. events[i] \in Sessions \X (Nat \ {0})
    BY StreamSeq, ElementOfSeq DEF PrefixInv, TypeOK
  <2> QED
    BY <2>1 DEF PrefixInv, ExactPrefix
<1> QED
  BY <1>1, <1>2, SMTT(30) DEF FileGrows, ChannelsGrow, FrameAt

\* What the committed stream says is never unsaid, and without a commit it says no more.
LEMMA StreamSays ==
    ASSUME PrefixInv, PrefixInv', FileGrows, ChannelsGrow, NEW kind
    PROVE  /\ SessionsWith(kind) \subseteq SessionsWith(kind)'
           /\ committed' = committed => SessionsWith(kind)' = SessionsWith(kind)
<1>1. /\ committed \in Nat /\ committed' \in Nat /\ committed <= committed'
      /\ committed <= Len(events) /\ Len(events) \in Nat
  BY StreamSeq DEF PrefixInv, TypeOK, DirType, FileGrows
<1>2. ASSUME NEW i \in 1..committed
      PROVE  i \in 1..committed' /\ events'[i] = events[i] /\ FrameAt(i)' = FrameAt(i)
  BY <1>1, FrameKept
<1> QED
  BY <1>1, <1>2 DEF SessionsWith

-----------------------------------------------------------------------------
(* The seal. *)

\* While a seal is being put, and after it, nothing is committed.
LEMMA SealedStream ==
    ASSUME PrefixInv, LockInv, [Next]_vars, fpc = "seal" \/ finalized
    PROVE  committed' = committed
<1>1. ASSUME NEW s \in Sessions PROVE wpc[s] # "append"
  BY LockAssumption DEF LockInv
<1>2. ASSUME NEW s \in Sessions, Open(s) PROVE committed' = committed
  BY <1>2 DEF Open, OpenLock, OpenTimeout, OpenCreate, CreateStep, OpenFailed, OpenStart,
     OpenStarted
<1>3. ASSUME NEW s \in Sessions, Writer(s) PROVE committed' = committed
  <2>1. ~WriteFrame(s) /\ ~WriteCommit(s) /\ ~WriteCommitFails(s)
    BY <1>1 DEF WriteFrame, WriteCommit, WriteCommitFails
  <2> QED
    BY <1>3, <2>1 DEF Writer, WriteBatch, WriterGather, WriterDone, WriteLock, WriteTimeout,
       WriteFrameFails, WriteMark, WriteMarker, WriterDies
<1>4. ASSUME NEW s \in Sessions, DropSender(s) \/ DropJoin(s) \/ Crash(s)
      PROVE  committed' = committed
  BY <1>4 DEF DropSender, DropJoin, Crash
<1>5. ASSUME NEW s \in Sessions, NEW t \in Threads,
             Emit(s, t) \/ EmitFails(s, t) \/ Drop(s, t) \/ Capture(s, t)
      PROVE  committed' = committed
  BY <1>5 DEF Emit, EmitFails, Drop, Capture, CaptureCheck, CaptureReserve, CaptureOver,
     CaptureSend, CaptureUnsent, CaptureMark, CaptureMarker
<1>6. CASE Finalize \/ UNCHANGED vars
  BY <1>6 DEF Finalize, FinalizeLock, FinalizeVerify, FinalizeSeal, FinalizeCrash
<1> QED
  BY <1>2, <1>3, <1>4, <1>5, <1>6 DEF Next

\* Only the finalizer seals, and only from a stream it found to verify.
LEMMA SealSteps ==
    ASSUME TypeOK, [Next]_vars, ~(Finalize /\ fpc = "verify")
    PROVE  fpc' = "seal" \/ finalized' => fpc = "seal" \/ finalized
<1>1. ASSUME NEW s \in Sessions, SessionStep(s) PROVE fpc' = fpc /\ finalized' = finalized
  <2>1. CASE Open(s)
    BY <2>1 DEF Open, OpenLock, OpenTimeout, OpenCreate, CreateStep, OpenFailed, OpenStart,
       OpenStarted
  <2>2. CASE Writer(s)
    BY <2>2 DEF Writer, WriteBatch, WriterGather, WriterDone, WriteLock, WriteTimeout,
       WriteFrame, WriteFrameFails, WriteCommit, WriteCommitFails, WriteMark, WriteMarker, WriterDies
  <2>3. CASE DropSender(s) \/ DropJoin(s) \/ Crash(s)
    BY <2>3 DEF DropSender, DropJoin, Crash
  <2>4. ASSUME NEW t \in Threads, Emit(s, t) \/ EmitFails(s, t) \/ Drop(s, t) \/ Capture(s, t)
        PROVE  fpc' = fpc /\ finalized' = finalized
    BY <2>4 DEF Emit, EmitFails, Drop, Capture, CaptureCheck, CaptureReserve, CaptureOver,
       CaptureSend, CaptureUnsent, CaptureMark, CaptureMarker
  <2> QED
    BY <1>1, <2>1, <2>2, <2>3, <2>4 DEF SessionStep
<1>2. CASE Finalize \/ UNCHANGED vars
  BY <1>2 DEF Finalize, FinalizeLock, FinalizeVerify, FinalizeSeal, FinalizeCrash
<1> QED
  BY <1>1, <1>2 DEF Next, SessionStep

LEMMA NextSeal ==
    ASSUME PrefixInv, LockInv, SealInv, PrefixInv', [Next]_vars
    PROVE  SealInv'
<1>1. TypeOK /\ FileGrows /\ ChannelsGrow /\ (incomplete => incomplete')
  BY StepGrows, MarkerStays DEF PrefixInv
<1>2. committed' = committed => VerifyReason' = VerifyReason
  <2>1. ASSUME committed' = committed
        PROVE  /\ SessionsWith("start")' = SessionsWith("start")
               /\ SessionsWith("stop")' = SessionsWith("stop")
    BY <1>1, <2>1, StreamSays
  <2> QED
    BY <2>1 DEF VerifyReason
<1>3. CASE Finalize /\ fpc = "verify"
  <2>1. committed' = committed
    BY <1>3 DEF Finalize, FinalizeLock, FinalizeVerify, FinalizeSeal, FinalizeCrash
  <2> QED
    BY <1>1, <1>2, <1>3, <2>1 DEF Finalize, FinalizeLock, FinalizeVerify, FinalizeSeal,
       FinalizeCrash, SealInv, TypeOK, DirType
<1>4. CASE ~(Finalize /\ fpc = "verify")
  BY <1>1, <1>2, <1>4, SealSteps, SealedStream DEF SealInv
<1> QED
  BY <1>3, <1>4

-----------------------------------------------------------------------------
(* The sessions. *)

\* A session whose own state a step leaves alone keeps its invariant.
LEMMA KeptSession ==
    ASSUME PrefixInv, PrefixInv', FileGrows, ChannelsGrow, incomplete => incomplete',
           NEW r \in Sessions, SessionInv(r), UNCHANGED Local(r)
    PROVE  SessionInv(r)'
<1>1. SessionsWith("start") \subseteq SessionsWith("start")'
  BY StreamSays
<1>2. StartInv(r)'
  BY <1>1 DEF SessionInv, StartInv, Local, Ran, Idle
<1>3. StopInv(r)'
  BY DEF SessionInv, StopInv, StopLast, HeldInv, OneDropper, EndIdle, NoneLost, Local, Holds,
     Queued, Carried, Idle
<1> QED
  BY <1>2, <1>3 DEF SessionInv

\* A thread that is not at its output runs in a process that is up.
LEMMA ActiveThread ==
    ASSUME TypeOK, NEW s \in Sessions, SessionInv(s), NEW t \in Threads, tpc[s][t] # "ready"
    PROVE  pc[s] \in {"running", "dropping"}
BY DEF SessionInv, StartInv, StopInv, EndIdle, Idle, Opening, TypeOK, ControlType

\* A step after which a process has an empty channel and no output: nothing to lose.
LEMMA NothingYet ==
    ASSUME NEW s \in Sessions, captured'[s] = <<>>, emitted'[s] = 0, Idle(s)',
           pc'[s] \in Opening \cup {"starting", "refused"},
           pc'[s] = "starting" => wpc'[s] = "recv" /\ failed'[s]
    PROVE  SessionInv(s)'
<1>1. StartInv(s)'
  BY DEF StartInv, Ran, Opening
<1>2. StopInv(s)'
  <2>1. Len(captured'[s]) = 0 /\ 1..0 = {}
    OBVIOUS
  <2> QED
    BY <2>1 DEF StopInv, StopLast, HeldInv, OneDropper, EndIdle, NoneLost, Idle, Opening
<1> QED
  BY <1>1, <1>2 DEF SessionInv

\* Up to its lock's release the opener has captured nothing.
LEMMA OpenSession ==
    ASSUME PrefixInv, NEW s \in Sessions, SessionInv(s),
           OpenLock(s) \/ OpenTimeout(s) \/ OpenCreate(s) \/ OpenFailed(s)
    PROVE  SessionInv(s)'
<1>1. pc[s] \in Opening /\ wpc[s] = "recv"
  BY DEF OpenLock, OpenTimeout, OpenCreate, CreateStep, OpenFailed, Opening, PrefixInv,
     SessionPrefix, WriterInv
<1>2. captured[s] = <<>> /\ emitted[s] = 0 /\ Idle(s)
  BY <1>1 DEF SessionInv, StartInv
<1>3. UNCHANGED <<captured, emitted, tpc, wpc>>
  BY DEF OpenLock, OpenTimeout, OpenCreate, CreateStep, OpenFailed
<1>4. Idle(s)'
  BY <1>2, <1>3 DEF Idle
<1>5. CASE OpenFailed(s)
  <2>1. pc'[s] = "starting" /\ failed'[s]
    BY <1>5 DEF OpenFailed, PrefixInv, TypeOK, ControlType
  <2> QED
    BY <1>1, <1>2, <1>3, <1>4, <2>1, NothingYet
<1>6. CASE ~OpenFailed(s)
  <2>1. pc'[s] \in Opening \cup {"refused"}
    BY <1>6 DEF OpenLock, OpenTimeout, OpenCreate, CreateStep, PrefixInv, TypeOK, ControlType,
       Opening
  <2> QED
    BY <1>2, <1>3, <1>4, <2>1, NothingYet DEF Opening
<1> QED
  BY <1>5, <1>6

LEMMA StartSession ==
    ASSUME PrefixInv, NEW s \in Sessions, SessionInv(s), OpenStart(s)
    PROVE  SessionInv(s)'
<1>1. pc[s] = "status" /\ captured[s] = <<>> /\ emitted[s] = 0 /\ Idle(s) /\ taken[s] = 0
  BY DEF OpenStart, SessionInv, StartInv, PrefixInv, SessionPrefix, WriterInv, Opening
<1>2. /\ captured'[s] = <<StartFrame>> /\ emitted' = emitted /\ tpc' = tpc
      /\ pc'[s] = "starting" /\ wpc'[s] = "lock" /\ taken'[s] = 1
  BY <1>1 DEF OpenStart, PrefixInv, TypeOK, ControlType, ChannelType
<1>3. StartInv(s)'
  BY <1>1, <1>2 DEF StartInv, Ran, Idle, Opening
<1>4. StopInv(s)'
  <2>1. Len(captured'[s]) = 1 /\ captured'[s][1].kind = "start"
    BY <1>2 DEF StartFrame
  <2>2. \A n \in 1..Len(captured'[s]) : captured'[s][n].kind # "stop"
    BY <2>1
  <2> QED
    BY <1>1, <1>2, <2>2 DEF StopInv, StopLast, HeldInv, OneDropper, EndIdle, NoneLost, Idle
<1> QED
  BY <1>3, <1>4 DEF SessionInv

\* A producer runs when its Start is committed, or when the marker exists.
LEMMA StartedSession ==
    ASSUME PrefixInv, NEW s \in Sessions, SessionInv(s), OpenStarted(s)
    PROVE  SessionInv(s)'
<1>1. /\ pc[s] = "starting" /\ wpc[s] \in {"recv", "done"} /\ emitted[s] = 0 /\ Idle(s)
      /\ pc'[s] \in {"running", "refused"} /\ (pc'[s] = "running" => MayRun(s))
      /\ UNCHANGED <<captured, emitted, tpc, events, committed, incomplete>>
  BY DEF OpenStarted, SessionInv, StartInv, PrefixInv, TypeOK, ControlType, Opening
<1>2. MayRun(s) => incomplete \/ s \in SessionsWith("start")
  <2>1. SUFFICES ASSUME ~failed[s] PROVE s \in SessionsWith("start")
    BY DEF MayRun
  <2>2. wpc[s] = "done" /\ written[s] = 1 /\ captured[s] = <<StartFrame>> /\ IsCommitted(s, 1)
    BY <1>1, <2>1 DEF SessionInv, StartInv, PrefixInv, SessionPrefix, WriterInv
  <2>3. PICK i \in 1..committed : events[i] = <<s, 1>>
    BY <2>2 DEF IsCommitted
  <2>4. FrameAt(i) = StartFrame
    BY <2>2, <2>3 DEF FrameAt
  <2> QED
    BY <2>3, <2>4 DEF SessionsWith, StartFrame
<1>3. SessionsWith("start")' = SessionsWith("start")
  BY <1>1 DEF SessionsWith, FrameAt
<1>4. StartInv(s)'
  BY <1>1, <1>2, <1>3 DEF StartInv, Ran, Idle, Opening
<1>5. \A n \in 1..Len(captured[s]) : captured[s][n].kind # "stop"
  BY <1>1 DEF SessionInv, StopInv, StopLast
<1>6. StopInv(s)'
  BY <1>1, <1>5 DEF StopInv, StopLast, HeldInv, OneDropper, EndIdle, NoneLost, Idle
<1> QED
  BY <1>4, <1>6 DEF SessionInv

\* What the writer and the end of a stop leave of a session.
LEMMA WriterSession ==
    ASSUME PrefixInv, PrefixInv', FileGrows, ChannelsGrow, incomplete => incomplete',
           NEW s \in Sessions, SessionInv(s), Writer(s)
    PROVE  SessionInv(s)'
<1>1. SessionsWith("start") \subseteq SessionsWith("start")'
  BY StreamSays
<1>2. UNCHANGED <<captured, pc, tpc, held, emitted>>
  BY DEF Writer, WriteBatch, WriterGather, WriterDone, WriteLock, WriteTimeout,
     WriteFrame, WriteFrameFails, WriteCommit, WriteCommitFails, WriteMark, WriteMarker, WriterDies
<1>3. failed[s] => failed'[s]
  BY DEF Writer, WriteBatch, WriterGather, WriterDone, WriteLock, WriteTimeout,
     WriteFrame, WriteFrameFails, WriteCommit, WriteCommitFails, WriteMark, WriteMarker, WriterDies,
     PrefixInv, TypeOK, ControlType
<1>4. pc[s] = "starting" => wpc[s] # "recv" /\ wpc'[s] # "recv" /\ taken'[s] = taken[s]
  <2>1. CASE WriterGather(s) \/ WriterDone(s)
    BY <2>1 DEF WriterGather, WriterDone
  <2>2. CASE WriteLock(s) \/ WriteTimeout(s) \/ WriteFrame(s) \/ WriteFrameFails(s)
    BY <2>2 DEF WriteLock, WriteTimeout, WriteFrame, WriteFrameFails, PrefixInv, TypeOK,
       ControlType
  <2>3. CASE WriteCommit(s) \/ WriteCommitFails(s) \/ WriteMark(s) \/ WriteMarker(s) \/ WriterDies(s)
    BY <2>3 DEF WriteCommit, WriteCommitFails, WriteMark, WriteMarker, WriterDies, PrefixInv, TypeOK,
       ControlType
  <2> QED
    BY <2>1, <2>2, <2>3 DEF Writer, WriteBatch
<1>5. StartInv(s)'
  BY <1>1, <1>2, <1>4 DEF SessionInv, StartInv, Ran, Idle
<1>6. StopInv(s)'
  BY <1>2, <1>3 DEF SessionInv, StopInv, StopLast, HeldInv, OneDropper, EndIdle, NoneLost,
     Holds, Queued, Carried, Idle
<1> QED
  BY <1>5, <1>6 DEF SessionInv

LEMMA EndSession ==
    ASSUME PrefixInv, PrefixInv', FileGrows, ChannelsGrow, incomplete => incomplete',
           NEW s \in Sessions, SessionInv(s), DropSender(s) \/ DropJoin(s) \/ Crash(s)
    PROVE  SessionInv(s)'
<1>1. SessionsWith("start") \subseteq SessionsWith("start")'
  BY StreamSays
<1>2. /\ UNCHANGED <<captured, emitted>> /\ Idle(s)'
      /\ pc'[s] \in {"draining", "closed", "crashed"}
      /\ pc'[s] # "crashed" => failed' = failed /\ tpc' = tpc /\ Idle(s)
      /\ pc'[s] # "crashed" => pc[s] \in {"dropping", "draining"}
  <2>1. CASE DropSender(s)
    BY <2>1 DEF DropSender, Idle, PrefixInv, TypeOK, ControlType
  <2>2. CASE DropJoin(s)
    BY <2>2 DEF DropJoin, SessionInv, StopInv, EndIdle, Idle, PrefixInv, TypeOK, ControlType
  <2>3. CASE Crash(s)
    BY <2>3 DEF Crash, Idle, PrefixInv, TypeOK, ControlType, ThreadType
  <2> QED
    BY <2>1, <2>2, <2>3
<1>3. Ran(s)' => Ran(s)
  BY <1>2 DEF Ran
<1>4. StartInv(s)'
  BY <1>1, <1>2, <1>3 DEF SessionInv, StartInv, Opening
<1>5. StopLast(s)'
  BY <1>2 DEF SessionInv, StopInv, StopLast, Holds, Opening
<1>6. HeldInv(s)' /\ OneDropper(s)' /\ EndIdle(s)'
  BY <1>2 DEF HeldInv, OneDropper, EndIdle, Idle
<1>7. NoneLost(s)'
  BY <1>2 DEF SessionInv, StopInv, NoneLost, Holds, Queued, Carried, Idle
<1> QED
  BY <1>4, <1>5, <1>6, <1>7 DEF SessionInv, StopInv

\* Most steps of a capturing thread leave the process and its channel alone, so only
\* what the thread holds, and what it carries, matters.
LEMMA ThreadSession ==
    ASSUME PrefixInv, PrefixInv', FileGrows, ChannelsGrow, incomplete => incomplete',
           NEW s \in Sessions, SessionInv(s), NEW t \in Threads, tpc[s][t] # "ready",
           UNCHANGED <<pc, wpc, captured, taken, emitted>>, failed[s] => failed'[s],
           \A u \in Threads \ {t} : tpc'[s][u] = tpc[s][u] /\ held'[s][u] = held[s][u],
           tpc'[s][t] \in {"output", "reserve", "send"} =>
              tpc[s][t] \in {"output", "reserve", "send"} /\ held'[s][t] = held[s][t],
           tpc'[s][t] \in {"reserve", "send"} =>
              tpc[s][t] \in {"reserve", "send"} \/ ~failed[s],
           \/ failed'[s]
           \/ tpc'[s][t] \in {"over", "mark"}
           \/ tpc'[s][t] \in {"reserve", "send"} /\ tpc[s][t] \in {"output", "reserve"}
    PROVE  SessionInv(s)'
<1>1. pc[s] \in {"running", "dropping"}
  BY ActiveThread DEF PrefixInv
<1>2. SessionsWith("start") \subseteq SessionsWith("start")'
  BY StreamSays
<1>3. StartInv(s)'
  BY <1>1, <1>2 DEF SessionInv, StartInv, Ran, Opening
<1>4. StopLast(s)' /\ EndIdle(s)'
  BY <1>1 DEF SessionInv, StopInv, StopLast, EndIdle, Holds
<1>5. OneDropper(s)'
  BY DEF SessionInv, StopInv, OneDropper
<1>6. HeldInv(s)'
  <2>1. ASSUME NEW u \in Threads
        PROVE  tpc'[s][u] \in {"output", "reserve", "send"} =>
                  (held'[s][u].kind = "stop" <=> pc'[s] = "dropping")
    BY DEF SessionInv, StopInv, HeldInv
  <2>2. ASSUME NEW u \in Threads, tpc'[s][u] \in {"reserve", "send"}, pc[s] = "dropping"
        PROVE  \A k \in 1..emitted[s] : Queued(s, k)
    <3>1. CASE tpc[s][u] \in {"reserve", "send"}
      BY <2>2, <3>1 DEF SessionInv, StopInv, HeldInv
    <3>2. CASE u = t /\ tpc[s][t] = "output" /\ ~failed[s]
      <4>1. held[s][t].kind = "stop" /\ \A v \in Threads \ {t} : tpc[s][v] = "ready"
        BY <2>2, <3>2 DEF SessionInv, StopInv, HeldInv, OneDropper
      <4>2. \A k \in 1..emitted[s] : ~Carried(s, k)
        BY <3>2, <4>1 DEF Carried
      <4> QED
        BY <2>2, <3>2, <4>2 DEF SessionInv, StopInv, NoneLost
    <3> QED
      BY <2>2, <3>1, <3>2
  <2> QED
    BY <2>1, <2>2 DEF HeldInv, Queued, Holds
<1>7. NoneLost(s)'
  <2>1. CASE failed'[s]
    BY <2>1 DEF NoneLost
  <2>2. CASE tpc'[s][t] \in {"over", "mark"}
    BY <2>2 DEF NoneLost, Carried
  <2>3. CASE tpc'[s][t] \in {"reserve", "send"} /\ tpc[s][t] \in {"output", "reserve"}
    <3>1. held'[s][t] = held[s][t]
      BY <2>3
    <3>2. ASSUME NEW k \in 1..emitted[s], Carried(s, k) PROVE Carried(s, k)'
      BY <2>3, <3>1, <3>2 DEF Carried
    <3> QED
      BY <1>1, <3>2 DEF SessionInv, StopInv, NoneLost, Queued, Holds
  <2> QED
    BY <2>1, <2>2, <2>3
<1> QED
  BY <1>3, <1>4, <1>5, <1>6, <1>7 DEF SessionInv, StopInv

LEMMA CaptureSession ==
    ASSUME PrefixInv, PrefixInv', FileGrows, ChannelsGrow, incomplete => incomplete',
           NEW s \in Sessions, SessionInv(s), NEW t \in Threads,
           \/ CaptureCheck(s, t) \/ CaptureReserve(s, t) \/ CaptureOver(s, t)
           \/ CaptureUnsent(s, t) \/ CaptureMark(s, t)
    PROVE  SessionInv(s)'
<1>1. UNCHANGED <<pc, wpc, captured, taken, emitted>> /\ tpc[s][t] # "ready"
  BY DEF CaptureCheck, CaptureReserve, CaptureOver, CaptureUnsent, CaptureMark
<1>2. ASSUME NEW u \in Threads \ {t} PROVE tpc'[s][u] = tpc[s][u] /\ held'[s][u] = held[s][u]
  BY DEF CaptureCheck, CaptureReserve, CaptureOver, CaptureUnsent, CaptureMark, Release, PrefixInv,
     TypeOK, ThreadType
<1>3. /\ failed[s] => failed'[s]
      /\ tpc'[s][t] \in {"output", "reserve", "send"} =>
            tpc[s][t] \in {"output", "reserve", "send"} /\ held'[s][t] = held[s][t]
      /\ tpc'[s][t] \in {"reserve", "send"} =>
            tpc[s][t] \in {"reserve", "send"} \/ ~failed[s]
      /\ \/ failed'[s]
         \/ tpc'[s][t] \in {"over", "mark"}
         \/ tpc'[s][t] \in {"reserve", "send"} /\ tpc[s][t] \in {"output", "reserve"}
  <2> USE DEF PrefixInv, TypeOK, ControlType, ThreadType
  <2>1. CASE CaptureCheck(s, t)
    BY <2>1 DEF CaptureCheck, Release
  <2>2. CASE CaptureReserve(s, t)
    BY <2>2 DEF CaptureReserve
  <2>3. CASE CaptureOver(s, t) \/ CaptureUnsent(s, t)
    BY <2>3 DEF CaptureOver, CaptureUnsent, Release
  <2>4. CASE CaptureMark(s, t)
    BY <2>4 DEF CaptureMark
  <2> QED
    BY <2>1, <2>2, <2>3, <2>4
<1> QED
  BY <1>1, <1>2, <1>3, ThreadSession

\* The marker exists, or could not be made; the thread is back, the recorder failed before.
LEMMA MarkerSession ==
    ASSUME PrefixInv, PrefixInv', FileGrows, ChannelsGrow, incomplete => incomplete',
           NEW s \in Sessions, SessionInv(s), NEW t \in Threads, CaptureMarker(s, t)
    PROVE  SessionInv(s)'
<1>1. /\ UNCHANGED <<pc, wpc, captured, taken, emitted, held, failed>>
      /\ tpc[s][t] = "marker" /\ tpc'[s][t] = "ready"
      /\ \A u \in Threads \ {t} : tpc'[s][u] = tpc[s][u]
  BY DEF CaptureMarker, PrefixInv, TypeOK, ThreadType
<1>2. pc[s] \in {"running", "dropping"}
  BY <1>1, ActiveThread DEF PrefixInv
<1>3. SessionsWith("start") \subseteq SessionsWith("start")'
  BY StreamSays
<1>4. StartInv(s)'
  BY <1>1, <1>2, <1>3 DEF SessionInv, StartInv, Ran, Opening
<1>5. StopLast(s)' /\ OneDropper(s)' /\ EndIdle(s)'
  BY <1>1, <1>2 DEF SessionInv, StopInv, StopLast, OneDropper, EndIdle, Holds
<1>6. HeldInv(s)'
  BY <1>1 DEF SessionInv, StopInv, HeldInv, Queued, Holds
<1>7. NoneLost(s)'
  <2>1. ASSUME NEW k \in 1..emitted[s], Carried(s, k) PROVE Carried(s, k)'
    BY <1>1, <2>1 DEF Carried
  <2> QED
    BY <1>1, <2>1 DEF SessionInv, StopInv, NoneLost, Queued, Holds
<1> QED
  BY <1>4, <1>5, <1>6, <1>7 DEF SessionInv, StopInv

\* A chunk goes out: the thread that emitted it carries it, or is about to fail.
LEMMA EmitSession ==
    ASSUME PrefixInv, PrefixInv', FileGrows, ChannelsGrow, incomplete => incomplete',
           NEW s \in Sessions, SessionInv(s), NEW t \in Threads, Emit(s, t) \/ EmitFails(s, t)
    PROVE  SessionInv(s)'
<1>1. /\ UNCHANGED <<pc, wpc, captured, taken, failed>> /\ pc[s] = "running"
      /\ emitted'[s] = emitted[s] + 1 /\ tpc[s][t] = "ready" /\ emitted[s] \in Nat
      /\ \A u \in Threads \ {t} : tpc'[s][u] = tpc[s][u] /\ held'[s][u] = held[s][u]
  BY DEF Emit, EmitFails, PrefixInv, TypeOK, ThreadType
<1>2. \/ tpc'[s][t] = "mark"
      \/ /\ tpc'[s][t] = "output"
         /\ held'[s][t].kind = "data" /\ held'[s][t].out = emitted[s] + 1
  <2>1. CASE Emit(s, t)
    BY <2>1 DEF Emit, PrefixInv, TypeOK, ThreadType
  <2>2. CASE EmitFails(s, t)
    BY <2>2 DEF EmitFails, PrefixInv, TypeOK, ThreadType
  <2> QED
    BY <2>1, <2>2
<1>3. SessionsWith("start") \subseteq SessionsWith("start")'
  BY StreamSays
<1>4. StartInv(s)'
  BY <1>1, <1>3 DEF SessionInv, StartInv, Ran, Opening
<1>5. StopLast(s)' /\ OneDropper(s)' /\ EndIdle(s)'
  BY <1>1 DEF SessionInv, StopInv, StopLast, OneDropper, EndIdle
<1>6. HeldInv(s)'
  BY <1>1, <1>2 DEF SessionInv, StopInv, HeldInv
<1>7. NoneLost(s)'
  <2>1. ASSUME NEW k \in 1..emitted[s], Carried(s, k) PROVE Carried(s, k)'
    BY <1>1, <2>1 DEF Carried
  <2>2. ASSUME NEW k, k = emitted[s] + 1 PROVE Carried(s, k)'
    BY <1>2, <2>2 DEF Carried
  <2>3. \A k \in 1..emitted'[s] : k \in 1..emitted[s] \/ k = emitted[s] + 1
    BY <1>1
  <2> QED
    BY <1>1, <2>1, <2>2, <2>3 DEF SessionInv, StopInv, NoneLost, Queued, Holds
<1> QED
  BY <1>4, <1>5, <1>6, <1>7 DEF SessionInv, StopInv

\* The last owner drops the recorder when no thread is in the middle of a capture.
LEMMA DropSession ==
    ASSUME PrefixInv, PrefixInv', FileGrows, ChannelsGrow, incomplete => incomplete',
           NEW s \in Sessions, SessionInv(s), NEW t \in Threads, Drop(s, t)
    PROVE  SessionInv(s)'
<1>1. /\ UNCHANGED <<wpc, captured, taken, failed, emitted>>
      /\ pc[s] = "running" /\ pc'[s] = "dropping" /\ Idle(s)
      /\ tpc'[s][t] = "output" /\ held'[s][t].kind = "stop"
      /\ \A u \in Threads \ {t} : tpc'[s][u] = "ready"
  BY DEF Drop, Idle, StopFrame, PrefixInv, TypeOK, ThreadType, ControlType
<1>2. SessionsWith("start") \subseteq SessionsWith("start")'
  BY StreamSays
<1>3. StartInv(s)'
  BY <1>1, <1>2 DEF SessionInv, StartInv, Ran, Opening
<1>4. StopLast(s)' /\ OneDropper(s)' /\ EndIdle(s)' /\ HeldInv(s)'
  BY <1>1 DEF SessionInv, StopInv, StopLast, OneDropper, EndIdle, HeldInv
<1>5. NoneLost(s)'
  BY <1>1 DEF SessionInv, StopInv, NoneLost, Queued, Holds, Carried, Idle
<1> QED
  BY <1>3, <1>4, <1>5 DEF SessionInv, StopInv

\* The frame of a thread joins the channel: what it carried is queued.
LEMMA SendSession ==
    ASSUME PrefixInv, PrefixInv', FileGrows, ChannelsGrow, incomplete => incomplete',
           NEW s \in Sessions, SessionInv(s), NEW t \in Threads, CaptureSend(s, t)
    PROVE  SessionInv(s)'
<1> DEFINE len == Len(captured[s])
<1>1. /\ UNCHANGED <<pc, wpc, taken, failed, emitted>>
      /\ tpc[s][t] = "send" /\ tpc'[s][t] = "ready"
      /\ \A u \in Threads \ {t} : tpc'[s][u] = tpc[s][u] /\ held'[s][u] = held[s][u]
  BY DEF CaptureSend, CaptureUnsent, Release, PrefixInv, TypeOK, ThreadType
<1>2. pc[s] \in {"running", "dropping"}
  BY <1>1, ActiveThread DEF PrefixInv
<1>3. /\ len \in Nat /\ Len(captured'[s]) = len + 1 /\ captured'[s][len + 1] = held[s][t]
      /\ \A n \in 1..len : captured'[s][n] = captured[s][n]
  <2>1. held[s][t] \in Frame
    BY DEF PrefixInv, TypeOK, ThreadType
  <2> QED
    BY <2>1, ChannelSeq, ChannelAppend DEF CaptureSend, CaptureUnsent, PrefixInv, TypeOK
<1>4. /\ \A n \in 1..Len(captured'[s]) : n \in 1..len \/ n = len + 1
      /\ \A n \in 1..len : n \in 1..Len(captured'[s])
      /\ len + 1 \in 1..Len(captured'[s])
  BY <1>3
<1>5. ASSUME NEW k, Queued(s, k) PROVE Queued(s, k)'
  BY <1>3, <1>4, <1>5 DEF Queued, Holds
<1>6. SessionsWith("start") \subseteq SessionsWith("start")'
  BY StreamSays
<1>7. StartInv(s)'
  BY <1>1, <1>2, <1>6 DEF SessionInv, StartInv, Ran, Opening
<1>8. StopLast(s)'
  <2>1. ASSUME NEW n \in 1..len, captured'[s][n].kind = "stop"
        PROVE  /\ pc'[s] \notin Opening \cup {"starting", "running"}
               /\ \A k \in 1..emitted'[s] : \E m \in 1..(n - 1) : Holds(s, m, k)'
    <3>1. \A m \in 1..(n - 1) : m \in 1..len
      BY <1>3
    <3>2. /\ pc[s] \notin Opening \cup {"starting", "running"}
          /\ \A k \in 1..emitted[s] : \E m \in 1..(n - 1) : Holds(s, m, k)
      BY <1>3, <2>1 DEF SessionInv, StopInv, StopLast
    <3>3. ASSUME NEW m \in 1..(n - 1), NEW k, Holds(s, m, k) PROVE Holds(s, m, k)'
      BY <1>3, <3>1, <3>3 DEF Holds
    <3> QED
      BY <1>1, <3>2, <3>3
  <2>2. ASSUME held[s][t].kind = "stop"
        PROVE  /\ pc'[s] \notin Opening \cup {"starting", "running"}
               /\ \A k \in 1..emitted'[s] : \E m \in 1..len : Holds(s, m, k)'
    <3>1. pc[s] = "dropping" /\ \A k \in 1..emitted[s] : Queued(s, k)
      BY <1>1, <2>2 DEF SessionInv, StopInv, HeldInv
    <3> QED
      BY <1>1, <1>3, <3>1 DEF Queued, Holds, Opening
  <2>3. (len + 1) - 1 = len
    BY <1>3
  <2> QED
    BY <1>3, <1>4, <2>1, <2>2, <2>3 DEF StopLast
<1>9. OneDropper(s)' /\ EndIdle(s)'
  BY <1>1, <1>2 DEF SessionInv, StopInv, OneDropper, EndIdle
<1>10. HeldInv(s)'
  BY <1>1, <1>5 DEF SessionInv, StopInv, HeldInv
<1>11. NoneLost(s)'
  <2>1. ASSUME NEW k \in 1..emitted[s], Carried(s, k) PROVE Carried(s, k)' \/ Queued(s, k)'
    <3>1. PICK u \in Threads :
            \/ tpc[s][u] \in {"over", "mark"}
            \/ /\ tpc[s][u] \in {"output", "reserve", "send"}
               /\ held[s][u].kind = "data" /\ held[s][u].out = k
      BY <2>1 DEF Carried
    <3>2. CASE u = t
      BY <1>1, <1>3, <1>4, <3>1, <3>2 DEF Queued, Holds
    <3>3. CASE u # t
      BY <1>1, <3>1, <3>3 DEF Carried
    <3> QED
      BY <3>2, <3>3
  <2> QED
    BY <1>1, <1>5, <2>1 DEF SessionInv, StopInv, NoneLost
<1> QED
  BY <1>7, <1>8, <1>9, <1>10, <1>11 DEF SessionInv, StopInv

-----------------------------------------------------------------------------
(* The theorem. *)

LEMMA NextComplete == CompleteInv /\ [Next]_vars => CompleteInv'
<1> SUFFICES ASSUME CompleteInv, [Next]_vars PROVE CompleteInv'
  OBVIOUS
<1>1. PrefixInv /\ LockInv /\ SealInv /\ TypeOK /\ \A r \in Sessions : SessionInv(r)
  BY DEF CompleteInv, PrefixInv
<1>2. PrefixInv' /\ LockInv' /\ SealInv'
  BY <1>1, NextPrefix, NextLock, NextSeal
<1>3. FileGrows /\ ChannelsGrow /\ (incomplete => incomplete')
  BY <1>1, StepGrows, MarkerStays
<1>4. ASSUME NEW s \in Sessions, SessionStep(s) PROVE SessionInv(s)'
  <2>1. CASE Open(s)
    BY <1>1, <2>1, OpenSession, StartSession, StartedSession DEF Open
  <2>2. CASE Writer(s)
    BY <1>1, <1>2, <1>3, <2>2, WriterSession
  <2>3. CASE DropSender(s) \/ DropJoin(s) \/ Crash(s)
    BY <1>1, <1>2, <1>3, <2>3, EndSession
  <2>4. ASSUME NEW t \in Threads, Emit(s, t) \/ EmitFails(s, t) \/ Drop(s, t) \/ Capture(s, t)
        PROVE  SessionInv(s)'
    BY <1>1, <1>2, <1>3, <2>4, EmitSession, DropSession, CaptureSession, SendSession,
       MarkerSession DEF Capture
  <2> QED
    BY <1>4, <2>1, <2>2, <2>3, <2>4 DEF SessionStep
<1>5. ASSUME NEW s \in Sessions, SessionStep(s), NEW r \in Sessions PROVE SessionInv(r)'
  <2>1. CASE r = s
    BY <1>4, <1>5, <2>1
  <2>2. CASE r # s
    BY <1>1, <1>2, <1>3, <1>5, <2>2, OthersKept, KeptSession
  <2> QED
    BY <2>1, <2>2
<1>6. ASSUME Finalize \/ UNCHANGED vars, NEW r \in Sessions PROVE SessionInv(r)'
  BY <1>1, <1>2, <1>3, <1>6, FinalizerKeeps, KeptSession
<1>7. \A r \in Sessions : SessionInv(r)'
  BY <1>5, <1>6 DEF Next, SessionStep
<1> QED
  BY <1>2, <1>7 DEF CompleteInv

\* A complete recording holds what a Stop frame is behind, and every session has one.
LEMMA CompleteHolds == CompleteInv => CompleteMeansNothingLost
<1> SUFFICES ASSUME CompleteInv, Complete PROVE CompleteMeansNothingLost
  BY DEF CompleteMeansNothingLost
<1>1. ~incomplete /\ ~VerifyReason
  BY DEF Complete, CompleteInv, SealInv
<1>2. ASSUME NEW s \in Sessions, NEW k \in 1..emitted[s] PROVE Recorded(s, k)
  <2>1. emitted[s] > 0
    BY DEF CompleteInv, PrefixInv, TypeOK, ThreadType
  <2>2. s \in SessionsWith("stop")
    BY <1>1, <2>1 DEF CompleteInv, SessionInv, StartInv, Ran, VerifyReason
  <2>3. PICK i \in 1..committed : events[i][1] = s /\ FrameAt(i).kind = "stop"
    BY <2>2 DEF SessionsWith
  <2> DEFINE n == events[i][2]
  <2>4. i \in 1..Len(events) /\ committed \in Nat
    BY StreamSeq DEF CompleteInv, PrefixInv, TypeOK, DirType
  <2>5. /\ n \in 1..Len(captured[s])
        /\ \A m \in 1..(n - 1) : \E j \in 1..(i - 1) : events[j] = <<s, m>>
    BY <2>3, <2>4 DEF CompleteInv, PrefixInv, ExactPrefix
  <2>6. PICK m \in 1..(n - 1) : Holds(s, m, k)
    BY <2>3, <2>5 DEF CompleteInv, SessionInv, StopInv, StopLast, FrameAt
  <2>7. PICK j \in 1..(i - 1) : events[j] = <<s, m>>
    BY <2>5, <2>6
  <2>8. j \in 1..committed
    BY <2>4
  <2> QED
    BY <2>6, <2>7, <2>8 DEF Recorded, FrameAt, Holds
<1>3. \A p \in Expected : \E s \in SessionsWith("start") : ProducerOf[s] = p
  BY <1>1 DEF VerifyReason
<1> QED
  BY <1>2, <1>3 DEF CompleteMeansNothingLost

\* Failure to record never manufactures a successful complete recording: whatever is
\* lost on the way, by whichever crash, race or failed write, the recording that
\* reads complete holds every chunk any producer emitted.
THEOREM NothingLost == Spec => []CompleteMeansNothingLost
BY InitComplete, NextComplete, CompleteHolds, PTL DEF Spec

\* A producer that runs has its Start committed, or the recording says incomplete.
THEOREM RunningRecorded == Spec => []RunningIsRecorded
<1>1. CompleteInv => RunningIsRecorded
  BY DEF CompleteInv, SessionInv, StartInv, Ran, RunningIsRecorded
<1> QED
  BY <1>1, InitComplete, NextComplete, PTL DEF Spec

-----------------------------------------------------------------------------
(* What is closed stays. *)

\* Who appends has found a whole file, and holds the lock since.
TornInv == \A s \in Sessions : wpc[s] = "append" => ~torn

FlagsKept ==
    /\ finalized' = finalized \/ finalized' = TRUE
    /\ incomplete' = incomplete \/ incomplete' = TRUE
FileKept == UNCHANGED <<events, torn, committed>>

LEMMA FlagsStand == FlagsKept => (finalized => finalized') /\ (incomplete => incomplete')
BY DEF FlagsKept

LEMMA ClosedOpen ==
    ASSUME TypeOK, NEW s \in Sessions, Open(s)
    PROVE  FlagsKept /\ FileKept /\ \A r \in Sessions : wpc'[r] = "append" => wpc[r] = "append"
<1> USE DEF TypeOK, ControlType, FlagsKept, FileKept
<1>1. CASE OpenLock(s) \/ OpenTimeout(s) \/ OpenCreate(s)
  BY <1>1 DEF OpenLock, OpenTimeout, OpenCreate, CreateStep
<1>2. CASE OpenFailed(s) \/ OpenStart(s) \/ OpenStarted(s)
  BY <1>2 DEF OpenFailed, OpenStart, OpenStarted
<1> QED
  BY <1>1, <1>2 DEF Open

LEMMA ClosedCapture ==
    ASSUME NEW s \in Sessions, NEW t \in Threads,
           Emit(s, t) \/ EmitFails(s, t) \/ Drop(s, t) \/ Capture(s, t)
    PROVE  FlagsKept /\ FileKept /\ UNCHANGED wpc
<1> USE DEF FlagsKept, FileKept
<1>1. CASE CaptureMarker(s, t)
  BY <1>1 DEF CaptureMarker
<1>2. CASE ~CaptureMarker(s, t)
  BY <1>2 DEF Emit, EmitFails, Drop, Capture, CaptureCheck, CaptureReserve, CaptureOver,
     CaptureSend, CaptureUnsent, CaptureMark
<1> QED
  BY <1>1, <1>2

LEMMA ClosedWriter ==
    ASSUME TypeOK, LockInv, TornInv, NEW s \in Sessions, Writer(s) \/ Crash(s)
    PROVE  FlagsKept /\ TornInv' /\ (FileKept \/ wpc[s] = "append")
<1> USE DEF TypeOK, ControlType, FlagsKept, FileKept, TornInv
<1>1. CASE WriterGather(s) \/ WriteTimeout(s) \/ WriteMark(s)
  BY <1>1 DEF WriterGather, WriteTimeout, WriteMark
<1>2. CASE WriterDone(s)
  BY <1>2 DEF WriterDone
<1>7. CASE WriteMarker(s) \/ WriterDies(s)
  <2>1. FileKept /\ TornInv' /\ finalized' = finalized
    <3>1. CASE WriteMarker(s)
      BY <3>1 DEF WriteMarker
    <3>2. CASE WriterDies(s)
      BY <3>2 DEF WriterDies
    <3> QED
      BY <1>7, <3>1, <3>2
  <2>2. incomplete' = incomplete \/ incomplete' = TRUE
    BY <1>7, Zenon DEF WriteMarker, WriterDies
  <2> QED
    BY <2>1, <2>2
<1>3. CASE WriteLock(s)
  BY <1>3 DEF WriteLock, Refusal, Mismatch
<1>4. CASE WriteFrame(s) \/ WriteCommit(s) \/ WriteCommitFails(s)
  BY <1>4 DEF WriteFrame, WriteCommit, WriteCommitFails
<1>5. CASE wpc[s] = "append" /\ (WriteFrameFails(s) \/ Crash(s))
  <2>1. FlagsKept /\ wpc'[s] # "append" /\ \A r \in Sessions \ {s} : wpc'[r] = wpc[r]
    BY <1>5 DEF WriteFrameFails, Crash
  <2>2. \A r \in Sessions \ {s} : wpc[r] # "append"
    BY <1>5 DEF LockInv
  <2> QED
    BY <1>5, <2>1, <2>2
<1>6. CASE wpc[s] # "append" /\ Crash(s)
  BY <1>6 DEF Crash
<1> QED
  BY <1>1, <1>2, <1>3, <1>4, <1>5, <1>6, <1>7 DEF Writer, WriteBatch, WriteFrameFails

LEMMA ClosedStep ==
    ASSUME TypeOK, LockInv, TornInv, [Next]_vars
    PROVE  FlagsKept /\ TornInv' /\ (FileKept \/ \E s \in Sessions : wpc[s] = "append")
<1>1. ASSUME NEW s \in Sessions, Open(s) PROVE FlagsKept /\ FileKept /\ TornInv'
  BY <1>1, ClosedOpen DEF TornInv, FileKept
<1>2. ASSUME NEW s \in Sessions, NEW t \in Threads,
             Emit(s, t) \/ EmitFails(s, t) \/ Drop(s, t) \/ Capture(s, t)
      PROVE  FlagsKept /\ FileKept /\ TornInv'
  BY <1>2, ClosedCapture DEF TornInv, FileKept
<1>3. ASSUME NEW s \in Sessions, DropSender(s) \/ DropJoin(s)
      PROVE  FlagsKept /\ FileKept /\ TornInv'
  BY <1>3 DEF DropSender, DropJoin, FlagsKept, FileKept, TornInv
<1>4. CASE FinalizeLock \/ FinalizeCrash \/ UNCHANGED vars
  BY <1>4 DEF FinalizeLock, FinalizeCrash, FlagsKept, FileKept, TornInv
<1>6. CASE FinalizeSeal
  <2>1. FileKept /\ TornInv' /\ incomplete' = incomplete
    BY <1>6 DEF FinalizeSeal, FileKept, TornInv
  <2>2. finalized' = finalized \/ finalized' = TRUE
    BY <1>6, Zenon DEF FinalizeSeal
  <2> QED
    BY <2>1, <2>2 DEF FlagsKept
<1>5. CASE FinalizeVerify
  <2>1. FileKept /\ TornInv' /\ finalized' = finalized
    BY <1>5 DEF FinalizeVerify, FileKept, TornInv
  <2>2. incomplete' = incomplete \/ incomplete' = TRUE
    <3>1. incomplete \in BOOLEAN
      BY DEF TypeOK, DirType
    <3>2. \/ incomplete' = incomplete
          \/ incomplete' = TRUE
          \/ ~incomplete /\ incomplete' \in BOOLEAN
      BY <1>5, Zenon DEF FinalizeVerify
    <3> QED
      BY <3>1, <3>2, Zenon
  <2> QED
    BY <2>1, <2>2 DEF FlagsKept
<1> QED
  BY <1>1, <1>2, <1>3, <1>4, <1>5, <1>6, ClosedWriter DEF Next, Finalize

\* "Every later append is refused", and one that was cut short is neither extended nor
\* committed over: a file that is closed is never written again, by whoever is still alive
\* and whoever comes later, and its verdict only turns to incomplete.
THEOREM ClosedForGood == Spec => ClosedStays
<1>1. Init => TornInv
  BY DEF Init, TornInv
<1>2. CompleteInv /\ TornInv /\ [Next]_vars => TornInv'
  BY ClosedStep DEF CompleteInv, PrefixInv
<1>3. CompleteInv /\ TornInv /\ [Next]_vars => [Interrupted => UNCHANGED <<events, committed>>]_vars
  <2> SUFFICES ASSUME CompleteInv, TornInv, [Next]_vars, Interrupted
               PROVE  UNCHANGED <<events, committed>>
    OBVIOUS
  <2>1. \A s \in Sessions : wpc[s] # "append"
    BY LockAssumption DEF CompleteInv, LockInv, TornInv, Interrupted
  <2> QED
    BY <2>1, ClosedStep DEF CompleteInv, PrefixInv, FileKept
<1>4. CompleteInv /\ TornInv /\ [Next]_vars =>
        [finalized => /\ finalized'
                      /\ UNCHANGED <<events, torn, committed>>
                      /\ Complete' => Complete]_vars
  <2> SUFFICES ASSUME CompleteInv, TornInv, [Next]_vars, finalized
               PROVE  /\ finalized' /\ UNCHANGED <<events, torn, committed>>
                      /\ Complete' => Complete
    OBVIOUS
  <2>1. FileKept /\ FlagsKept
    BY ClosedStep DEF CompleteInv, LockInv, PrefixInv
  <2>2. finalized' /\ (incomplete => incomplete')
    BY <2>1, FlagsStand
  <2>3. Mismatch' = Mismatch
    BY <2>1 DEF FileKept, Mismatch
  <2> QED
    BY <2>1, <2>2, <2>3, Zenon DEF FileKept, Complete
<1> QED
  BY InitComplete, NextComplete, <1>1, <1>2, <1>3, <1>4, PTL
  DEF Spec, ClosedStays, InterruptedStays, FinalizedFrozen

-----------------------------------------------------------------------------
(* The contract. *)

\* A frame of data is one of the chunks emitted so far, in the channel or before it.
OutputInv(s) ==
    /\ emitted[s] <= MaxOutputs
    /\ \A n \in 1..Len(captured[s]) :
          captured[s][n].kind = "data" => captured[s][n].out \in 1..emitted[s]
    /\ \A t \in Threads : held[s][t].kind = "data" => held[s][t].out \in 1..emitted[s]

ContractInv == CompleteInv /\ TornInv /\ \A s \in Sessions : OutputInv(s)

LEMMA InitContract == Init => ContractInv
<1> SUFFICES ASSUME Init PROVE ContractInv
  OBVIOUS
<1>1. ASSUME NEW s \in Sessions PROVE OutputInv(s)
  <2>1. captured[s] = <<>> /\ Len(captured[s]) = 0 /\ emitted[s] = 0
    BY DEF Init
  <2> QED
    BY <2>1, BoundAssumption DEF Init, OutputInv, StartFrame
<1> QED
  BY <1>1, InitComplete DEF ContractInv, TornInv, Init

\* The steps that emit.
Emits(s) == \E t \in Threads : Emit(s, t) \/ EmitFails(s, t)

LEMMA EmitOutput ==
    ASSUME TypeOK, NEW s \in Sessions, OutputInv(s), Emits(s)
    PROVE  /\ OutputInv(s)'
           /\ pc[s] = "running" /\ emitted[s] < MaxOutputs
           /\ emitted' = [emitted EXCEPT ![s] = @ + 1]
           /\ UNCHANGED <<dirVars, captured>>
<1> PICK t \in Threads : Emit(s, t) \/ EmitFails(s, t)
  BY DEF Emits
<1>1. /\ pc[s] = "running" /\ emitted[s] < MaxOutputs
      /\ emitted' = [emitted EXCEPT ![s] = @ + 1]
      /\ UNCHANGED <<dirVars, captured>>
  BY DEF Emit, EmitFails
<1>2. emitted[s] \in Nat /\ emitted'[s] = emitted[s] + 1 /\ captured'[s] = captured[s]
  BY <1>1 DEF TypeOK, ThreadType
<1>3. ASSUME NEW u \in Threads, held'[s][u].kind = "data"
      PROVE  held'[s][u].out \in 1..emitted'[s]
  <2>1. CASE held'[s][u] = held[s][u]
    BY <1>2, <1>3, <2>1 DEF OutputInv
  <2>2. CASE held'[s][u] # held[s][u]
    <3>1. Emit(s, t)
      BY <2>2 DEF EmitFails
    <3>2. PICK z \in Sizes :
              held' = [held EXCEPT ![s][t] = [kind |-> "data", out |-> emitted[s] + 1, size |-> z]]
      BY <3>1 DEF Emit
    <3>3. u = t /\ held'[s][u].out = emitted[s] + 1
      BY <2>2, <3>2 DEF TypeOK, ThreadType
    <3> QED
      BY <1>2, <3>3
  <2> QED
    BY <2>1, <2>2
<1>4. OutputInv(s)'
  BY <1>1, <1>2, <1>3, BoundAssumption DEF OutputInv
<1> QED
  BY <1>1, <1>4

\* A step that emits nothing moves the frames there are.
LEMMA MoveOutput ==
    ASSUME TypeOK, NEW s \in Sessions, OutputInv(s), SessionStep(s), ~Emits(s)
    PROVE  OutputInv(s)' /\ emitted' = emitted
<1> USE DEF TypeOK, ThreadType
<1>0. StartFrame.kind = "start" /\ StopFrame.kind = "stop"
  BY DEF StartFrame, StopFrame
<1>1. CASE OpenStart(s)
  <2>1. UNCHANGED <<emitted, held>> /\ captured' = [captured EXCEPT ![s] = Append(@, StartFrame)]
    BY <1>1 DEF OpenStart
  <2>2. /\ Len(captured'[s]) = Len(captured[s]) + 1
        /\ captured'[s][Len(captured[s]) + 1] = StartFrame
        /\ \A n \in 1..Len(captured[s]) : captured'[s][n] = captured[s][n]
    BY <2>1, ChannelAppend, MarkFrames
  <2>3. Len(captured[s]) \in Nat
    BY ChannelSeq
  <2> QED
    BY <1>0, <2>1, <2>2, <2>3 DEF OutputInv
<1>2. ASSUME NEW t \in Threads, CaptureSend(s, t) PROVE OutputInv(s)' /\ emitted' = emitted
  <2>1. /\ emitted' = emitted /\ captured' = [captured EXCEPT ![s] = Append(@, held[s][t])]
        /\ held' = [held EXCEPT ![s][t] = StartFrame]
    BY <1>2 DEF CaptureSend, CaptureUnsent, Release
  <2>2. held[s][t] \in Frame
    OBVIOUS
  <2>3. /\ Len(captured'[s]) = Len(captured[s]) + 1
        /\ captured'[s][Len(captured[s]) + 1] = held[s][t]
        /\ \A n \in 1..Len(captured[s]) : captured'[s][n] = captured[s][n]
    BY <2>1, <2>2, ChannelAppend
  <2>4. Len(captured[s]) \in Nat
    BY ChannelSeq
  <2>5. \A u \in Threads : held'[s][u] \in {held[s][u], StartFrame}
    BY <2>1
  <2> QED
    BY <1>0, <2>1, <2>3, <2>4, <2>5 DEF OutputInv
<1>3. CASE ~OpenStart(s) /\ \A t \in Threads : ~CaptureSend(s, t)
  <2>1. UNCHANGED <<emitted, captured>> /\ \A u \in Threads : held'[s][u] \in {held[s][u], StartFrame, StopFrame}
    <3>1. CASE Open(s)
      BY <1>3, <3>1 DEF Open, OpenLock, OpenTimeout, OpenCreate, CreateStep, OpenFailed, OpenStarted
    <3>2. CASE Writer(s)
      BY <3>2 DEF Writer, WriteBatch, WriterGather, WriterDone, WriteLock, WriteTimeout,
         WriteFrame, WriteFrameFails, WriteCommit, WriteCommitFails, WriteMark, WriteMarker, WriterDies
    <3>3. CASE DropSender(s) \/ DropJoin(s) \/ Crash(s)
      <4>1. CASE Crash(s)
        <5>1. /\ UNCHANGED <<emitted, captured>>
              /\ held' = [held EXCEPT ![s] = [t \in Threads |-> StartFrame]]
          BY <4>1 DEF Crash
        <5>2. held'[s] = [t \in Threads |-> StartFrame]
          BY <5>1
        <5> QED
          BY <5>1, <5>2
      <4>2. CASE DropSender(s) \/ DropJoin(s)
        BY <4>2 DEF DropSender, DropJoin
      <4> QED
        BY <3>3, <4>1, <4>2
    <3>4. ASSUME NEW t \in Threads, Drop(s, t) \/ (Capture(s, t) /\ ~CaptureSend(s, t))
          PROVE  UNCHANGED <<emitted, captured>> /\ \A u \in Threads : held'[s][u] \in {held[s][u], StartFrame, StopFrame}
      <4>1. /\ UNCHANGED <<emitted, captured>>
            /\ \/ held' = held
               \/ held' = [held EXCEPT ![s][t] = StartFrame]
               \/ held' = [held EXCEPT ![s][t] = StopFrame]
        <5>1. CASE Drop(s, t)
          BY <5>1 DEF Drop
        <5>2. CASE CaptureCheck(s, t)
          BY <5>2 DEF CaptureCheck, Release
        <5>3. CASE CaptureOver(s, t) \/ CaptureUnsent(s, t)
          BY <5>3 DEF CaptureOver, CaptureUnsent, Release
        <5>4. CASE CaptureReserve(s, t) \/ CaptureMark(s, t) \/ CaptureMarker(s, t)
          BY <5>4 DEF CaptureReserve, CaptureMark, CaptureMarker
        <5> QED
          BY <3>4, <5>1, <5>2, <5>3, <5>4 DEF Capture
      <4>2. ASSUME NEW f, held' = [held EXCEPT ![s][t] = f], NEW u \in Threads
            PROVE  held'[s][u] \in {held[s][u], f}
        BY <4>2
      <4> QED
        BY <4>1, <4>2
    <3> QED
      BY <1>3, <3>1, <3>2, <3>3, <3>4 DEF SessionStep, Emits
  <2> QED
    BY <1>0, <2>1 DEF OutputInv
<1> QED
  BY <1>1, <1>2, <1>3

\* What else moves no output at all.
LEMMA NextOutput ==
    ASSUME TypeOK, \A s \in Sessions : OutputInv(s), [Next]_vars
    PROVE  /\ \A s \in Sessions : OutputInv(s)'
           /\ emitted' = emitted \/ \E s \in Sessions : Emits(s)
<1>1. ASSUME NEW r \in Sessions, UNCHANGED Local(r) PROVE OutputInv(r)'
  BY <1>1 DEF Local, OutputInv
<1>2. ASSUME NEW s \in Sessions, SessionStep(s)
      PROVE  /\ \A r \in Sessions : OutputInv(r)'
             /\ emitted' = emitted \/ Emits(s)
  <2>1. OutputInv(s)' /\ (emitted' = emitted \/ Emits(s))
    BY <1>2, EmitOutput, MoveOutput
  <2> QED
    BY <1>1, <1>2, <2>1, OthersKept
<1>3. CASE Finalize \/ UNCHANGED vars
  <2>1. emitted' = emitted
    BY <1>3 DEF Finalize, FinalizeLock, FinalizeVerify, FinalizeSeal, FinalizeCrash
  <2> QED
    BY <1>1, <1>3, <2>1, FinalizerKeeps
<1> QED
  BY <1>2, <1>3 DEF Next, SessionStep

\* What the contract says of a state: only what was emitted is kept, and all of it behind a
\* recording that reads complete.
Truthful == Kept \subseteq Outputs /\ (Complete => Kept = Outputs)

LEMMA KeptEmitted == ContractInv => Kept \subseteq Outputs
<1> SUFFICES ASSUME ContractInv, NEW i \in 1..committed, FrameAt(i).kind = "data"
             PROVE  <<events[i][1], FrameAt(i).out>> \in Outputs
  BY DEF Kept
<1>1. TypeOK /\ ExactPrefix
  BY DEF ContractInv, CompleteInv, PrefixInv
<1>2. i \in 1..Len(events) /\ events[i] \in Sessions \X (Nat \ {0})
  BY <1>1, StreamSeq, ElementOfSeq DEF TypeOK, DirType
<1>3. events[i][1] \in Sessions /\ events[i][2] \in 1..Len(captured[events[i][1]])
  BY <1>1, <1>2 DEF ExactPrefix
<1>4. FrameAt(i).out \in 1..emitted[events[i][1]] /\ emitted[events[i][1]] <= MaxOutputs
  BY <1>3 DEF ContractInv, OutputInv, FrameAt
<1>5. emitted[events[i][1]] \in Nat
  BY <1>1, <1>3 DEF TypeOK, ThreadType
<1> QED
  BY <1>3, <1>4, <1>5, BoundAssumption DEF Outputs

\* What is kept stays, and only a commit keeps more.
LEMMA KeptGrows ==
    ASSUME ContractInv, CompleteInv', [Next]_vars
    PROVE  Kept \subseteq Kept' /\ (committed' = committed => Kept' = Kept)
<1>1. PrefixInv /\ PrefixInv' /\ FileGrows /\ ChannelsGrow
  BY StepGrows DEF ContractInv, CompleteInv, PrefixInv
<1>2. /\ committed \in Nat /\ committed' \in Nat /\ committed <= committed'
      /\ committed <= Len(events) /\ Len(events) \in Nat
  BY <1>1, StreamSeq DEF PrefixInv, TypeOK, DirType, FileGrows
<1>3. ASSUME NEW i \in 1..committed
      PROVE  i \in 1..committed' /\ events'[i] = events[i] /\ FrameAt(i)' = FrameAt(i)
  BY <1>1, <1>2, FrameKept
<1> QED
  BY <1>2, <1>3 DEF Kept

LEMMA ContractTruthful == ContractInv => Truthful
<1> SUFFICES ASSUME ContractInv, Complete, NEW c \in Outputs PROVE c \in Kept
  BY KeptEmitted DEF Truthful
<1>1. c \in Sessions \X (1..MaxOutputs) /\ c[2] <= emitted[c[1]]
  BY DEF Outputs
<1>2. c[1] \in Sessions /\ c[2] \in 1..emitted[c[1]] /\ c = <<c[1], c[2]>>
  <2>1. emitted[c[1]] \in Nat
    BY <1>1 DEF ContractInv, CompleteInv, PrefixInv, TypeOK, ThreadType
  <2> QED
    BY <1>1, <2>1, BoundAssumption
<1>3. Recorded(c[1], c[2])
  BY <1>2, CompleteHolds DEF ContractInv, CompleteMeansNothingLost
<1> QED
  BY <1>2, <1>3 DEF Recorded, Kept

\* Behind a recording that reads complete nobody runs any more: its Stop is there.
LEMMA CompleteIsOver ==
    ASSUME CompleteInv, Complete, NEW s \in Sessions
    PROVE  pc[s] # "running"
<1> SUFFICES ASSUME pc[s] = "running" PROVE FALSE
  OBVIOUS
<1>1. ~incomplete /\ ~VerifyReason
  BY DEF Complete, CompleteInv, SealInv
<1>2. s \in SessionsWith("stop")
  BY <1>1 DEF CompleteInv, SessionInv, StartInv, Ran, VerifyReason
<1>3. PICK i \in 1..committed : events[i][1] = s /\ FrameAt(i).kind = "stop"
  BY <1>2 DEF SessionsWith
<1>4. i \in 1..Len(events)
  BY StreamSeq DEF CompleteInv, PrefixInv, TypeOK, DirType
<1>5. events[i][2] \in 1..Len(captured[s])
  BY <1>3, <1>4 DEF CompleteInv, PrefixInv, ExactPrefix
<1> QED
  BY <1>3, <1>5 DEF CompleteInv, SessionInv, StopInv, StopLast, FrameAt

LEMMA ContractEmit ==
    ASSUME ContractInv, NEW s \in Sessions, Emits(s), Kept' = Kept
    PROVE  Contract!Emit
<1> DEFINE c == <<s, emitted[s] + 1>>
<1>1. /\ pc[s] = "running" /\ emitted[s] < MaxOutputs
      /\ emitted' = [emitted EXCEPT ![s] = @ + 1]
      /\ UNCHANGED <<dirVars, captured>>
  BY EmitOutput DEF ContractInv, CompleteInv, PrefixInv
<1>2. emitted \in [Sessions -> Nat]
  BY DEF ContractInv, CompleteInv, PrefixInv, TypeOK, ThreadType
<1>3. c \notin Outputs /\ c \in Contract!Chunks
  BY <1>2 DEF Outputs, Contract!Chunks
<1>4. Outputs' = Outputs \cup {c}
  <2>1. ASSUME NEW r \in Sessions, NEW k \in 1..MaxOutputs
        PROVE  k <= emitted'[r] <=> k <= emitted[r] \/ (r = s /\ k = emitted[s] + 1)
    BY <1>1, <1>2, BoundAssumption
  <2>2. c \in Sessions \X (1..MaxOutputs)
    BY <1>1, <1>2, BoundAssumption
  <2> QED
    BY <2>1, <2>2 DEF Outputs
<1>5. Verdict' = Verdict /\ Verdict # "complete"
  BY <1>1, CompleteIsOver DEF Verdict, Complete, Mismatch, ContractInv
<1> QED
  BY <1>3, <1>4, <1>5 DEF Contract!Emit

\* Every step that emits nothing commits, seals, withdraws a verdict or is not seen.
LEMMA ContractQuiet ==
    ASSUME ContractInv, CompleteInv', Truthful', [Next]_vars, Outputs' = Outputs
    PROVE  [Contract!Next]_(Contract!vars)
<1>1. Kept \subseteq Kept' /\ (committed' = committed => Kept' = Kept) /\ Kept' \subseteq Outputs
  BY KeptGrows DEF Truthful
<1>2. CASE ~finalized /\ ~finalized'
  <2>1. Verdict = "open" /\ Verdict' = "open"
    BY <1>2 DEF Verdict
  <2>2. Contract!Keep
    BY <1>1, <2>1 DEF Contract!Keep
  <2> QED
    BY <2>2 DEF Contract!Next
<1>3. CASE ~finalized /\ finalized'
  <2>1. ~(Finalize /\ fpc = "verify")
    BY <1>3 DEF Finalize, FinalizeLock, FinalizeVerify, FinalizeSeal, FinalizeCrash
  <2>2. fpc = "seal"
    BY <1>3, <2>1, SealSteps DEF ContractInv, CompleteInv, PrefixInv
  <2>3. Kept' = Kept
    BY <1>1, <2>2, SealedStream DEF ContractInv, CompleteInv
  <2>4. Verdict = "open" /\ (Verdict' = "incomplete" \/ (Verdict' = "complete" /\ Complete'))
    BY <1>3 DEF Verdict
  <2>5. Complete' => Kept' = Outputs'
    BY DEF Truthful
  <2>6. Contract!Seal
    BY <2>3, <2>4, <2>5 DEF Contract!Seal
  <2> QED
    BY <2>6 DEF Contract!Next
<1>4. CASE finalized
  <2>1. FileKept /\ FlagsKept
    <3>1. \A s \in Sessions : wpc[s] # "append"
      BY <1>4 DEF ContractInv, CompleteInv, LockInv
    <3> QED
      BY <3>1, ClosedStep DEF ContractInv, CompleteInv, PrefixInv
  <2>2. finalized' /\ (Complete' => Complete)
    BY <1>4, <2>1, FlagsStand DEF FileKept, Complete, Mismatch
  <2>3. Kept' = Kept
    BY <1>1, <2>1 DEF FileKept
  <2>4. Verdict' = Verdict \/ (Verdict = "complete" /\ Verdict' = "incomplete")
    BY <1>4, <2>2 DEF Verdict
  <2> QED
    BY <2>3, <2>4 DEF Contract!Next, Contract!Withdraw, Contract!vars
<1> QED
  BY <1>2, <1>3, <1>4

LEMMA NextContract == ContractInv /\ [Next]_vars => ContractInv'
BY NextComplete, ClosedStep, NextOutput DEF ContractInv, CompleteInv, PrefixInv

\* The protocol implements the contract: each of its steps emits, keeps what was emitted,
\* seals with a verdict that is true, withdraws one, or is not to be seen from outside.
THEOREM ContractKept == Spec => KeepsContract
<1>1. Init => Contract!Init
  <2> SUFFICES ASSUME Init PROVE Contract!Init
    OBVIOUS
  <2>1. Outputs = {}
    BY BoundAssumption DEF Init, Outputs
  <2>2. Kept = {}
    BY DEF Init, Kept
  <2> QED
    BY <2>1, <2>2 DEF Init, Verdict, Contract!Init
<1>2. ContractInv /\ ContractInv' /\ Truthful' /\ [Next]_vars => [Contract!Next]_(Contract!vars)
  <2> SUFFICES ASSUME ContractInv, CompleteInv', Truthful', [Next]_vars
               PROVE  [Contract!Next]_(Contract!vars)
    BY DEF ContractInv
  <2>1. CASE emitted' = emitted
    <3>1. Outputs' = Outputs
      BY <2>1 DEF Outputs
    <3> QED
      BY <3>1, ContractQuiet
  <2>2. ASSUME NEW s \in Sessions, Emits(s) PROVE Contract!Next
    <3>1. committed' = committed
      BY <2>2, EmitOutput DEF ContractInv, CompleteInv, PrefixInv
    <3>2. Kept' = Kept
      BY <3>1, KeptGrows DEF ContractInv
    <3> QED
      BY <2>2, <3>2, ContractEmit DEF Contract!Next
  <2> QED
    BY <2>1, <2>2, NextOutput DEF ContractInv, CompleteInv, PrefixInv
<1> QED
  BY InitContract, NextContract, ContractTruthful, <1>1, <1>2, PTL DEF Spec, KeepsContract, Contract!Spec
=============================================================================
