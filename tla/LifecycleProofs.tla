-------------------------- MODULE LifecycleProofs --------------------------
(***************************************************************************)
(* What a simulation has recorded stays within reach, for any number of    *)
(* overlapping teardowns, failures and creates, as long as creates and     *)
(* teardowns of one name keep apart.                                       *)
(*                                                                         *)
(* Why: past its docker stop a teardown works on a container that stays    *)
(* stopped, since nobody creates one meanwhile (Stopped); so the recording *)
(* does not grow behind its copy (Copied), and when archive.json is there  *)
(* everything in the payload is in an archive (Archived).                  *)
(***************************************************************************)
EXTENDS Lifecycle, TLAPS

AfterStop == {"defs", "plugin", "recording", "finalize", "unreadable", "manifest", "remove", "delete"}

\* Creates and teardowns are never under way together.
Apart == Tearing => ~Creating

\* A container that runs writes to the payload.
Mounted == up => mounted

Stopped == \A t \in Teardowns : tpc[t] \in AfterStop => ~up
Copied == \A t \in Teardowns : tpc[t] \in {"finalize", "manifest"} => rec \subseteq copy[t]
Archived == \A t \in Teardowns : tpc[t] \in {"remove", "delete"} => rec \subseteq archived

RetryInv == TypeOK /\ Apart /\ Mounted /\ Stopped /\ Copied /\ Archived /\ Retrievable

-----------------------------------------------------------------------------
\* The types hold initially and are kept by every step.
LEMMA TypeInit == Init => TypeOK
<1> SUFFICES ASSUME Init PROVE TypeOK
    OBVIOUS
<1>1. gens \in 0..MaxGens /\ ctr \in {0, gens} /\ fails \in 0..MaxFails
      BY BoundAssumption DEF Init
<1>5. /\ up \in BOOLEAN /\ mounted \in BOOLEAN /\ old \in BOOLEAN
      /\ dir \in BOOLEAN /\ pinned \in BOOLEAN /\ faults \in BOOLEAN /\ listed \in BOOLEAN
      /\ broken \in BOOLEAN /\ overtaken \in BOOLEAN
      /\ ctr = 0 => ~up /\ ~old /\ ~mounted
      BY Zenon DEF Init
<1>2. /\ tpc \in [Teardowns -> TearStates]
      /\ cpc \in [Creators -> {"idle", "prepare", "lint", "run"}]
      /\ ppc \in {"idle", "found"}
      BY DEF Init, TearStates
<1>3. /\ rec \subseteq made /\ made \subseteq Chunks /\ archived \subseteq made
      /\ copy \in [Teardowns -> SUBSET made]
      BY DEF Init
<1>4. QED BY <1>1, <1>2, <1>3, <1>5 DEF TypeOK

LEMMA TypeStep == TypeOK /\ [Next]_vars => TypeOK'
<1> SUFFICES ASSUME TypeOK, [Next]_vars PROVE TypeOK'
    OBVIOUS
<1> USE BoundAssumption DEF TypeOK, TearStates, ctrVars, dirVars, sweepVars
<1>1. ASSUME NEW c \in Creators, CreateCheck(c) PROVE TypeOK'
      BY <1>1 DEF CreateCheck
<1>2. ASSUME NEW c \in Creators, CreatePrepare(c) PROVE TypeOK'
      BY <1>2 DEF CreatePrepare
<1>3. ASSUME NEW c \in Creators, CreateLint(c) PROVE TypeOK'
      BY <1>3 DEF CreateLint
<1>4. ASSUME NEW c \in Creators, CreateRun(c) PROVE TypeOK'
  <2>1. /\ cpc' \in [Creators -> {"idle", "prepare", "lint", "run"}]
        /\ UNCHANGED <<rec, broken, pinned, faults, made, archived, listed, tpc, copy, ppc, fails>>
        /\ overtaken' \in BOOLEAN
        BY <1>4 DEF CreateRun
  <2>2. CASE UNCHANGED <<ctrVars, dir>>
        BY <2>1, <2>2
  <2>3. CASE /\ gens < MaxGens /\ ctr' = gens + 1 /\ gens' = gens + 1
             /\ up' \in IF dir THEN BOOLEAN ELSE {FALSE}
             /\ dir' = TRUE /\ mounted' = TRUE /\ old' = FALSE
    <3>1. gens' \in 0..MaxGens /\ ctr' = gens' /\ ctr' # 0
          BY <2>3
    <3>2. up' \in BOOLEAN /\ mounted' \in BOOLEAN /\ old' \in BOOLEAN /\ dir' \in BOOLEAN
          BY <2>3, Zenon
    <3>3. QED BY <2>1, <3>1, <3>2
  <2>4. QED BY <1>4, <2>2, <2>3, Zenon DEF CreateRun
<1>5. ASSUME Produce PROVE TypeOK'
  <2>1. PICK k \in 1..MaxChunks :
           made' = made \cup {<<ctr, k>>} /\ rec' \in {rec, rec \cup {<<ctr, k>>}}
        BY <1>5 DEF Produce
  <2>2. ctr \in 1..MaxGens
        BY <1>5 DEF Produce
  <2>3. made' \subseteq Chunks /\ rec' \subseteq made' /\ made \subseteq made'
        BY <2>1, <2>2 DEF Chunks
  <2>4. copy' \in [Teardowns -> SUBSET made']
        BY <1>5, <2>3 DEF Produce
  <2>5. QED BY <1>5, <2>3, <2>4 DEF Produce
<1>6. ASSUME Expire \/ HalfMade \/ Trigger \/ PinFind \/ PinWrite \/ SweepList PROVE TypeOK'
  <2>1. CASE Expire BY <2>1 DEF Expire
  <2>2. CASE Trigger BY <2>2 DEF Trigger
  <2>3. CASE PinFind BY <2>3 DEF PinFind
  <2>4. CASE PinWrite BY <2>4 DEF PinWrite
  <2>5. CASE SweepList BY <2>5 DEF SweepList
  <2>6. CASE HalfMade BY <2>6 DEF HalfMade
  <2>7. QED BY <1>6, <2>1, <2>2, <2>3, <2>4, <2>5, <2>6
<1>7. ASSUME NEW t \in Teardowns, Begin(t) PROVE TypeOK'
      BY <1>7 DEF Begin
<1>8. ASSUME NEW t \in Teardowns, Fail(t) PROVE TypeOK'
      BY <1>8 DEF Fail
<1>9. ASSUME NEW t \in Teardowns, Refused(t) PROVE TypeOK'
      BY <1>9 DEF Refused
<1>10. ASSUME NEW t \in Teardowns, Stop(t) PROVE TypeOK'
      BY <1>9, <1>10 DEF Stop
<1>11. ASSUME NEW t \in Teardowns, CopyDefs(t) \/ CopyPlugin(t) \/ FinalizeCopy(t) PROVE TypeOK'
      BY <1>9, <1>11 DEF CopyDefs, CopyPlugin, FinalizeCopy, Step
<1>12. ASSUME NEW t \in Teardowns, CopyRecording(t) PROVE TypeOK'
      BY <1>12 DEF CopyRecording
<1>13. ASSUME NEW t \in Teardowns, WriteManifest(t) PROVE TypeOK'
      BY <1>13 DEF WriteManifest
<1>14. ASSUME NEW t \in Teardowns, Remove(t) PROVE TypeOK'
      BY <1>9, <1>14 DEF Remove
<1>15. ASSUME NEW t \in Teardowns, Delete(t) PROVE TypeOK'
      BY <1>15 DEF Delete
<1>16. ASSUME NEW t \in Teardowns, DeletePart(t) PROVE TypeOK'
  <2>1. pinned' \in BOOLEAN /\ faults' \in BOOLEAN /\ broken' \in BOOLEAN
        BY <1>16, Zenon DEF DeletePart
  <2>2. rec' \subseteq made' /\ UNCHANGED <<ctrVars, dir, made, archived, sweepVars, cpc, ppc>>
        BY <1>16 DEF DeletePart
  <2>3. /\ tpc' \in [Teardowns -> TearStates] /\ copy' \in [Teardowns -> SUBSET made']
        /\ fails' \in 0..MaxFails
        BY <1>16 DEF DeletePart
  <2>4. QED BY <2>1, <2>2, <2>3
<1>17. ASSUME UNCHANGED vars PROVE TypeOK'
      BY <1>17 DEF vars
<1>18. QED
      BY <1>1, <1>2, <1>3, <1>4, <1>5, <1>6, <1>7, <1>8, <1>10, <1>11, <1>12, <1>13,
         <1>14, <1>15, <1>16, <1>17
      DEF Next, Create, Work

\* The bounds of the model are the only reason why it is finite: every variable keeps
\* its type (Lifecycle, TypeOK).
THEOREM LifecycleTypes == Spec => []TypeOK
  BY TypeInit, TypeStep, PTL DEF Spec

-----------------------------------------------------------------------------
LEMMA RetryInit == Init => RetryInv
  BY TypeInit DEF Init, RetryInv, Apart, Tearing, Mounted, Stopped, Copied, Archived,
     AfterStop, Retrievable

\* A step of one teardown that leaves container and payload alone, and goes back to
\* "idle" or on to a state whose claims already hold.
LEMMA TearStep ==
    ASSUME RetryInv, TypeOK', NEW t \in Teardowns,
           tpc[t] # "idle",
           NEW to, tpc' = [tpc EXCEPT ![t] = to],
           UNCHANGED <<ctr, made, archived, cpc>>,
           up' => up /\ mounted',
           rec' = rec,
           \A s \in Teardowns \ {t} : copy'[s] = copy[s],
           to \in AfterStop => ~up',
           to \in {"finalize", "manifest"} => rec \subseteq copy'[t],
           to \in {"remove", "delete"} => rec \subseteq archived
    PROVE  RetryInv'
<1> USE DEF RetryInv
<1>1. /\ \A s \in Teardowns \ {t} : tpc'[s] = tpc[s]
      /\ tpc'[t] = to
      BY DEF TypeOK
<1>2. Apart'
      BY <1>1 DEF Apart, Tearing, Creating
<1>3. Mounted' /\ Stopped'
      BY <1>1 DEF Mounted, Stopped
<1>4. Copied' /\ Archived'
      BY <1>1 DEF Copied, Archived
<1>5. Retrievable'
      BY DEF Retrievable
<1>6. QED BY <1>2, <1>3, <1>4, <1>5

LEMMA RetryStep == CreateApart /\ RetryInv /\ [Next]_vars => RetryInv'
<1> SUFFICES ASSUME CreateApart, RetryInv, [Next]_vars PROVE RetryInv'
    OBVIOUS
<1>t. TypeOK /\ TypeOK'
      BY TypeStep DEF RetryInv
<1> USE <1>t DEF RetryInv
<1>same. ASSUME UNCHANGED <<ctr, up, mounted, rec, made, archived, tpc, copy, cpc>>
         PROVE  RetryInv'
         BY <1>same DEF Apart, Tearing, Creating, Mounted, Stopped, Copied, Archived, Retrievable
<1>1. ASSUME NEW c \in Creators, CreateCheck(c) PROVE RetryInv'
  <2>1. Apart'
        BY <1>1 DEF CreateCheck, Apart, Tearing
  <2>2. UNCHANGED <<ctr, up, mounted, rec, made, archived, tpc, copy>>
        BY <1>1 DEF CreateCheck, ctrVars, dirVars
  <2>3. QED BY <2>1, <2>2 DEF Mounted, Stopped, Copied, Archived, Retrievable
<1>2. ASSUME NEW c \in Creators, CreatePrepare(c) \/ CreateLint(c) PROVE RetryInv'
  <2>1. cpc[c] # "idle"
        BY <1>2 DEF CreatePrepare, CreateLint
  <2>2. UNCHANGED <<ctr, up, mounted, rec, made, archived, tpc, copy>>
        BY <1>2 DEF CreatePrepare, CreateLint, ctrVars, dirVars
  <2>3. ~Tearing'
        BY <2>1, <2>2 DEF Apart, Creating, Tearing
  <2>4. QED BY <2>2, <2>3 DEF Apart, Mounted, Stopped, Copied, Archived, Retrievable
<1>3. ASSUME NEW c \in Creators, CreateRun(c) PROVE RetryInv'
  <2>1. UNCHANGED <<rec, made, archived, tpc, copy>>
        BY <1>3 DEF CreateRun
  <2>2. ~Tearing'
        BY <1>3, <2>1 DEF CreateRun, Apart, Creating, Tearing
  <2>3. \A t \in Teardowns : tpc'[t] = "idle"
        BY <2>2 DEF Tearing
  <2>4. Apart' /\ Stopped' /\ Copied' /\ Archived'
        BY <2>2, <2>3 DEF Apart, Stopped, Copied, Archived, AfterStop
  <2>5. Mounted'
        BY <1>3 DEF CreateRun, Mounted, ctrVars
  <2>6. Retrievable'
    <3>1. CASE ctr' = ctr
          BY <2>1, <3>1 DEF Retrievable
    <3>2. CASE ctr = 0
      <4>1. \A chunk \in made : chunk[1] # 0
            BY DEF TypeOK, Chunks
      <4>2. QED BY <2>1, <3>2, <4>1 DEF Retrievable
    <3>3. QED BY <1>3, <3>1, <3>2 DEF CreateRun, ctrVars
  <2>7. QED BY <2>4, <2>5, <2>6
<1>4. ASSUME Produce PROVE RetryInv'
  <2>1. PICK k \in 1..MaxChunks :
           made' = made \cup {<<ctr, k>>} /\ rec' = rec \cup {<<ctr, k>>}
        BY <1>4 DEF Produce, Mounted
  <2>2. up /\ UNCHANGED <<ctr, up, mounted, archived, tpc, copy, cpc>>
        BY <1>4 DEF Produce, ctrVars
  <2>3. \A t \in Teardowns : tpc'[t] \notin AfterStop
        BY <2>2 DEF Stopped
  <2>4. Stopped' /\ Copied' /\ Archived'
        BY <2>3 DEF Stopped, Copied, Archived, AfterStop
  <2>5. Apart' /\ Mounted'
        BY <2>2 DEF Apart, Tearing, Creating, Mounted
  <2>6. Retrievable'
        BY <2>1, <2>2 DEF Retrievable
  <2>7. QED BY <2>4, <2>5, <2>6
<1>5. ASSUME Expire \/ HalfMade \/ Trigger \/ PinFind \/ PinWrite \/ SweepList PROVE RetryInv'
  <2>1. CASE Expire BY <1>same, <2>1 DEF Expire, dirVars
  <2>2. CASE Trigger BY <1>same, <2>2 DEF Trigger, ctrVars
  <2>3. CASE PinFind BY <1>same, <2>3 DEF PinFind, ctrVars, dirVars
  <2>4. CASE PinWrite BY <1>same, <2>4 DEF PinWrite, ctrVars
  <2>5. CASE SweepList BY <1>same, <2>5 DEF SweepList, ctrVars, dirVars
  <2>6. CASE HalfMade BY <1>same, <2>6 DEF HalfMade, ctrVars
  <2>7. QED BY <1>5, <2>1, <2>2, <2>3, <2>4, <2>5, <2>6
<1>6. ASSUME NEW t \in Teardowns, Begin(t) PROVE RetryInv'
  <2>1. UNCHANGED <<ctr, up, mounted, rec, made, archived, copy, cpc>>
        BY <1>6 DEF Begin, ctrVars, dirVars
  <2>2. \A s \in Teardowns : tpc'[s] = tpc[s] \/ tpc'[s] = "stop"
        BY <1>6 DEF Begin, TypeOK
  <2>3. Apart'
        BY <1>6, <2>1 DEF Begin, Apart, Creating
  <2>4. Stopped' /\ Copied' /\ Archived'
        BY <2>1, <2>2 DEF Stopped, Copied, Archived, AfterStop
  <2>5. Mounted' /\ Retrievable'
        BY <2>1 DEF Mounted, Retrievable
  <2>6. QED BY <2>3, <2>4, <2>5
<1>7. ASSUME NEW t \in Teardowns, tpc[t] # "idle", Refused(t) PROVE RetryInv'
      BY <1>7, TearStep DEF Refused, ctrVars, dirVars, AfterStop, TypeOK, Mounted
<1>8. ASSUME NEW t \in Teardowns, Fail(t) PROVE RetryInv'
      BY <1>8, TearStep DEF Fail, ctrVars, dirVars, AfterStop, TypeOK, Mounted
<1>9. ASSUME NEW t \in Teardowns, Stop(t) PROVE RetryInv'
      BY <1>7, <1>9, TearStep DEF Stop, dirVars, AfterStop
<1>10. ASSUME NEW t \in Teardowns, CopyDefs(t) \/ CopyPlugin(t) PROVE RetryInv'
  <2>1. tpc[t] \in {"defs", "plugin"} /\ ~up
        BY <1>10 DEF CopyDefs, CopyPlugin, Step, Stopped, AfterStop
  <2>2. CASE Refused(t)
        BY <1>7, <2>1, <2>2
  <2>3. CASE ~Refused(t)
    <3>1. UNCHANGED <<ctrVars, dirVars, made, archived, sweepVars, copy, cpc, ppc, fails>>
          BY <1>10, <2>3 DEF CopyDefs, CopyPlugin, Step
    <3>2. PICK to \in {"plugin", "recording"} : tpc' = [tpc EXCEPT ![t] = to]
          BY <1>10, <2>3 DEF CopyDefs, CopyPlugin, Step
    <3>3. QED BY <2>1, <3>1, <3>2, TearStep DEF ctrVars, dirVars
  <2>4. QED BY <2>2, <2>3
<1>11. ASSUME NEW t \in Teardowns, CopyRecording(t) PROVE RetryInv'
  <2>1. ~up /\ copy'[t] = rec
        BY <1>11 DEF CopyRecording, Stopped, AfterStop, TypeOK
  <2>2. \A s \in Teardowns \ {t} : copy'[s] = copy[s]
        BY <1>11 DEF CopyRecording, TypeOK
  <2>3. QED BY <1>11, <2>1, <2>2, TearStep DEF CopyRecording, ctrVars, dirVars
<1>12. ASSUME NEW t \in Teardowns, FinalizeCopy(t) PROVE RetryInv'
  <2>1. CASE tpc[t] = "unreadable" /\ Refused(t)
        BY <1>7, <2>1
  <2>2. CASE Step(t, "finalize", "manifest", TRUE)
    <3>1. ~up /\ rec \subseteq copy[t]
          BY <2>2 DEF Step, Stopped, Copied, AfterStop
    <3>2. QED BY <2>2, <3>1, TearStep DEF Step, ctrVars, dirVars
  <2>3. QED BY <1>12, <2>1, <2>2 DEF FinalizeCopy
<1>13. ASSUME NEW t \in Teardowns, WriteManifest(t) PROVE RetryInv'
  <2>1. UNCHANGED <<ctr, up, mounted, rec, made, copy, cpc>>
        BY <1>13 DEF WriteManifest, ctrVars, dirVars
  <2>2. archived' = archived \cup copy[t] /\ rec \subseteq archived'
        BY <1>13 DEF WriteManifest, Copied
  <2>3. ~up
        BY <1>13 DEF WriteManifest, Stopped, AfterStop
  <2>4. \A s \in Teardowns : s # t => tpc'[s] = tpc[s]
        BY <1>13 DEF WriteManifest, TypeOK
  <2>5. tpc[t] = "manifest" /\ tpc'[t] = "remove"
        BY <1>13 DEF WriteManifest, TypeOK
  <2>6. Stopped' /\ Copied' /\ Archived'
        BY <2>1, <2>2, <2>3, <2>4, <2>5 DEF Stopped, Copied, Archived
  <2>7. Apart' /\ Mounted' /\ Retrievable'
        BY <2>1, <2>2, <2>3, <2>5 DEF Apart, Tearing, Creating, Mounted, Retrievable
  <2>8. QED BY <2>6, <2>7
<1>14. ASSUME NEW t \in Teardowns, Remove(t) PROVE RetryInv'
  <2>1. tpc[t] = "remove" /\ rec \subseteq archived
        BY <1>14 DEF Remove, Archived
  <2>2. CASE Refused(t)
        BY <1>7, <2>1, <2>2
  <2>3. CASE /\ up' = FALSE /\ tpc' = [tpc EXCEPT ![t] = "delete"]
             /\ UNCHANGED <<rec, made, archived, copy, cpc>>
    <3>1. \A s \in Teardowns : s # t => tpc'[s] = tpc[s]
          BY <2>3 DEF TypeOK
    <3>2. tpc'[t] = "delete"
          BY <2>3 DEF TypeOK
    <3>3. Stopped' /\ Copied' /\ Archived'
          BY <2>1, <2>3, <3>1, <3>2 DEF Stopped, Copied, Archived
    <3>4. Apart' /\ Mounted'
          BY <2>1, <2>3 DEF Apart, Tearing, Creating, Mounted
    <3>5. Retrievable'
          BY <2>1, <2>3 DEF Retrievable
    <3>6. QED BY <3>3, <3>4, <3>5
  <2>4. QED BY <1>14, <2>2, <2>3 DEF Remove, dirVars
<1>15. ASSUME NEW t \in Teardowns, Delete(t) \/ DeletePart(t) PROVE RetryInv'
  <2>1. tpc[t] = "delete" /\ rec \subseteq archived /\ rec' \subseteq rec /\ ~up
        BY <1>15 DEF Delete, DeletePart, Archived, Stopped, AfterStop
  <2>2. UNCHANGED <<ctr, up, made, archived, cpc>> /\ tpc' = [tpc EXCEPT ![t] = "idle"]
        BY <1>15 DEF Delete, DeletePart, ctrVars
  <2>3. \A s \in Teardowns : s # t => tpc'[s] = tpc[s] /\ copy'[s] = copy[s]
        BY <1>15 DEF Delete, DeletePart, TypeOK
  <2>4. tpc'[t] = "idle"
        BY <2>2 DEF TypeOK
  <2>5. Stopped' /\ Copied' /\ Archived'
        BY <2>1, <2>2, <2>3, <2>4 DEF Stopped, Copied, Archived, AfterStop
  <2>6. Apart' /\ Mounted' /\ Retrievable'
        BY <2>1, <2>2 DEF Apart, Tearing, Creating, Mounted, Retrievable
  <2>7. QED BY <2>5, <2>6
<1>16. ASSUME UNCHANGED vars PROVE RetryInv'
       BY <1>same, <1>16 DEF vars, ctrVars, dirVars
<1>17. QED
       BY <1>1, <1>2, <1>3, <1>4, <1>5, <1>6, <1>8, <1>9, <1>10, <1>11, <1>12, <1>13,
          <1>14, <1>15, <1>16
       DEF Next, Create, Work

\* What a simulation has recorded is never out of reach: it stays in an archive or
\* in the payload of its own container, however many teardowns overlap, fail and are
\* tried again, provided no create overlaps them (Lifecycle, Retrievable).
THEOREM RecordingWithinReach == CreateApart => (Spec => []Retrievable)
<1> SUFFICES ASSUME CreateApart PROVE Spec => []Retrievable
    OBVIOUS
<1>1. RetryInv /\ [Next]_vars => RetryInv'
      BY RetryStep
<1>2. RetryInv => Retrievable
      BY DEF RetryInv
<1>3. QED BY RetryInit, <1>1, <1>2, PTL DEF Spec

-----------------------------------------------------------------------------
\* From its inventory on, a sweep has to do with a simulation that is past its TTL and that nobody
\* has pinned, or it has been overtaken.
Due == ~pinned /\ (ctr # 0 => old)
SweepInv == TypeOK /\ (Sweeping => Due \/ overtaken)

LEMMA SweepInit == Init => SweepInv
BY TypeInit DEF Init, SweepInv, Due

\* Steps that begin no round of the sweep, create nothing, pin nothing and make nothing younger.
LEMMA SweepQuiet ==
    ASSUME SweepInv, TypeOK', Sweeping' => Sweeping, overtaken' = overtaken,
           pinned' \in {pinned, FALSE}, ctr' \in {ctr, 0}, ctr' = ctr => (old => old')
    PROVE  SweepInv'
BY DEF SweepInv, Due, TypeOK

LEMMA SweepStep == ASSUME SweepInv, [Next]_vars PROVE SweepInv'
<1>1. TypeOK /\ TypeOK'
  BY TypeStep DEF SweepInv
<1> USE DEF ctrVars, dirVars, sweepVars
<1>2. ASSUME NEW c \in Creators, CreateCheck(c) \/ CreatePrepare(c) \/ CreateLint(c) PROVE SweepInv'
  <2>1. UNCHANGED <<ctr, old, pinned, tpc, listed, overtaken>>
    <3>1. CASE CreateCheck(c)
      BY <3>1 DEF CreateCheck
    <3>2. CASE CreatePrepare(c)
      BY <3>2 DEF CreatePrepare
    <3>3. CASE CreateLint(c)
      BY <3>3 DEF CreateLint
    <3> QED
      BY <1>2, <3>1, <3>2, <3>3
  <2> QED
    BY <1>1, <2>1, SweepQuiet DEF Sweeping
<1>3. ASSUME NEW c \in Creators, CreateRun(c) PROVE SweepInv'
  <2>1. /\ Sweeping' = Sweeping /\ pinned' = pinned
        /\ overtaken' = (overtaken \/ (Sweeping /\ ctr' # ctr))
    BY <1>3 DEF CreateRun, Sweeping
  <2>2. CASE UNCHANGED <<ctrVars, dir>>
    BY <1>1, <2>1, <2>2 DEF SweepInv, Due
  <2>3. CASE ctr = 0 /\ ctr' = gens + 1
    <3>1. ctr' # ctr
      BY <1>1, <2>3 DEF TypeOK
    <3> QED
      BY <1>1, <2>1, <3>1 DEF SweepInv
  <2> QED
    BY <1>3, <2>2, <2>3 DEF CreateRun
<1>4. CASE HalfMade \/ Produce \/ Expire \/ Trigger \/ PinFind
  BY <1>1, <1>4, SweepQuiet DEF HalfMade, Produce, Expire, Trigger, PinFind, Sweeping, TypeOK
<1>5. CASE PinWrite
  <2>1. /\ Sweeping' = Sweeping /\ ctr' = ctr /\ old' = old /\ pinned' \in BOOLEAN
        /\ overtaken' = (overtaken \/ (Sweeping /\ pinned'))
    BY <1>1, <1>5 DEF PinWrite, Sweeping, TypeOK
  <2> QED
    BY <1>1, <2>1 DEF SweepInv, Due
<1>6. CASE SweepList
  BY <1>1, <1>6 DEF SweepList, Expired, SweepInv, Due
<1>7. ASSUME NEW t \in Teardowns, Begin(t) PROVE SweepInv'
  <2>1. (listed' => listed) /\ UNCHANGED <<ctrVars, dirVars, overtaken>>
    BY <1>7 DEF Begin
  <2>2. tpc'[Sweeper] # "idle" => tpc[Sweeper] # "idle" \/ listed
    BY <1>1, <1>7, SweeperAssumption DEF Begin, TypeOK
  <2> QED
    BY <1>1, <2>1, <2>2, SweepQuiet DEF Sweeping
<1>8. ASSUME NEW t \in Teardowns, tpc[t] # "idle", NEW pc \in TearStates,
             tpc' = [tpc EXCEPT ![t] = pc], UNCHANGED sweepVars,
             pinned' \in {pinned, FALSE}, ctr' \in {ctr, 0}, ctr' = ctr => (ctr = 0 \/ old' = old)
      PROVE  SweepInv'
  <2>1. Sweeping' => Sweeping
    BY <1>1, <1>8, SweeperAssumption DEF TypeOK, Sweeping
  <2>2. ctr' = ctr => (old => old')
    BY <1>1, <1>8 DEF TypeOK
  <2> QED
    BY <1>1, <1>8, <2>1, <2>2, SweepQuiet
<1>9. ASSUME NEW t \in Teardowns, Work(t) \/ Fail(t) \/ DeletePart(t) PROVE SweepInv'
  <2> USE DEF TearStates
  <2>1. CASE Stop(t)
    BY <1>8, <2>1 DEF Stop, Refused
  <2>2. CASE CopyDefs(t) \/ CopyPlugin(t) \/ FinalizeCopy(t)
    BY <1>8, <2>2 DEF CopyDefs, CopyPlugin, FinalizeCopy, Step, Refused
  <2>3. CASE CopyRecording(t) \/ WriteManifest(t)
    BY <1>8, <2>3 DEF CopyRecording, WriteManifest
  <2>4. CASE Remove(t)
    BY <1>8, <2>4 DEF Remove, Refused
  <2>5. CASE Delete(t) \/ DeletePart(t) \/ Fail(t)
    BY <1>8, <2>5 DEF Delete, DeletePart, Fail
  <2> QED
    BY <1>9, <2>1, <2>2, <2>3, <2>4, <2>5 DEF Work
<1>10. CASE UNCHANGED vars
  BY <1>1, <1>10, SweepQuiet DEF vars, Sweeping
<1> QED
  BY <1>2, <1>3, <1>4, <1>5, <1>6, <1>7, <1>9, <1>10 DEF Next, Create

\* "Pin a fleet to keep it past the TTL" (docs/operating.md:133): whoever else creates, pins and
\* tears down, and however often teardowns fail, the sweep takes away only what is past its TTL
\* and unpinned, or what was pinned or created after it had looked.
THEOREM PinHolds == Spec => PinnedKept
<1>1. SweepInv /\ [Next]_vars => SweepInv'
  BY SweepStep
<1>2. SweepInv /\ [Next]_vars =>
        [tpc[Sweeper] = "remove" /\ tpc'[Sweeper] = "delete" /\ ctr # 0 =>
            (old /\ ~pinned) \/ overtaken]_vars
  BY DEF SweepInv, Due, Sweeping
<1> QED
  BY SweepInit, <1>1, <1>2, PTL DEF Spec, PinnedKept
=============================================================================
