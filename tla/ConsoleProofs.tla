---------------------------- MODULE ConsoleProofs ----------------------------
(***************************************************************************)
(* The two halves of the console's create: its place in the line           *)
(* (CreateQueue), and the file that it writes (Fleet, on Reading).         *)
(*                                                                         *)
(* The line.  Creates are serialized, and alone never exceed the host's    *)
(* budget, for any number of requests, budget and pattern of callers that  *)
(* hang up.  A blocking task that has not given its permit back is the one *)
(* the permit belongs to (TaskHoldsSlot), so two tasks are the same; a     *)
(* handler that still waits has no task (NoTaskYet), so refusing it or     *)
(* losing it takes the permit from nobody.  The budget is checked under    *)
(* the permit, and no other create can use the room up (RoomKept).         *)
(*                                                                         *)
(* The files.  For any role table, catalogue, texts, replies and sizes,    *)
(* each file is the rendering of groups that follow from what it was asked *)
(* (WellMade, FleetTypes), so what holds of its nodes holds of the steps   *)
(* from rows to nodes.  Each step is a recursive function on a sequence,   *)
(* for which RunExists gives the values that it takes on its way, and      *)
(* Inductively what holds along it: merging adds up and leaves a group     *)
(* that stands for each row (MergedKeeps), naming tells groups apart and   *)
(* changes nothing else (QualifiedKeeps), scaling meets the size and keeps *)
(* the tiers (ScaleIs), rendering gives as many nodes as the counts        *)
(* (NodesCounted).  Rows that are extended take the same way as before, as *)
(* far as they are the same (MergedBegins, QualifiedBegins).               *)
(***************************************************************************)
EXTENDS CreateQueue, Fleet, SequenceTheorems, FiniteSetTheorems, WellFoundedInduction, TLAPS

-----------------------------------------------------------------------------
(* The line of creates. *)

\* The part of QueueTypes that the argument needs; the tickets are not part of it.
LineType ==
    /\ live \in Nat
    /\ slot \in Creates \cup {NoOne}
    /\ queue \in Seq(Creates)
    /\ hpc \in [Creates -> HandlerStates]
    /\ wpc \in [Creates -> TaskStates]

TaskHoldsSlot == \A h \in Creates : wpc[h] \in {"build", "built", "leaving"} => slot = h
NoTaskYet ==
    \A h \in Creates :
        hpc[h] \in {"new", "checked", "joined", "announced", "waiting"} => wpc[h] = "none"
RoomKept == \A h \in Creates : wpc[h] = "build" => live < MaxLive

SlotInv == LineType /\ TaskHoldsSlot /\ NoTaskYet
BudgetInv == SlotInv /\ RoomKept /\ WithinBudget

-----------------------------------------------------------------------------
\* The permit and the line stay what they are when the permit goes back.
LEMMA ReleaseType ==
    ASSUME LineType, Release
    PROVE  slot' \in Creates \cup {NoOne} /\ queue' \in Seq(Creates)
  BY DEF LineType, Release

\* The line is still one of creates when somebody leaves it.
LEMMA LineGap ==
    ASSUME queue \in Seq(Creates), NEW i \in 1..Len(queue)
    PROVE  SubSeq(queue, 1, i - 1) \o SubSeq(queue, i + 1, Len(queue)) \in Seq(Creates)
<1>1. SubSeq(queue, 1, i - 1) \in Seq(Creates)
  BY SubSeqProperties
<1>2. SubSeq(queue, i + 1, Len(queue)) \in Seq(Creates)
  BY SubSeqProperties
<1>3. QED BY <1>1, <1>2, ConcatProperties

\* No request has the permit, or a task, at the start.
LEMMA SlotInit == QueueInit => SlotInv
  BY BoundAssumption DEF QueueInit, SlotInv, LineType, TaskHoldsSlot, NoTaskYet, HandlerStates, TaskStates

\* Every step keeps the permit with the task that runs.
LEMMA SlotStep == SlotInv /\ [QueueNext]_queueVars => SlotInv'
<1> SUFFICES ASSUME SlotInv, [QueueNext]_queueVars PROVE SlotInv'
    OBVIOUS
<1> USE FreeAssumption DEF SlotInv, LineType, TaskHoldsSlot, NoTaskYet, HandlerStates, TaskStates
<1>1. ASSUME NEW h \in Creates, Check(h) PROVE SlotInv'
      BY <1>1 DEF Check
<1>2. ASSUME NEW h \in Creates, Join(h) PROVE SlotInv'
      BY <1>2 DEF Join
<1>3. ASSUME NEW h \in Creates, Announce(h) PROVE SlotInv'
      BY <1>3 DEF Announce
<1>4. ASSUME NEW h \in Creates, Acquire(h) PROVE SlotInv'
  <2>1. CASE slot = NoOne
        BY <1>4, <2>1 DEF Acquire
  <2>2. CASE slot # NoOne
    <3>1. queue' = Append(queue, h) /\ slot' = slot
          BY <1>4, <2>2 DEF Acquire
    <3>2. queue' \in Seq(Creates)
          BY <3>1
    <3>3. QED BY <1>4, <3>1, <3>2 DEF Acquire
  <2>3. QED BY <2>1, <2>2
<1>5. ASSUME NEW h \in Creates, Refuse(h) PROVE SlotInv'
  <2>1. wpc[h] = "none" /\ \A g \in Creates : wpc[g] \notin {"build", "built", "leaving"}
        BY <1>5 DEF Refuse
  <2>2. LineType'
        BY <1>5, ReleaseType DEF Refuse
  <2>3. TaskHoldsSlot' /\ NoTaskYet'
        BY <1>5, <2>1 DEF Refuse
  <2>4. QED BY <2>2, <2>3
<1>6. ASSUME NEW h \in Creates, Start(h) PROVE SlotInv'
      BY <1>6 DEF Start
<1>7. ASSUME NEW h \in Creates, BuildOne(h) PROVE SlotInv'
      BY <1>7 DEF BuildOne
<1>8. ASSUME NEW h \in Creates, DropTicket(h) PROVE SlotInv'
      BY <1>8 DEF DropTicket
<1>9. ASSUME NEW h \in Creates, DropSlot(h) PROVE SlotInv'
  <2>1. \A g \in Creates : wpc'[g] \notin {"build", "built", "leaving"}
        BY <1>9 DEF DropSlot
  <2>2. LineType'
        BY <1>9, ReleaseType DEF DropSlot
  <2>3. NoTaskYet'
        BY <1>9 DEF DropSlot
  <2>4. QED BY <2>1, <2>2, <2>3
<1>10. ASSUME NEW h \in Creates, Finish(h) PROVE SlotInv'
      BY <1>10 DEF Finish
<1>11. ASSUME NEW h \in Creates, Leave(h) PROVE SlotInv'
  <2>1. NoTaskYet'
        BY <1>11 DEF Leave
  <2>2. CASE slot = h
    <3>1. \A g \in Creates : wpc[g] \notin {"build", "built", "leaving"}
          BY <1>11, <2>2 DEF Leave
    <3>2. LineType'
          BY <1>11, <2>2, ReleaseType DEF Leave
    <3>3. TaskHoldsSlot'
          BY <1>11, <3>1 DEF Leave
    <3>4. QED BY <2>1, <3>2, <3>3
  <2>3. CASE slot # h
    <3>1. PICK i \in 1..Len(queue) :
             queue' = SubSeq(queue, 1, i - 1) \o SubSeq(queue, i + 1, Len(queue))
          BY <1>11, <2>3 DEF Leave
    <3>2. queue' \in Seq(Creates)
          BY <3>1, LineGap
    <3>3. QED BY <1>11, <2>1, <2>3, <3>2 DEF Leave
  <2>4. QED BY <2>2, <2>3
<1>12. ASSUME NEW h \in Creates, AbandonBuild(h) PROVE SlotInv'
      BY <1>12 DEF AbandonBuild
<1>13. ASSUME Teardown PROVE SlotInv'
      BY <1>13 DEF Teardown
<1>14. ASSUME UNCHANGED queueVars PROVE SlotInv'
      BY <1>14 DEF queueVars
<1>15. QED
      BY <1>1, <1>2, <1>3, <1>4, <1>5, <1>6, <1>7, <1>8, <1>9, <1>10, <1>11, <1>12, <1>13, <1>14
      DEF QueueNext, Handler, Task, HangUp

\* The room a create was promised under the permit is still there when it builds.
LEMMA BudgetStep == BudgetInv /\ [QueueNext]_queueVars => RoomKept' /\ WithinBudget'
<1> SUFFICES ASSUME BudgetInv, [QueueNext]_queueVars PROVE RoomKept' /\ WithinBudget'
    OBVIOUS
<1> USE BoundAssumption, FreeAssumption
    DEF BudgetInv, SlotInv, LineType, TaskHoldsSlot, RoomKept, WithinBudget, TaskStates
<1>1. ASSUME NEW h \in Creates, Start(h) PROVE RoomKept' /\ WithinBudget'
      BY <1>1 DEF Start, HasRoom
<1>2. ASSUME NEW h \in Creates, BuildOne(h) PROVE RoomKept' /\ WithinBudget'
  <2>1. \A g \in Creates : wpc'[g] # "build"
        BY <1>2 DEF BuildOne
  <2>2. live < MaxLive /\ live' \in {live, live + 1}
        BY <1>2 DEF BuildOne
  <2>3. QED BY <2>1, <2>2
<1>3. ASSUME Teardown PROVE RoomKept' /\ WithinBudget'
      BY <1>3 DEF Teardown
<1>4. ASSUME UNCHANGED <<live, wpc>> PROVE RoomKept' /\ WithinBudget'
      BY <1>4
<1>5. ASSUME NEW h \in Creates, DropTicket(h) \/ DropSlot(h) PROVE RoomKept' /\ WithinBudget'
      BY <1>5 DEF DropTicket, DropSlot
<1>6. QED
      BY <1>1, <1>2, <1>3, <1>4, <1>5
      DEF QueueNext, Handler, Task, HangUp, queueVars, Check, Join, Announce, Acquire, Refuse,
          Finish, Leave, AbandonBuild

-----------------------------------------------------------------------------
\* "Creates are serialized": two builds never run at once (main.rs, create: the
\* blocking task owns the permit).
THEOREM OneBuildAtATime == QueueSpec => []Serialized
<1>1. SlotInv => Serialized
      BY DEF SlotInv, TaskHoldsSlot, Serialized, Building
<1>2. QED BY SlotInit, SlotStep, <1>1, PTL DEF QueueSpec

\* Creates alone never take the host over max_live_simulations (main.rs, create: the
\* second check, under the permit).
THEOREM BudgetKept == QueueSpec => []WithinBudget
<1>1. QueueInit => BudgetInv
      BY SlotInit, BoundAssumption DEF QueueInit, BudgetInv, RoomKept, WithinBudget
<1>2. BudgetInv /\ [QueueNext]_queueVars => BudgetInv'
      BY SlotStep, BudgetStep DEF BudgetInv
<1>3. BudgetInv => WithinBudget
      BY DEF BudgetInv
<1>4. QED BY <1>1, <1>2, <1>3, PTL DEF QueueSpec

-----------------------------------------------------------------------------
(* Numbers, and runs along a sequence. *)

\* A set of natural numbers has a least.
LEMMA NatLeast ==
    ASSUME NEW T, T \subseteq Nat, T # {}
    PROVE  \E x \in T : \A y \in T : x <= y
<1>1. \E x \in T : \A y \in T : ~(<<y, x>> \in OpToRel(<, Nat))
  BY NatLessThanWellFounded, WFMin
<1>2. PICK x \in T : \A y \in T : ~(<<y, x>> \in OpToRel(<, Nat))
  BY <1>1
<1>3. \A y \in T : ~(y < x)
  BY <1>2 DEF OpToRel
<1> QED
  BY <1>3

\* What holds at zero and goes from each place to the next holds up to n.
LEMMA Inductively ==
    ASSUME NEW n \in Nat, NEW S, 0 \in S, \A i \in 0..n : i \in S /\ i # n => i + 1 \in S
    PROVE  0..n \subseteq S
<1> DEFINE T == {i \in 0..n : i \notin S}
<1> SUFFICES ASSUME T # {} PROVE FALSE
  OBVIOUS
<1>0. T \subseteq Nat
  OBVIOUS
<1>1. PICK x \in T : \A y \in T : x <= y
  <2> HIDE DEF T
  <2> QED
    BY <1>0, NatLeast
<1>2. x # 0 /\ x \in 0..n
  OBVIOUS
<1>3. x - 1 \in 0..n /\ x - 1 \notin T
  BY <1>1, <1>2
<1> QED
  BY <1>2, <1>3

\* Values that stay in a set from each place to the next are all in it.
LEMMA StaysIn ==
    ASSUME NEW n \in Nat, NEW g, NEW T, g[0] \in T, \A i \in 1..n : g[i - 1] \in T => g[i] \in T
    PROVE  \A i \in 0..n : g[i] \in T
<1> DEFINE S == {i \in 0..n : g[i] \in T}
<1>1. 0 \in S
  OBVIOUS
<1>2. ASSUME NEW i \in 0..n, i \in S, i # n PROVE i + 1 \in S
  <2>1. i + 1 \in 1..n /\ (i + 1) - 1 = i
    BY <1>2
  <2>2. g[i + 1] \in T
    BY <2>1, <1>2
  <2> QED
    BY <2>1, <2>2
<1> HIDE DEF S
<1>3. 0..n \subseteq S
  BY <1>1, <1>2, Inductively
<1> QED
  BY <1>3 DEF S

\* A run of n steps from b in the set A.
Run(f, A, n, b, step) ==
    f \in [0..n -> A] /\ f[0] = b /\ \A i \in 1..n : f[i] = step[i][f[i - 1]]

\* A run exists, and stays in its set.
LEMMA RunExists ==
    ASSUME NEW A, NEW n \in Nat, NEW b \in A, NEW step \in [1..n -> [A -> A]]
    PROVE  \E f : Run(f, A, n, b, step)
<1> DEFINE Upto(k) == {f \in [0..k -> A] : f[0] = b /\ \A i \in 1..k : f[i] = step[i][f[i - 1]]}
           S == {k \in 0..n : Upto(k) # {}}
<1>1. 0 \in S
  <2>1. [i \in 0..0 |-> b] \in Upto(0)
    OBVIOUS
  <2> QED
    BY <2>1
<1>2. ASSUME NEW k \in 0..n, k \in S, k # n PROVE k + 1 \in S
  <2>0. Upto(k) # {}
    BY <1>2
  <2>1. k + 1 \in 1..n /\ k \in Nat /\ k + 1 \in 0..n
    BY <1>2
  <2>2. PICK f \in Upto(k) : TRUE
    BY <2>0
  <2> DEFINE g == [i \in 0..k + 1 |-> IF i = k + 1 THEN step[k + 1][f[k]] ELSE f[i]]
  <2>3. step[k + 1] \in [A -> A]
    BY <2>1
  <2>4. \A i \in 0..k : f[i] \in A
    BY <2>2
  <2>5. step[k + 1][f[k]] \in A
    BY <2>1, <2>3, <2>4
  <2>6. g \in [0..k + 1 -> A]
    BY <2>1, <2>4, <2>5
  <2>7. g[0] = b
    BY <2>1, <2>2
  <2>8. ASSUME NEW i \in 1..k + 1 PROVE g[i] = step[i][g[i - 1]]
    <3>1. CASE i = k + 1
      <4>1. k \in 0..k + 1 /\ k + 1 \in 0..k + 1 /\ k # k + 1 /\ (k + 1) - 1 = k
        BY <2>1
      <4>2. g[k + 1] = step[k + 1][f[k]] /\ g[k] = f[k]
        BY <4>1
      <4> QED
        BY <3>1, <4>1, <4>2
    <3>2. CASE i # k + 1
      <4>1. i \in 1..k /\ i - 1 \in 0..k /\ i \in 0..k + 1 /\ i - 1 \in 0..k + 1 /\ i - 1 # k + 1
        BY <3>2, <2>1
      <4>2. f[i] = step[i][f[i - 1]]
        BY <4>1, <2>2
      <4> QED
        BY <3>2, <4>1, <4>2
    <3> QED
      BY <3>1, <3>2
  <2>9. g \in Upto(k + 1)
    BY <2>6, <2>7, <2>8
  <2> QED
    BY <2>1, <2>9
<1>3. n \in S
  <2> HIDE DEF S
  <2>1. 0..n \subseteq S
    BY <1>1, <1>2, Inductively
  <2> QED
    BY <2>1
<1>4. Upto(n) # {}
  BY <1>3
<1> QED
  BY <1>4 DEF Run

-----------------------------------------------------------------------------
(* What groups are made of. *)

\* Labels that a file may hold.
Maps == {m \in UNION {[S -> STRING] : S \in SUBSET STRING} : ValidLabels(m)}

\* The groups that a file is rendered from.
Groups ==
    [count : Nat \ {0}, role : RoleNames, services : Seq(STRING), slug : Seq(Parts),
     labels : Maps, site : Nat]

\* Labels that are strings and may be written are in Maps.
LEMMA MapsAre ==
    ASSUME NEW m, DOMAIN m \subseteq STRING, m \in [DOMAIN m -> STRING], ValidLabels(m)
    PROVE  m \in Maps
  BY DEF Maps

\* Labels in Maps are strings and may be written.
LEMMA MapsHave ==
    ASSUME NEW m \in Maps
    PROVE  DOMAIN m \subseteq STRING /\ m \in [DOMAIN m -> STRING] /\ ValidLabels(m)
  BY DEF Maps

\* The upper layer wins; the lower one fills in.
LEMMA LayeredIs ==
    ASSUME NEW upper, NEW lower
    PROVE  /\ DOMAIN Layered(upper, lower) = DOMAIN upper \cup DOMAIN lower
           /\ \A k \in DOMAIN upper : Layered(upper, lower)[k] = upper[k]
           /\ \A k \in DOMAIN lower : k \notin DOMAIN upper => Layered(upper, lower)[k] = lower[k]
  BY DEF Layered

\* Labels over labels are labels.
LEMMA LayeredMaps ==
    ASSUME NEW upper \in Maps, NEW lower \in Maps
    PROVE  Layered(upper, lower) \in Maps
<1> DEFINE m == Layered(upper, lower)
<1>1. DOMAIN m = DOMAIN upper \cup DOMAIN lower /\ m = [k \in DOMAIN m |-> m[k]]
  BY DEF Layered
<1>2. \A k \in DOMAIN m : \/ k \in DOMAIN upper /\ m[k] = upper[k]
                          \/ k \in DOMAIN lower /\ m[k] = lower[k]
  <2>1. /\ \A k \in DOMAIN upper : m[k] = upper[k]
        /\ \A k \in DOMAIN lower : k \notin DOMAIN upper => m[k] = lower[k]
    BY LayeredIs
  <2> HIDE DEF m
  <2> QED
    BY <1>1, <2>1
<1>3. \A k \in DOMAIN m : k \in STRING /\ m[k] \in STRING /\ ValidPair(k, m[k])
  BY <1>2, MapsHave DEF ValidLabels
<1> HIDE DEF m
<1>4. m \in [DOMAIN m -> STRING] /\ DOMAIN m \subseteq STRING /\ ValidLabels(m)
  BY <1>1, <1>3 DEF ValidLabels
<1>5. m \in Maps
  BY <1>4, MapsAre
<1> QED
  BY <1>5 DEF m

\* No labels are labels.
LEMMA NoLabelsMaps == NoLabels \in Maps /\ DOMAIN NoLabels = {}
<1>1. DOMAIN NoLabels = {} /\ NoLabels = [k \in DOMAIN NoLabels |-> NoLabels[k]]
  BY DEF NoLabels
<1>2. NoLabels \in [DOMAIN NoLabels -> STRING] /\ ValidLabels(NoLabels)
  BY <1>1 DEF ValidLabels
<1> QED
  BY <1>1, <1>2, MapsAre

\* The first of some places is one of them.
LEMMA FirstIs ==
    ASSUME NEW places, places \subseteq Nat, places # {}
    PROVE  First(places) \in places /\ \A j \in places : First(places) <= j
<1>1. \E i \in places : \A j \in places : i <= j
  BY NatLeast
<1> QED
  BY <1>1 DEF First

\* A role of the table has services and a slug.
LEMMA RoleIs ==
    ASSUME NEW role \in RoleNames
    PROVE  /\ RoleOf(role).role = role /\ RoleOf(role).services \in Seq(STRING)
           /\ RoleOf(role).slug \in Seq(Parts) /\ RoleOf(role).slug # <<>>
           /\ RoleOf(role) \in ToSet(Roles)
<1> DEFINE places == {i \in DOMAIN Roles : Roles[i].role = role}
<1>1. DOMAIN Roles \subseteq Nat
  BY RolesAssumption
<1>2. places # {} /\ places \subseteq Nat
  BY <1>1 DEF RoleNames
<1>3. First(places) \in places
  <2> HIDE DEF places
  <2> QED
    BY <1>2, FirstIs
<1>4. First(places) \in DOMAIN Roles /\ RoleOf(role) = Roles[First(places)]
  BY <1>3 DEF RoleOf
<1>5. Roles[First(places)].role = role
  BY <1>3
<1> HIDE DEF places
<1> QED
  BY <1>4, <1>5, RolesAssumption DEF ToSet

-----------------------------------------------------------------------------
(* What of a sequence is in a set. *)

\* A sequence with one more value.
LEMMA AppendValues ==
    ASSUME NEW T, NEW s \in Seq(T), NEW x
    PROVE  {Append(s, x)[j] : j \in 1..Len(Append(s, x))} = {s[j] : j \in 1..Len(s)} \cup {x}
<1>1. Len(Append(s, x)) = Len(s) + 1 /\ Len(s) \in Nat
  OBVIOUS
<1>2. \A j \in 1..Len(s) : Append(s, x)[j] = s[j]
  OBVIOUS
<1>3. Append(s, x)[Len(s) + 1] = x
  OBVIOUS
<1>4. 1..Len(s) + 1 = (1..Len(s)) \cup {Len(s) + 1}
  BY <1>1
<1> DEFINE a == Append(s, x)
<1> HIDE DEF a
<1>5. {a[j] : j \in 1..Len(s) + 1} = {a[j] : j \in 1..Len(s)} \cup {a[Len(s) + 1]}
  BY <1>1, <1>4
<1>6. {a[j] : j \in 1..Len(s)} = {s[j] : j \in 1..Len(s)}
  BY <1>2 DEF a
<1> QED
  BY <1>1, <1>3, <1>5, <1>6 DEF a

OnlyUpto(u, T, s, S) ==
    /\ u \in [0..Len(s) -> Seq(T)] /\ u[0] = <<>> /\ Only(s, S) = u[Len(s)]
    /\ \A i \in 1..Len(s) : u[i] = IF s[i] \in S THEN Append(u[i - 1], s[i]) ELSE u[i - 1]

\* The prefixes of Only are sequences that grow by what is in the set.
LEMMA OnlyRun ==
    ASSUME NEW T, NEW s \in Seq(T), NEW S
    PROVE  \E u : OnlyUpto(u, T, s, S)
<1> DEFINE n == Len(s)
           R(f) == [i \in 0..n |-> IF i = 0 THEN <<>> ELSE IF s[i] \in S THEN Append(f[i - 1], s[i]) ELSE f[i - 1]]
           step == [i \in 1..n |-> [a \in Seq(T) |-> IF s[i] \in S THEN Append(a, s[i]) ELSE a]]
           u == CHOOSE f : f = R(f)
<1>0. n \in Nat /\ \A i \in 1..n : s[i] \in T
  OBVIOUS
<1>1. step \in [1..n -> [Seq(T) -> Seq(T)]]
  <2>1. \A i \in 1..n, a \in Seq(T) : Append(a, s[i]) \in Seq(T)
    BY <1>0
  <2> HIDE DEF n
  <2> QED
    BY <2>1
<1>2. PICK f \in [0..n -> Seq(T)] : f[0] = <<>> /\ \A i \in 1..n : f[i] = step[i][f[i - 1]]
  <2> DEFINE A == Seq(T)
  <2>1. <<>> \in A /\ step \in [1..n -> [A -> A]]
    BY <1>1
  <2> HIDE DEF n, step, A
  <2>2. \E f : Run(f, A, n, <<>>, step)
    BY <1>0, <2>1, RunExists
  <2> QED
    BY <2>2 DEF A, Run
<1>3. f = R(f)
  <2>1. ASSUME NEW i \in 0..n PROVE f[i] = R(f)[i]
    <3>1. CASE i = 0
      BY <1>2, <3>1
    <3>2. CASE i # 0
      <4>1. i \in 1..n /\ i - 1 \in 0..n
        BY <1>0, <3>2
      <4>2. f[i - 1] \in Seq(T) /\ f[i] = step[i][f[i - 1]]
        BY <1>2, <4>1
      <4> QED
        BY <3>2, <4>1, <4>2
    <3> QED
      BY <3>1, <3>2
  <2> HIDE DEF n, step
  <2> QED
    BY <1>2, <2>1
<1>4. u = R(u)
  BY <1>3
<1>5. Only(s, S) = u[n]
  BY DEF Only
<1> HIDE DEF u
<1>6. u[0] = <<>> /\ \A i \in 1..n : u[i] = IF s[i] \in S THEN Append(u[i - 1], s[i]) ELSE u[i - 1]
  <2>1. 0 \in 0..n /\ \A i \in 1..n : i \in 0..n /\ i # 0
    BY <1>0
  <2> HIDE DEF n
  <2> QED
    BY <1>4, <2>1
<1>7. \A i \in 0..n : u[i] \in Seq(T)
  <2> DEFINE A == Seq(T)
  <2>1. u[0] \in A /\ \A i \in 1..n : u[i - 1] \in A => u[i] \in A
    <3>1. \A a \in A, i \in 1..n : Append(a, s[i]) \in A
      BY <1>0
    <3>2. <<>> \in A
      OBVIOUS
    <3> HIDE DEF n, A
    <3> QED
      BY <1>6, <3>1, <3>2
  <2> HIDE DEF A, n
  <2>2. \A i \in 0..n : u[i] \in A
    BY <1>0, <2>1, StaysIn
  <2> QED
    BY <2>2 DEF A
<1>8. u \in [0..n -> Seq(T)]
  <2> HIDE DEF n
  <2> QED
    BY <1>4, <1>7
<1> QED
  BY <1>5, <1>6, <1>8 DEF OnlyUpto

\* It is in its type, and holds what is in both.
LEMMA OnlyIs ==
    ASSUME NEW T, NEW s \in Seq(T), NEW S
    PROVE  /\ Only(s, S) \in Seq(T) /\ ToSet(Only(s, S)) = ToSet(s) \cap S
           /\ \A i \in 1..Len(Only(s, S)) : Only(s, S)[i] \in S /\ Only(s, S)[i] \in ToSet(s)
<1>0. Len(s) \in Nat /\ \A i \in 1..Len(s) : s[i] \in T
  OBVIOUS
<1>a. PICK u : OnlyUpto(u, T, s, S)
  BY OnlyRun
<1>1. /\ u \in [0..Len(s) -> Seq(T)] /\ u[0] = <<>> /\ Only(s, S) = u[Len(s)]
      /\ \A i \in 1..Len(s) : u[i] = IF s[i] \in S THEN Append(u[i - 1], s[i]) ELSE u[i - 1]
  BY <1>a DEF OnlyUpto
<1> DEFINE P == {i \in 0..Len(s) : {u[i][j] : j \in 1..Len(u[i])} = {s[j] : j \in 1..i} \cap S}
<1>2. 0 \in P
  BY <1>0, <1>1
<1>3. ASSUME NEW i \in 0..Len(s), i \in P, i # Len(s) PROVE i + 1 \in P
  <2>1. i + 1 \in 1..Len(s) /\ i + 1 \in 0..Len(s) /\ (i + 1) - 1 = i
    BY <1>0, <1>3
  <2>2. u[i] \in Seq(T) /\ s[i + 1] \in T
    BY <1>0, <1>1, <2>1
  <2>3. {s[j] : j \in 1..i + 1} = {s[j] : j \in 1..i} \cup {s[i + 1]}
    BY <2>1
  <2>4. u[i + 1] = IF s[i + 1] \in S THEN Append(u[i], s[i + 1]) ELSE u[i]
    BY <1>1, <2>1
  <2>5. {u[i][j] : j \in 1..Len(u[i])} = {s[j] : j \in 1..i} \cap S
    BY <1>3
  <2>6. CASE s[i + 1] \in S
    <3>1. {Append(u[i], s[i + 1])[j] : j \in 1..Len(Append(u[i], s[i + 1]))}
            = {u[i][j] : j \in 1..Len(u[i])} \cup {s[i + 1]}
      BY <2>2, AppendValues
    <3>2. {u[i + 1][j] : j \in 1..Len(u[i + 1])} = {s[j] : j \in 1..i + 1} \cap S
      BY <2>3, <2>4, <2>5, <2>6, <3>1
    <3> QED
      BY <2>1, <3>2
  <2>7. CASE s[i + 1] \notin S
    BY <2>1, <2>3, <2>4, <2>5, <2>7
  <2> QED
    BY <2>6, <2>7
<1>4. Len(s) \in P
  <2> HIDE DEF P
  <2>1. 0..Len(s) \subseteq P
    BY <1>0, <1>2, <1>3, Inductively
  <2> QED
    BY <1>0, <2>1
<1>5. Only(s, S) \in Seq(T)
  BY <1>0, <1>1
<1>6. ToSet(Only(s, S)) = ToSet(s) \cap S
  BY <1>0, <1>1, <1>4, <1>5 DEF ToSet
<1>7. \A i \in 1..Len(Only(s, S)) : Only(s, S)[i] \in ToSet(Only(s, S))
  BY <1>5 DEF ToSet
<1> QED
  BY <1>5, <1>6, <1>7

-----------------------------------------------------------------------------
(* Sums of counts. *)

Counted(s) == Len(s) \in Nat /\ \A i \in 1..Len(s) : s[i].count \in Nat

SumUpto(u, s) ==
    /\ u \in [0..Len(s) -> Nat] /\ u[0] = 0 /\ Sum(s) = u[Len(s)]
    /\ \A i \in 1..Len(s) : u[i] = u[i - 1] + s[i].count

\* The prefixes of a sum are numbers that grow by the counts.
LEMMA SumRun ==
    ASSUME NEW s, Counted(s)
    PROVE  \E u : SumUpto(u, s)
<1> DEFINE n == Len(s)
           c == [i \in 1..n |-> s[i].count]
           R(f) == [i \in 0..n |-> IF i = 0 THEN 0 ELSE f[i - 1] + s[i].count]
           step == [i \in 1..n |-> [a \in Nat |-> a + c[i]]]
           u == CHOOSE f : f = R(f)
<1>0. n \in Nat /\ \A i \in 1..n : s[i].count \in Nat /\ c[i] = s[i].count
  BY DEF Counted
<1>1. step \in [1..n -> [Nat -> Nat]] /\ 0 \in Nat
  <2>1. \A i \in 1..n, a \in Nat : a + c[i] \in Nat
    <3> HIDE DEF n, c
    <3> QED
      BY <1>0
  <2> HIDE DEF n, c
  <2> QED
    BY <2>1
<1>2. PICK f : Run(f, Nat, n, 0, step)
  <2> HIDE DEF n, step
  <2> QED
    BY <1>0, <1>1, RunExists
<1>3. f = R(f)
  <2>0. f \in [0..n -> Nat] /\ f[0] = 0 /\ \A i \in 1..n : f[i] = step[i][f[i - 1]]
    BY <1>2 DEF Run
  <2>1. ASSUME NEW i \in 0..n PROVE f[i] = R(f)[i]
    <3>1. CASE i = 0
      BY <2>0, <3>1
    <3>2. CASE i # 0
      <4>1. i \in 1..n /\ i - 1 \in 0..n
        BY <1>0, <3>2
      <4>2. f[i - 1] \in Nat /\ f[i] = step[i][f[i - 1]] /\ c[i] = s[i].count
        BY <1>0, <2>0, <4>1
      <4>3. f[i] = f[i - 1] + c[i]
        BY <4>1, <4>2
      <4> QED
        BY <3>2, <4>2, <4>3
    <3> QED
      BY <3>1, <3>2
  <2> HIDE DEF n, step, c
  <2> QED
    BY <2>0, <2>1
<1>4. u = R(u)
  BY <1>3
<1>5. Sum(s) = u[n]
  BY DEF Sum
<1> HIDE DEF u, c
<1>6. u[0] = 0 /\ \A i \in 1..n : u[i] = u[i - 1] + s[i].count
  <2>1. 0 \in 0..n /\ \A i \in 1..n : i \in 0..n /\ i # 0
    BY <1>0
  <2> HIDE DEF n
  <2> QED
    BY <1>4, <2>1
<1>7. \A i \in 0..n : u[i] \in Nat
  <2> DEFINE A == Nat
  <2>1. u[0] \in A /\ \A i \in 1..n : u[i - 1] \in A => u[i] \in A
    <3> HIDE DEF n
    <3> QED
      BY <1>0, <1>6
  <2> HIDE DEF A, n
  <2>2. \A i \in 0..n : u[i] \in A
    BY <1>0, <2>1, StaysIn
  <2> QED
    BY <2>2 DEF A
<1>8. u \in [0..n -> Nat]
  <2> HIDE DEF n
  <2> QED
    BY <1>4, <1>7
<1> QED
  BY <1>5, <1>6, <1>8 DEF SumUpto

\* A sum of counts is a natural number.
LEMMA SumNat ==
    ASSUME NEW s, Counted(s)
    PROVE  Sum(s) \in Nat
<1>1. PICK u : SumUpto(u, s)
  BY SumRun
<1> QED
  BY <1>1 DEF SumUpto, Counted

\* Two sums are as far apart as their terms have drifted.
LEMMA SumDrift ==
    ASSUME NEW a, NEW b, Counted(a), Counted(b), Len(a) = Len(b),
           NEW d \in [0..Len(a) -> Int], d[0] = 0,
           \A i \in 1..Len(a) : b[i].count = a[i].count + d[i] - d[i - 1]
    PROVE  Sum(b) = Sum(a) + d[Len(a)]
<1>0. PICK u : SumUpto(u, a)
  BY SumRun
<1>1. PICK v : SumUpto(v, b)
  BY SumRun
<1> DEFINE n == Len(a)
           P == {i \in 0..n : v[i] = u[i] + d[i]}
<1>2. n \in Nat /\ \A i \in 1..n : a[i].count \in Nat /\ b[i].count \in Nat
  BY DEF Counted
<1>3. 0 \in P
  BY <1>0, <1>1, <1>2 DEF SumUpto
<1>4. ASSUME NEW i \in 0..n, i \in P, i # n PROVE i + 1 \in P
  <2>1. i + 1 \in 1..n /\ i + 1 \in 0..n /\ (i + 1) - 1 = i
    BY <1>2, <1>4
  <2>2. u[i + 1] = u[i] + a[i + 1].count /\ v[i + 1] = v[i] + b[i + 1].count
    BY <1>0, <1>1, <2>1 DEF SumUpto
  <2>3. u[i] \in Nat /\ v[i] \in Nat
    BY <1>0, <1>1 DEF SumUpto
  <2>4. d[i] \in Int /\ d[i + 1] \in Int /\ b[i + 1].count = a[i + 1].count + d[i + 1] - d[i]
    BY <2>1
  <2>5. v[i] = u[i] + d[i] /\ a[i + 1].count \in Nat
    BY <1>2, <1>4, <2>1
  <2> HIDE DEF n
  <2>6. v[i + 1] = u[i + 1] + d[i + 1]
    BY <2>2, <2>3, <2>4, <2>5, SMTT(30)
  <2> QED
    BY <2>1, <2>6
<1>5. n \in P
  <2> HIDE DEF P, n
  <2>1. 0..n \subseteq P
    BY <1>2, <1>3, <1>4, Inductively
  <2> QED
    BY <1>2, <2>1
<1> QED
  BY <1>0, <1>1, <1>5 DEF SumUpto

\* The same terms have the same sum.
LEMMA SumSame ==
    ASSUME NEW a, NEW b, Counted(a), Counted(b), Len(a) = Len(b),
           \A i \in 1..Len(a) : b[i].count = a[i].count
    PROVE  Sum(b) = Sum(a)
<1> DEFINE d == [i \in 0..Len(a) |-> 0]
<1>1. Len(a) \in Nat /\ \A i \in 1..Len(a) : a[i].count \in Nat /\ i \in 0..Len(a) /\ i - 1 \in 0..Len(a)
  BY DEF Counted
<1>2. d \in [0..Len(a) -> Int] /\ d[0] = 0 /\ d[Len(a)] = 0
  BY <1>1
<1>3. \A i \in 1..Len(a) : b[i].count = a[i].count + d[i] - d[i - 1]
  BY <1>1
<1> HIDE DEF d
<1>4. Sum(b) = Sum(a) + d[Len(a)]
  BY <1>2, <1>3, SumDrift
<1> QED
  BY <1>2, <1>4, SumNat

\* Terms that differ at one place.
LEMMA SumChanged ==
    ASSUME NEW a, NEW b, Counted(a), Counted(b), Len(a) = Len(b), NEW k \in 1..Len(a),
           \A i \in 1..Len(a) : i # k => b[i].count = a[i].count
    PROVE  Sum(b) = Sum(a) + b[k].count - a[k].count
<1> DEFINE e == b[k].count - a[k].count
           d == [i \in 0..Len(a) |-> IF i < k THEN 0 ELSE e]
<1>1. Len(a) \in Nat /\ \A i \in 1..Len(a) : a[i].count \in Nat /\ b[i].count \in Nat /\ i \in 0..Len(a) /\ i - 1 \in 0..Len(a)
  BY DEF Counted
<1>a. e \in Int /\ a[k].count \in Nat /\ b[k].count = a[k].count + e
  BY <1>1
<1> HIDE DEF e
<1>2. d \in [0..Len(a) -> Int] /\ d[0] = 0 /\ d[Len(a)] = e
  BY <1>1, <1>a
<1>3. \A i \in 1..Len(a) : b[i].count = a[i].count + d[i] - d[i - 1]
  BY <1>1, <1>a
<1> HIDE DEF d
<1>4. Sum(b) = Sum(a) + d[Len(a)]
  BY <1>2, <1>3, SumDrift
<1> QED
  BY <1>2, <1>4, <1>1, SumNat DEF e

\* One more term.
LEMMA SumAppend ==
    ASSUME NEW T, NEW s \in Seq(T), NEW x \in T, \A y \in T : y.count \in Nat
    PROVE  Sum(Append(s, x)) = Sum(s) + x.count
<1> DEFINE t == Append(s, x)
           n == Len(s)
<1>0. n \in Nat /\ t \in Seq(T) /\ Len(t) = n + 1 /\ t[n + 1] = x /\ \A i \in 1..n : t[i] = s[i] /\ s[i] \in T
  OBVIOUS
<1>1. Counted(s) /\ Counted(t)
  <2>1. \A i \in 1..n + 1 : t[i] \in T
    BY <1>0
  <2> HIDE DEF t
  <2> QED
    BY <1>0, <2>1 DEF Counted
<1> HIDE DEF t
<1>2. PICK u : SumUpto(u, s)
  BY <1>1, SumRun
<1>3. PICK v : SumUpto(v, t)
  BY <1>1, SumRun
<1> DEFINE P == {i \in 0..n : v[i] = u[i]}
<1>4. 0 \in P
  BY <1>0, <1>2, <1>3 DEF SumUpto
<1>5. ASSUME NEW i \in 0..n, i \in P, i # n PROVE i + 1 \in P
  <2>1. i + 1 \in 1..n /\ i + 1 \in 1..n + 1 /\ i + 1 \in 0..n /\ (i + 1) - 1 = i
    BY <1>0, <1>5
  <2>2. u[i + 1] = u[i] + s[i + 1].count
    BY <1>2, <2>1 DEF SumUpto
  <2>3. v[i + 1] = v[i] + t[i + 1].count
    BY <1>0, <1>3, <2>1 DEF SumUpto
  <2>4. t[i + 1] = s[i + 1] /\ v[i] = u[i]
    BY <1>0, <1>5, <2>1
  <2> QED
    BY <2>1, <2>2, <2>3, <2>4
<1>6. n \in P
  <2> HIDE DEF P, n
  <2>1. 0..n \subseteq P
    BY <1>0, <1>4, <1>5, Inductively
  <2> QED
    BY <1>0, <2>1
<1>7. v[n + 1] = v[n] + x.count
  <2>1. n + 1 \in 1..n + 1 /\ (n + 1) - 1 = n
    BY <1>0
  <2>2. v[n + 1] = v[(n + 1) - 1] + t[n + 1].count
    BY <1>0, <1>3, <2>1 DEF SumUpto
  <2> QED
    BY <1>0, <2>1, <2>2
<1> QED
  BY <1>0, <1>2, <1>3, <1>6, <1>7 DEF SumUpto, t

\* A sum of terms of at least one is at least their number, and more only if one is.
LEMMA SumLength ==
    ASSUME NEW s, Counted(s), \A i \in 1..Len(s) : s[i].count >= 1
    PROVE  Sum(s) >= Len(s) /\ (Sum(s) > Len(s) => \E i \in 1..Len(s) : s[i].count > 1)
<1>0. PICK u : SumUpto(u, s)
  BY SumRun
<1> DEFINE n == Len(s)
           P == {i \in 0..n : u[i] >= i /\ (u[i] > i => \E j \in 1..i : s[j].count > 1)}
<1>1. n \in Nat /\ \A i \in 1..n : s[i].count \in Nat /\ s[i].count >= 1
  BY DEF Counted
<1>2. 0 \in P
  BY <1>0, <1>1 DEF SumUpto
<1>3. ASSUME NEW i \in 0..n, i \in P, i # n PROVE i + 1 \in P
  <2>1. i + 1 \in 1..n /\ i + 1 \in 0..n /\ (i + 1) - 1 = i /\ 1..i \subseteq 1..i + 1 /\ i + 1 \in 1..i + 1
    BY <1>1, <1>3
  <2>2. u[i + 1] = u[i] + s[i + 1].count
    BY <1>0, <2>1 DEF SumUpto
  <2>3. u[i] \in Nat /\ s[i + 1].count \in Nat /\ s[i + 1].count >= 1
    BY <1>0, <1>1, <2>1 DEF SumUpto
  <2>4. u[i] >= i /\ (u[i] > i => \E j \in 1..i : s[j].count > 1)
    BY <1>3
  <2>5. u[i + 1] >= i + 1
    BY <2>2, <2>3, <2>4
  <2>6. ASSUME u[i + 1] > i + 1 PROVE \E j \in 1..i + 1 : s[j].count > 1
    <3>1. u[i] > i \/ s[i + 1].count > 1
      BY <2>2, <2>3, <2>4, <2>6
    <3> QED
      BY <2>1, <2>4, <3>1
  <2> QED
    BY <2>1, <2>5, <2>6
<1>4. n \in P
  <2> HIDE DEF P, n
  <2>1. 0..n \subseteq P
    BY <1>1, <1>2, <1>3, Inductively
  <2> QED
    BY <1>1, <2>1
<1> QED
  BY <1>0, <1>4 DEF SumUpto

-----------------------------------------------------------------------------
(* Folding groups into tiers. *)

\* A group that stands for what was asked: its software under its labels, as many
\* nodes or more, and not at another place.
Stands(h, r) ==
    /\ h.role = r.role /\ h.services = r.services /\ h.count >= r.count
    /\ \A k \in DOMAIN r.labels : k \in DOMAIN h.labels /\ h.labels[k] = r.labels[k]
    /\ h.site # 0 /\ r.site # 0 => h.site = r.site

\* A group that has only grown.
Grown(h, g) == Stands(h, g) /\ h.slug = g.slug /\ h.site = g.site

\* The fields of a group.
LEMMA GroupIs ==
    ASSUME NEW g \in Groups
    PROVE  /\ g.count \in Nat /\ g.count >= 1 /\ g.role \in RoleNames /\ g.services \in Seq(STRING)
           /\ g.slug \in Seq(Parts) /\ g.labels \in Maps /\ g.site \in Nat
  BY DEF Groups

\* Groups have counts, of one node at least.
LEMMA GroupsCounted ==
    ASSUME NEW s \in Seq(Groups)
    PROVE  Counted(s) /\ \A i \in 1..Len(s) : s[i] \in Groups /\ s[i].count >= 1
<1>1. Len(s) \in Nat /\ \A i \in 1..Len(s) : s[i] \in Groups
  OBVIOUS
<1> QED
  BY <1>1, GroupIs DEF Counted

\* What a group stands for, it stands for when it has grown.
LEMMA GrownStands ==
    ASSUME NEW h \in Groups, NEW g \in Groups, NEW r, r.count \in Nat, Grown(h, g), Stands(g, r)
    PROVE  Stands(h, r)
<1>1. h.count \in Nat /\ g.count \in Nat
  BY GroupIs
<1>2. h.count >= r.count
  BY <1>1 DEF Grown, Stands
<1>3. \A k \in DOMAIN r.labels : k \in DOMAIN h.labels /\ h.labels[k] = r.labels[k]
  BY DEF Grown, Stands
<1> QED
  BY <1>2, <1>3 DEF Grown, Stands

\* A group has grown to itself.
LEMMA GrownSelf ==
    ASSUME NEW g \in Groups
    PROVE  Grown(g, g)
  BY GroupIs DEF Grown, Stands

\* A group that takes in one of its tier has grown, and stands for that one.
LEMMA JoinedIs ==
    ASSUME NEW h \in Groups, NEW g \in Groups, SameTier(h, g)
    PROVE  /\ Joined(h, g) \in Groups /\ Joined(h, g).count = h.count + g.count
           /\ Grown(Joined(h, g), h) /\ Stands(Joined(h, g), g)
<1> DEFINE j == Joined(h, g)
           m == Layered(g.labels, h.labels)
<1>1. h.count \in Nat /\ g.count \in Nat /\ h.count >= 1 /\ g.count >= 1
  BY GroupIs
<1>2. m \in Maps
  BY GroupIs, LayeredMaps
<1>3. /\ \A k \in DOMAIN g.labels : k \in DOMAIN m /\ m[k] = g.labels[k]
      /\ \A k \in DOMAIN h.labels : k \in DOMAIN m /\ (k \notin DOMAIN g.labels => m[k] = h.labels[k])
  <2>1. /\ DOMAIN m = DOMAIN g.labels \cup DOMAIN h.labels
        /\ \A k \in DOMAIN g.labels : m[k] = g.labels[k]
        /\ \A k \in DOMAIN h.labels : k \notin DOMAIN g.labels => m[k] = h.labels[k]
    BY LayeredIs
  <2> HIDE DEF m
  <2> QED
    BY <2>1
<1> HIDE DEF m
<1>4. /\ j.count = h.count + g.count /\ j.labels = m /\ j.role = h.role /\ j.services = h.services
      /\ j.slug = h.slug /\ j.site = h.site
  BY DEF Joined, Groups, m
<1>5. j \in Groups
  <2>1. h.count + g.count \in Nat \ {0}
    BY <1>1
  <2> QED
    BY <1>2, <2>1 DEF Joined, Groups, m
<1>6. h.labels = NoLabels \/ g.labels = NoLabels \/ g.labels = h.labels
  BY DEF SameTier
<1>7. \A k \in DOMAIN h.labels : m[k] = h.labels[k]
  BY <1>3, <1>6, NoLabelsMaps
<1> HIDE DEF j
<1>8. Grown(j, h)
  BY <1>1, <1>3, <1>4, <1>7 DEF Grown, Stands
<1>9. Stands(j, g)
  <2>1. h.role = g.role /\ h.services = g.services /\ (h.site = 0 \/ g.site = 0 \/ g.site = h.site)
    BY DEF SameTier
  <2> QED
    BY <1>1, <1>3, <1>4, <2>1 DEF Stands
<1> QED
  BY <1>4, <1>5, <1>8, <1>9 DEF j

\* Where a group goes: to the end, or into the first of its tier.
LEMMA MergeIs ==
    ASSUME NEW groups \in Seq(Groups), NEW g \in Groups
    PROVE  LET same == {i \in DOMAIN groups : SameTier(groups[i], g)}
               m == Merge(groups, g)
           IN  \/ same = {} /\ m = Append(groups, g)
               \/ /\ same # {} /\ First(same) \in 1..Len(groups) /\ SameTier(groups[First(same)], g)
                  /\ Len(m) = Len(groups) /\ m \in Seq(Groups)
                  /\ m[First(same)] = Joined(groups[First(same)], g)
                  /\ \A i \in 1..Len(groups) : i # First(same) => m[i] = groups[i]
<1> DEFINE same == {i \in DOMAIN groups : SameTier(groups[i], g)}
           m == Merge(groups, g)
           at == First(same)
<1>0. Len(groups) \in Nat /\ DOMAIN groups = 1..Len(groups) /\ \A i \in 1..Len(groups) : groups[i] \in Groups
  OBVIOUS
<1>1. CASE same = {}
  BY <1>1 DEF Merge
<1>2. CASE same # {}
  <2>1. at \in same
    <3>1. same \subseteq Nat
      BY <1>0
    <3> HIDE DEF same
    <3> QED
      BY <1>2, <3>1, FirstIs
  <2>2. at \in 1..Len(groups) /\ SameTier(groups[at], g)
    BY <1>0, <2>1
  <2>3. m = [groups EXCEPT ![at] = Joined(groups[at], g)]
    <3>1. m = IF same = {} THEN Append(groups, g) ELSE [groups EXCEPT ![at] = Joined(groups[at], g)]
      BY Zenon DEF Merge
    <3> HIDE DEF m, at, same
    <3> QED
      BY <1>2, <3>1
  <2>4. Joined(groups[at], g) \in Groups
    BY <1>0, <2>2, JoinedIs
  <2> HIDE DEF m, at, same
  <2>5. m \in Seq(Groups) /\ Len(m) = Len(groups) /\ m[at] = Joined(groups[at], g)
        /\ \A i \in 1..Len(groups) : i # at => m[i] = groups[i]
    BY <1>0, <2>2, <2>3, <2>4
  <2> QED
    BY <1>2, <2>2, <2>5 DEF m, at, same
<1> QED
  BY <1>1, <1>2

\* Nothing is lost: the nodes add up, every group that was there has only grown,
\* some group stands for the one that came, and a place stays a place.
LEMMA MergeKeeps ==
    ASSUME NEW groups \in Seq(Groups), NEW g \in Groups
    PROVE  LET m == Merge(groups, g)
           IN  /\ m \in Seq(Groups) /\ Len(m) >= Len(groups) /\ Len(m) >= 1
               /\ Sum(m) = Sum(groups) + g.count
               /\ \A i \in 1..Len(groups) : Grown(m[i], groups[i])
               /\ \E i \in 1..Len(m) : Stands(m[i], g)
               /\ (g.site # 0 /\ \A i \in 1..Len(groups) : groups[i].site # 0)
                    => \A i \in 1..Len(m) : m[i].site # 0
<1> DEFINE same == {i \in DOMAIN groups : SameTier(groups[i], g)}
           m == Merge(groups, g)
           at == First(same)
<1>0. Len(groups) \in Nat /\ DOMAIN groups = 1..Len(groups) /\ \A i \in 1..Len(groups) : groups[i] \in Groups
  OBVIOUS
<1>a. \/ same = {} /\ m = Append(groups, g)
      \/ /\ same # {} /\ at \in 1..Len(groups) /\ SameTier(groups[at], g)
         /\ Len(m) = Len(groups) /\ m \in Seq(Groups) /\ m[at] = Joined(groups[at], g)
         /\ \A i \in 1..Len(groups) : i # at => m[i] = groups[i]
  BY MergeIs
<1> HIDE DEF same, at
<1>1. CASE m = Append(groups, g)
  <2>1. m \in Seq(Groups) /\ Len(m) = Len(groups) + 1 /\ m[Len(groups) + 1] = g
        /\ \A i \in 1..Len(groups) : m[i] = groups[i]
    BY <1>1
  <2>2. Sum(m) = Sum(groups) + g.count
    BY <1>1, SumAppend, GroupIs
  <2>3. \A i \in 1..Len(groups) : Grown(m[i], groups[i])
    BY <1>0, <2>1, GrownSelf
  <2>4. Stands(m[Len(groups) + 1], g) /\ Len(groups) + 1 \in 1..Len(m)
    BY <1>0, <2>1, GrownSelf DEF Grown
  <2>5. ASSUME g.site # 0, \A i \in 1..Len(groups) : groups[i].site # 0, NEW i \in 1..Len(m)
        PROVE  m[i].site # 0
    <3>1. i \in 1..Len(groups) \/ i = Len(groups) + 1
      BY <1>0, <2>1
    <3> QED
      BY <2>1, <2>5, <3>1
  <2>6. Len(m) >= Len(groups) /\ Len(m) >= 1
    BY <1>0, <2>1
  <2> HIDE DEF m
  <2>7. \E i \in 1..Len(m) : Stands(m[i], g)
    BY <2>4
  <2> QED
    BY <2>1, <2>2, <2>3, <2>5, <2>6, <2>7 DEF m
<1>2. CASE /\ at \in 1..Len(groups) /\ SameTier(groups[at], g)
           /\ Len(m) = Len(groups) /\ m \in Seq(Groups) /\ m[at] = Joined(groups[at], g)
           /\ \A i \in 1..Len(groups) : i # at => m[i] = groups[i]
  <2> HIDE DEF m
  <2>1. /\ Joined(groups[at], g) \in Groups /\ m[at].count = groups[at].count + g.count
        /\ Grown(m[at], groups[at]) /\ Stands(m[at], g)
    BY <1>0, <1>2, JoinedIs
  <2>2. Sum(m) = Sum(groups) + g.count
    <3>1. Counted(m) /\ Counted(groups)
      BY <1>2, GroupsCounted
    <3>2. \A i \in 1..Len(groups) : i # at => m[i].count = groups[i].count
      BY <1>2
    <3>3. Sum(m) = Sum(groups) + m[at].count - groups[at].count
      BY <1>2, <3>1, <3>2, SumChanged
    <3>4. Sum(groups) \in Nat /\ groups[at].count \in Nat /\ g.count \in Nat
      BY <1>0, <1>2, <3>1, SumNat, GroupIs
    <3> QED
      BY <2>1, <3>3, <3>4
  <2>3. \A i \in 1..Len(groups) : Grown(m[i], groups[i])
    BY <1>0, <1>2, <2>1, GrownSelf
  <2>4. \A i \in 1..Len(groups) : m[i].site = groups[i].site
    BY <2>3 DEF Grown
  <2>5. Len(m) >= Len(groups) /\ Len(m) >= 1
    BY <1>0, <1>2
  <2> QED
    BY <1>2, <2>1, <2>2, <2>3, <2>4, <2>5 DEF m
<1> QED
  BY <1>a, <1>1, <1>2

MergedUpto(u, groups) ==
    /\ u \in [0..Len(groups) -> Seq(Groups)] /\ u[0] = <<>> /\ Merged(groups) = u[Len(groups)]
    /\ \A i \in 1..Len(groups) : u[i] = Merge(u[i - 1], groups[i])

\* The prefixes of Merged are sequences of groups.
LEMMA MergedRun ==
    ASSUME NEW groups \in Seq(Groups)
    PROVE  \E u : MergedUpto(u, groups)
<1> DEFINE n == Len(groups)
           A == Seq(Groups)
           R(f) == [i \in 0..n |-> IF i = 0 THEN <<>> ELSE Merge(f[i - 1], groups[i])]
           step == [i \in 1..n |-> [a \in A |-> Merge(a, groups[i])]]
           u == CHOOSE f : f = R(f)
<1>0. n \in Nat /\ \A i \in 1..n : groups[i] \in Groups
  OBVIOUS
<1>a. <<>> \in A /\ \A i \in 1..n, a \in A : Merge(a, groups[i]) \in A
  <2>1. \A i \in 1..n, a \in Seq(Groups) : Merge(a, groups[i]) \in Seq(Groups)
    BY <1>0, MergeKeeps
  <2>2. <<>> \in Seq(Groups)
    OBVIOUS
  <2> QED
    BY <2>1, <2>2
<1>1. step \in [1..n -> [A -> A]]
  <2> HIDE DEF n, A
  <2> QED
    BY <1>a
<1>2. PICK f : Run(f, A, n, <<>>, step)
  <2> HIDE DEF n, step, A
  <2> QED
    BY <1>0, <1>a, <1>1, RunExists
<1>3. f = R(f)
  <2>0. f \in [0..n -> A] /\ f[0] = <<>> /\ \A i \in 1..n : f[i] = step[i][f[i - 1]]
    BY <1>2 DEF Run
  <2>1. ASSUME NEW i \in 0..n PROVE f[i] = R(f)[i]
    <3>1. CASE i = 0
      BY <2>0, <3>1
    <3>2. CASE i # 0
      <4>1. i \in 1..n /\ i - 1 \in 0..n
        BY <1>0, <3>2
      <4>2. f[i - 1] \in A /\ f[i] = step[i][f[i - 1]]
        BY <2>0, <4>1
      <4> QED
        BY <3>2, <4>1, <4>2
    <3> QED
      BY <3>1, <3>2
  <2> HIDE DEF n, step, A
  <2> QED
    BY <2>0, <2>1
<1>4. u = R(u)
  BY <1>3
<1>5. Merged(groups) = u[n]
  BY DEF Merged
<1> HIDE DEF u, A
<1>6. u[0] = <<>> /\ \A i \in 1..n : u[i] = Merge(u[i - 1], groups[i])
  <2>1. 0 \in 0..n /\ \A i \in 1..n : i \in 0..n /\ i # 0
    BY <1>0
  <2> HIDE DEF n
  <2> QED
    BY <1>4, <2>1
<1>7. \A i \in 0..n : u[i] \in A
  <2>1. u[0] \in A /\ \A i \in 1..n : u[i - 1] \in A => u[i] \in A
    <3> HIDE DEF n
    <3> QED
      BY <1>a, <1>6
  <2> HIDE DEF n
  <2> QED
    BY <1>0, <2>1, StaysIn
<1>8. u \in [0..n -> A]
  <2> HIDE DEF n
  <2> QED
    BY <1>4, <1>7
<1> QED
  BY <1>5, <1>6, <1>8 DEF MergedUpto, A

\* What Merged makes of groups: tiers with as many nodes, one for each group.
LEMMA MergedKeeps ==
    ASSUME NEW groups \in Seq(Groups)
    PROVE  /\ Merged(groups) \in Seq(Groups) /\ (groups # <<>> => Merged(groups) # <<>>)
           /\ Sum(Merged(groups)) = Sum(groups)
           /\ \A j \in 1..Len(groups) : \E k \in 1..Len(Merged(groups)) : Stands(Merged(groups)[k], groups[j])
           /\ (\A j \in 1..Len(groups) : groups[j].site # 0)
                => \A k \in 1..Len(Merged(groups)) : Merged(groups)[k].site # 0
<1> DEFINE n == Len(groups)
<1>0. n \in Nat /\ \A i \in 1..n : groups[i] \in Groups
  OBVIOUS
<1>1. PICK u : MergedUpto(u, groups)
  BY MergedRun
<1>2. PICK s : SumUpto(s, groups)
  BY SumRun, GroupsCounted
<1> DEFINE Placed0 == \A j \in 1..n : groups[j].site # 0
           Q(i) == /\ Sum(u[i]) = s[i] /\ (i # 0 => Len(u[i]) >= 1)
                   /\ \A j \in 1..i : \E k \in 1..Len(u[i]) : Stands(u[i][k], groups[j])
                   /\ Placed0 => \A k \in 1..Len(u[i]) : u[i][k].site # 0
           P == {i \in 0..n : Q(i)}
<1>3. 0 \in P
  <2>1. u[0] = <<>> /\ s[0] = 0
    BY <1>1, <1>2 DEF MergedUpto, SumUpto
  <2>2. Sum(<<>>) = 0
    <3>1. Counted(<<>>) /\ Len(<<>>) = 0
      BY DEF Counted
    <3>2. PICK z : SumUpto(z, <<>>)
      BY <3>1, SumRun
    <3> QED
      BY <3>1, <3>2 DEF SumUpto
  <2> QED
    BY <1>0, <2>1, <2>2
<1>4. ASSUME NEW i \in 0..n, i \in P, i # n PROVE i + 1 \in P
  <2>1. i + 1 \in 1..n /\ i + 1 \in 0..n /\ (i + 1) - 1 = i /\ i \in Nat
    BY <1>0, <1>4
  <2>2. u[i] \in Seq(Groups) /\ u[i + 1] = Merge(u[i], groups[i + 1]) /\ groups[i + 1] \in Groups
    BY <1>0, <1>1, <2>1 DEF MergedUpto
  <2> DEFINE m == u[i + 1]
  <2>3. /\ m \in Seq(Groups) /\ Len(m) >= Len(u[i]) /\ Len(m) >= 1
        /\ Sum(m) = Sum(u[i]) + groups[i + 1].count
        /\ \A k \in 1..Len(u[i]) : Grown(m[k], u[i][k])
        /\ \E k \in 1..Len(m) : Stands(m[k], groups[i + 1])
        /\ (groups[i + 1].site # 0 /\ \A k \in 1..Len(u[i]) : u[i][k].site # 0)
              => \A k \in 1..Len(m) : m[k].site # 0
    BY <2>2, MergeKeeps
  <2>4. Q(i)
    BY <1>4
  <2>5. Sum(m) = s[i + 1]
    BY <1>2, <2>1, <2>3, <2>4 DEF SumUpto
  <2>6. ASSUME NEW j \in 1..i + 1 PROVE \E k \in 1..Len(m) : Stands(m[k], groups[j])
    <3>1. CASE j = i + 1
      BY <2>3, <3>1
    <3>2. CASE j # i + 1
      <4>1. j \in 1..i /\ j \in 1..n
        BY <1>0, <2>1, <3>2
      <4>2. PICK k \in 1..Len(u[i]) : Stands(u[i][k], groups[j])
        BY <2>4, <4>1
      <4>3. k \in 1..Len(m) /\ Len(u[i]) \in Nat
        BY <2>2, <2>3
      <4>4. m[k] \in Groups /\ u[i][k] \in Groups /\ groups[j].count \in Nat
        <5>1. u[i][k] \in Groups
          BY <2>2
        <5>2. groups[j] \in Groups
          BY <1>0, <4>1
        <5>3. m[k] \in Groups
          <6> HIDE DEF m
          <6> QED
            BY <2>3, <4>3
        <5> QED
          BY <5>1, <5>2, <5>3, GroupIs
      <4>5. Stands(m[k], groups[j])
        BY <2>3, <4>2, <4>4, GrownStands
      <4> QED
        BY <4>3, <4>5
    <3> QED
      BY <3>1, <3>2
  <2>7. Placed0 => \A k \in 1..Len(m) : m[k].site # 0
    BY <2>1, <2>3, <2>4
  <2>8. Q(i + 1)
    <3> HIDE DEF Placed0
    <3> QED
      BY <2>3, <2>5, <2>6, <2>7
  <2> HIDE DEF Q
  <2> QED
    BY <2>1, <2>8
<1>5. n \in P
  <2> HIDE DEF P, n
  <2>1. 0..n \subseteq P
    BY <1>0, <1>3, <1>4, Inductively
  <2> QED
    BY <1>0, <2>1
<1>6. Q(n)
  BY <1>5
<1>7. u[n] = Merged(groups) /\ u[n] \in Seq(Groups) /\ s[n] = Sum(groups)
  BY <1>0, <1>1, <1>2 DEF MergedUpto, SumUpto
<1>8. groups # <<>> => Merged(groups) # <<>>
  <2>1. groups # <<>> => n # 0
    BY <1>0
  <2> QED
    BY <1>6, <1>7, <2>1
<1> QED
  BY <1>6, <1>7, <1>8

-----------------------------------------------------------------------------
(* The names of tiers. *)

\* The distinctive services are services.
LEMMA DistinctiveIs ==
    ASSUME NEW g \in Groups
    PROVE  Distinctive(g) \in Seq(STRING)
  BY GroupIs, OnlyIs DEF Distinctive

\* One word is a slug.
LEMMA WordIs ==
    ASSUME NEW w \in STRING
    PROVE  Word(w) \in Seq(Parts) /\ Word(w) # <<>>
<1>1. [word |-> w, n |-> 0] \in Parts
  BY DEF Parts
<1> QED
  BY <1>1 DEF Word

\* The id of a service is a slug.
LEMMA SpelledIs ==
    ASSUME NEW id \in STRING
    PROVE  Spelled(id) \in Seq(Parts) /\ Spelled(id) # <<>>
<1>1. CASE id \in Known
  <2> DEFINE P == {i \in DOMAIN Collectors : Collectors[i].id = id}
  <2>1. P \subseteq Nat /\ P # {}
    BY <1>1, CollectorsAssumption DEF Known
  <2>2. First(P) \in DOMAIN Collectors
    BY <2>1, FirstIs
  <2> QED
    BY <1>1, <2>2, CollectorsAssumption DEF Spelled
<1>2. CASE id \notin Known
  BY <1>2, WordIs DEF Spelled
<1> QED
  BY <1>1, <1>2

\* A group has a name, and which depends on its slug, role and software alone.
LEMMA SlugIs ==
    ASSUME NEW g \in Groups
    PROVE  EffectiveSlug(g) \in Seq(Parts) /\ EffectiveSlug(g) # <<>>
<1>1. g.slug \in Seq(Parts) /\ g.role \in RoleNames
  BY GroupIs
<1>2. RoleOf(g.role).slug \in Seq(Parts) /\ RoleOf(g.role).slug # <<>>
  BY <1>1, RoleIs
<1>3. ASSUME Len(Distinctive(g)) = 1
      PROVE  Spelled(Distinctive(g)[1]) \in Seq(Parts) /\ Spelled(Distinctive(g)[1]) # <<>>
  <2>1. Distinctive(g)[1] \in STRING
    BY <1>3, DistinctiveIs
  <2> QED
    BY <2>1, SpelledIs
<1> QED
  BY <1>1, <1>2, <1>3 DEF EffectiveSlug

\* The name depends on slug, role and services alone.
LEMMA SlugDepends ==
    ASSUME NEW g, NEW h, g.slug = h.slug, g.role = h.role, g.services = h.services
    PROVE  EffectiveSlug(g) = EffectiveSlug(h)
  BY DEF EffectiveSlug, Distinctive

\* A slug that is given is the name.
LEMMA SlugGiven ==
    ASSUME NEW g, g.slug # <<>>
    PROVE  EffectiveSlug(g) = g.slug
  BY DEF EffectiveSlug

\* Different numbers make different names.
LEMMA NumberedIs ==
    ASSUME NEW base \in Seq(Parts), NEW n \in Nat, NEW m \in Nat
    PROVE  /\ Numbered(base, n) \in Seq(Parts) /\ Numbered(base, n) # <<>>
           /\ Numbered(base, n) = Numbered(base, m) => n = m
<1> DEFINE a == [word |-> "number", n |-> n]
           b == [word |-> "number", n |-> m]
<1>0. a \in Parts /\ b \in Parts
  BY DEF Parts
<1>1. a \in Parts /\ b \in Parts /\ (a = b => n = m)
  <2>1. a.n = n /\ b.n = m
    OBVIOUS
  <2> HIDE DEF a, b
  <2> QED
    BY <1>0, <2>1
<1> HIDE DEF a, b
<1>2. Append(base, a) \in Seq(Parts) /\ Append(base, a) # <<>>
  <2>1. Append(base, a) \in Seq(Parts) /\ Len(Append(base, a)) = Len(base) + 1 /\ Len(base) \in Nat
    BY <1>1
  <2>2. Len(<<>>) = 0
    OBVIOUS
  <2> QED
    BY <2>1, <2>2
<1>3. Append(base, a)[Len(base) + 1] = a /\ Append(base, b)[Len(base) + 1] = b
  BY <1>1
<1> QED
  BY <1>1, <1>2, <1>3 DEF Numbered, a, b

\* Of one more numbers than there are names one is free.
LEMMA NumberLeft ==
    ASSUME NEW base \in Seq(Parts), NEW taken, IsFiniteSet(taken)
    PROVE  \E n \in 2..Cardinality(taken) + 2 : Numbered(base, n) \notin taken
<1> DEFINE c == Cardinality(taken)
           S == 2..c + 2
           f == [n \in S |-> Numbered(base, n)]
<1>1. c \in Nat
  BY FS_CardinalityType
<1> HIDE DEF c
<1>2. IsFiniteSet(S) /\ Cardinality(S) = c + 1
  BY <1>1, FS_Interval
<1> SUFFICES ASSUME \A n \in S : Numbered(base, n) \in taken PROVE FALSE
  BY DEF c
<1>3. f \in [S -> taken]
  OBVIOUS
<1>4. \A n, m \in S : f[n] = f[m] => n = m
  <2>1. \A n \in S : n \in Nat
    BY <1>1
  <2> QED
    BY <2>1, NumberedIs
<1>5. Cardinality(taken) < Cardinality(S)
  BY <1>1, <1>2 DEF c
<1> HIDE DEF f, S
<1> QED
  BY <1>2, <1>3, <1>4, <1>5, FS_PigeonHole

\* The name that is given is not taken.
LEMMA CandidateIs ==
    ASSUME NEW g \in Groups, NEW taken, IsFiniteSet(taken)
    PROVE  /\ Candidate(g, taken) \notin taken
           /\ Candidate(g, taken) \in Seq(Parts) /\ Candidate(g, taken) # <<>>
<1> DEFINE base == EffectiveSlug(g)
           byRole == base \o RoleOf(g.role).slug
           free == {n \in 2 .. Cardinality(taken) + 2 : Numbered(base, n) \notin taken}
<1>1. base \in Seq(Parts) /\ base # <<>>
  BY SlugIs
<1>2. RoleOf(g.role).slug \in Seq(Parts)
  BY GroupIs, RoleIs
<1> HIDE DEF base
<1>3. byRole \in Seq(Parts) /\ byRole # <<>>
  BY <1>1, <1>2
<1>4. First(free) \in free
  <2>1. free # {}
    BY <1>1, NumberLeft
  <2>2. free \subseteq Nat
    <3>1. Cardinality(taken) \in Nat
      BY FS_CardinalityType
    <3> QED
      BY <3>1
  <2> HIDE DEF free
  <2> QED
    BY <2>1, <2>2, FirstIs
<1>5. First(free) \in Nat /\ Numbered(base, First(free)) \notin taken
  <2>1. Cardinality(taken) \in Nat
    BY FS_CardinalityType
  <2> QED
    BY <1>4, <2>1
<1>6. Numbered(base, First(free)) \in Seq(Parts) /\ Numbered(base, First(free)) # <<>>
  BY <1>1, <1>5, NumberedIs
<1>7. Candidate(g, taken) = IF base \notin taken THEN base
                            ELSE IF byRole \notin taken THEN byRole
                            ELSE Numbered(base, First(free))
  BY DEF Candidate, base
<1> HIDE DEF byRole, free
<1> QED
  BY <1>1, <1>3, <1>5, <1>6, <1>7

\* The names of some groups.
Taken(named) == {EffectiveSlug(named[i]) : i \in DOMAIN named}

\* Finitely many names are taken.
LEMMA TakenFinite ==
    ASSUME NEW named \in Seq(Groups)
    PROVE  IsFiniteSet(Taken(named))
<1> DEFINE n == Len(named)
           f == [i \in 1..n |-> EffectiveSlug(named[i])]
<1>1. n \in Nat /\ DOMAIN named = 1..n
  OBVIOUS
<1> HIDE DEF n
<1>2. IsFiniteSet(1..n)
  BY <1>1, FS_Interval
<1>3. f \in Surjection(1..n, Taken(named))
  BY <1>1 DEF Taken, Surjection
<1> QED
  BY <1>2, <1>3, FS_Surjection

\* A group but for its name.
Renamed(h, g) ==
    /\ h.count = g.count /\ h.role = g.role /\ h.services = g.services
    /\ h.labels = g.labels /\ h.site = g.site

Distinct(s) == \A i, j \in 1..Len(s) : i # j => EffectiveSlug(s[i]) # EffectiveSlug(s[j])

\* The group that Qualify adds, and its name.
Tagged(named, g) ==
    LET name == Candidate(g, Taken(named))
    IN  IF name = EffectiveSlug(g) THEN g ELSE [g EXCEPT !.slug = name]

\* The group that is added keeps all but its name, which is new.
LEMMA TaggedIs ==
    ASSUME NEW named \in Seq(Groups), NEW g \in Groups
    PROVE  /\ Qualify(named, g) = Append(named, Tagged(named, g))
           /\ Tagged(named, g) \in Groups /\ Renamed(Tagged(named, g), g)
           /\ EffectiveSlug(Tagged(named, g)) = Candidate(g, Taken(named))
           /\ EffectiveSlug(Tagged(named, g)) \notin Taken(named)
<1> DEFINE name == Candidate(g, Taken(named))
           h == Tagged(named, g)
<1>1. name \notin Taken(named) /\ name \in Seq(Parts) /\ name # <<>>
  BY TakenFinite, CandidateIs
<1>2. Qualify(named, g) = Append(named, h)
  BY DEF Qualify, Tagged, Taken
<1>3. CASE name = EffectiveSlug(g)
  <2>1. h = g
    BY <1>3 DEF Tagged
  <2> QED
    BY <1>1, <1>2, <1>3, <2>1 DEF Renamed
<1>4. CASE name # EffectiveSlug(g)
  <2>1. h = [g EXCEPT !.slug = name]
    BY <1>4 DEF Tagged
  <2> HIDE DEF name, h
  <2>2. h \in Groups /\ h.slug = name /\ Renamed(h, g)
    BY <1>1, <2>1 DEF Groups, Renamed
  <2>3. EffectiveSlug(h) = name
    BY <1>1, <2>2, SlugGiven
  <2> QED
    BY <1>1, <1>2, <2>2, <2>3 DEF h, name
<1> QED
  BY <1>3, <1>4

QualifiedUpto(u, groups) ==
    /\ u \in [0..Len(groups) -> Seq(Groups)] /\ u[0] = <<>> /\ Qualified(groups) = u[Len(groups)]
    /\ \A i \in 1..Len(groups) : u[i] = Append(u[i - 1], Tagged(u[i - 1], groups[i]))

\* The prefixes of Qualified are sequences of groups.
LEMMA QualifiedRun ==
    ASSUME NEW groups \in Seq(Groups)
    PROVE  \E u : QualifiedUpto(u, groups)
<1> DEFINE n == Len(groups)
           A == Seq(Groups)
           R(f) == [i \in 0..n |-> IF i = 0 THEN <<>> ELSE Qualify(f[i - 1], groups[i])]
           step == [i \in 1..n |-> [a \in A |-> Qualify(a, groups[i])]]
           u == CHOOSE f : f = R(f)
<1>0. n \in Nat /\ \A i \in 1..n : groups[i] \in Groups
  OBVIOUS
<1>a. <<>> \in A /\ \A i \in 1..n, a \in A : Qualify(a, groups[i]) \in A
  <2>1. ASSUME NEW i \in 1..n, NEW a \in Seq(Groups) PROVE Qualify(a, groups[i]) \in Seq(Groups)
    <3>1. Qualify(a, groups[i]) = Append(a, Tagged(a, groups[i])) /\ Tagged(a, groups[i]) \in Groups
      BY <1>0, TaggedIs
    <3> QED
      BY <3>1
  <2>2. <<>> \in Seq(Groups)
    OBVIOUS
  <2> QED
    BY <2>1, <2>2
<1>1. step \in [1..n -> [A -> A]]
  <2> HIDE DEF n, A
  <2> QED
    BY <1>a
<1>2. PICK f : Run(f, A, n, <<>>, step)
  <2> HIDE DEF n, step, A
  <2> QED
    BY <1>0, <1>a, <1>1, RunExists
<1>3. f = R(f)
  <2>0. f \in [0..n -> A] /\ f[0] = <<>> /\ \A i \in 1..n : f[i] = step[i][f[i - 1]]
    BY <1>2 DEF Run
  <2>1. ASSUME NEW i \in 0..n PROVE f[i] = R(f)[i]
    <3>1. CASE i = 0
      BY <2>0, <3>1
    <3>2. CASE i # 0
      <4>1. i \in 1..n /\ i - 1 \in 0..n
        BY <1>0, <3>2
      <4>2. f[i - 1] \in A /\ f[i] = step[i][f[i - 1]]
        BY <2>0, <4>1
      <4> QED
        BY <3>2, <4>1, <4>2
    <3> QED
      BY <3>1, <3>2
  <2> HIDE DEF n, step, A
  <2> QED
    BY <2>0, <2>1
<1>4. u = R(u)
  BY <1>3
<1>5. Qualified(groups) = u[n]
  BY DEF Qualified
<1> HIDE DEF u, A
<1>6. u[0] = <<>> /\ \A i \in 1..n : u[i] = Qualify(u[i - 1], groups[i])
  <2>1. 0 \in 0..n /\ \A i \in 1..n : i \in 0..n /\ i # 0
    BY <1>0
  <2> HIDE DEF n
  <2> QED
    BY <1>4, <2>1
<1>7. \A i \in 0..n : u[i] \in A
  <2>1. u[0] \in A /\ \A i \in 1..n : u[i - 1] \in A => u[i] \in A
    <3> HIDE DEF n
    <3> QED
      BY <1>a, <1>6
  <2> HIDE DEF n
  <2> QED
    BY <1>0, <2>1, StaysIn
<1>8. u \in [0..n -> A]
  <2> HIDE DEF n
  <2> QED
    BY <1>4, <1>7
<1>9. \A i \in 1..n : u[i] = Append(u[i - 1], Tagged(u[i - 1], groups[i]))
  <2>1. \A i \in 1..n : u[i - 1] \in Seq(Groups)
    <3>1. \A i \in 1..n : i - 1 \in 0..n
      BY <1>0
    <3> HIDE DEF n
    <3> QED
      BY <1>7, <3>1 DEF A
  <2> HIDE DEF n
  <2> QED
    BY <1>0, <1>6, <2>1, TaggedIs
<1> QED
  BY <1>5, <1>6, <1>8, <1>9 DEF QualifiedUpto, A

\* The groups stay what they are, and no two of them have one name.
LEMMA QualifiedKeeps ==
    ASSUME NEW groups \in Seq(Groups)
    PROVE  /\ Qualified(groups) \in Seq(Groups) /\ Len(Qualified(groups)) = Len(groups)
           /\ \A i \in 1..Len(groups) : Renamed(Qualified(groups)[i], groups[i])
           /\ Distinct(Qualified(groups))
<1> DEFINE n == Len(groups)
<1>0. n \in Nat /\ \A i \in 1..n : groups[i] \in Groups
  OBVIOUS
<1>1. PICK u : QualifiedUpto(u, groups)
  BY QualifiedRun
<1> DEFINE Q(i) == /\ Len(u[i]) = i /\ \A j \in 1..i : Renamed(u[i][j], groups[j])
                   /\ Distinct(u[i])
           P == {i \in 0..n : Q(i)}
<1>2. 0 \in P
  BY <1>0, <1>1 DEF QualifiedUpto, Distinct
<1>3. ASSUME NEW i \in 0..n, i \in P, i # n PROVE i + 1 \in P
  <2>1. i + 1 \in 1..n /\ i + 1 \in 0..n /\ (i + 1) - 1 = i /\ i \in Nat
    BY <1>0, <1>3
  <2> DEFINE v == u[i]
             h == Tagged(v, groups[i + 1])
  <2>2. v \in Seq(Groups) /\ groups[i + 1] \in Groups
    BY <1>0, <1>1, <2>1 DEF QualifiedUpto
  <2>3. u[i + 1] = Append(v, h)
    BY <1>1, <2>1 DEF QualifiedUpto
  <2>4. h \in Groups /\ Renamed(h, groups[i + 1]) /\ EffectiveSlug(h) \notin Taken(v)
    BY <2>2, TaggedIs
  <2>5. Len(v) = i /\ (\A j \in 1..i : Renamed(v[j], groups[j])) /\ Distinct(v)
    BY <1>3
  <2> HIDE DEF v, h
  <2> DEFINE w == Append(v, h)
  <2>6. Len(w) = i + 1 /\ w[i + 1] = h /\ (\A j \in 1..i : w[j] = v[j]) /\ DOMAIN v = 1..i
    BY <2>2, <2>5
  <2> HIDE DEF w
  <2>7. \A j \in 1..i + 1 : Renamed(w[j], groups[j])
    <3>1. \A j \in 1..i + 1 : j = i + 1 \/ j \in 1..i
      BY <2>1
    <3> QED
      BY <2>4, <2>5, <2>6, <3>1
  <2>8. Distinct(w)
    <3> SUFFICES ASSUME NEW j \in 1..i + 1, NEW k \in 1..i + 1, j # k
                 PROVE  EffectiveSlug(w[j]) # EffectiveSlug(w[k])
      BY <2>6 DEF Distinct
    <3>1. \A l \in 1..i : EffectiveSlug(v[l]) # EffectiveSlug(h)
      BY <2>4, <2>6 DEF Taken
    <3>2. (j = i + 1 \/ j \in 1..i) /\ (k = i + 1 \/ k \in 1..i)
      BY <2>1
    <3> QED
      BY <2>5, <2>6, <3>1, <3>2 DEF Distinct
  <2> QED
    BY <2>1, <2>3, <2>6, <2>7, <2>8 DEF w
<1>4. n \in P
  <2> HIDE DEF P, n
  <2>1. 0..n \subseteq P
    BY <1>0, <1>2, <1>3, Inductively
  <2> QED
    BY <1>0, <2>1
<1>5. u[n] = Qualified(groups) /\ u[n] \in Seq(Groups)
  BY <1>0, <1>1 DEF QualifiedUpto
<1> QED
  BY <1>4, <1>5

\* Tiers with names: as many nodes, one for each group, no name twice.
LEMMA DedupeKeeps ==
    ASSUME NEW groups \in Seq(Groups)
    PROVE  /\ Dedupe(groups) \in Seq(Groups) /\ (groups # <<>> => Dedupe(groups) # <<>>)
           /\ Sum(Dedupe(groups)) = Sum(groups) /\ Distinct(Dedupe(groups))
           /\ \A j \in 1..Len(groups) : \E k \in 1..Len(Dedupe(groups)) : Stands(Dedupe(groups)[k], groups[j])
           /\ (\A j \in 1..Len(groups) : groups[j].site # 0)
                => \A k \in 1..Len(Dedupe(groups)) : Dedupe(groups)[k].site # 0
<1> DEFINE m == Merged(groups)
           q == Qualified(m)
<1>1. /\ m \in Seq(Groups) /\ (groups # <<>> => m # <<>>) /\ Sum(m) = Sum(groups)
      /\ \A j \in 1..Len(groups) : \E k \in 1..Len(m) : Stands(m[k], groups[j])
      /\ (\A j \in 1..Len(groups) : groups[j].site # 0) => \A k \in 1..Len(m) : m[k].site # 0
  BY MergedKeeps
<1> HIDE DEF m
<1>2. /\ q \in Seq(Groups) /\ Len(q) = Len(m) /\ Distinct(q)
      /\ \A i \in 1..Len(m) : Renamed(q[i], m[i])
  BY <1>1, QualifiedKeeps
<1> HIDE DEF q
<1>3. Sum(q) = Sum(m)
  <2>1. Counted(q) /\ Counted(m)
    BY <1>1, <1>2, GroupsCounted
  <2> QED
    BY <1>2, <2>1, SumSame DEF Renamed
<1>4. groups # <<>> => q # <<>>
  BY <1>1, <1>2
<1>5. ASSUME NEW j \in 1..Len(groups) PROVE \E k \in 1..Len(q) : Stands(q[k], groups[j])
  <2>1. PICK k \in 1..Len(m) : Stands(m[k], groups[j])
    BY <1>1
  <2>2. Stands(q[k], groups[j])
    BY <1>2, <2>1 DEF Renamed, Stands
  <2> QED
    BY <1>2, <2>2
<1>6. (\A j \in 1..Len(groups) : groups[j].site # 0) => \A k \in 1..Len(q) : q[k].site # 0
  BY <1>1, <1>2 DEF Renamed
<1>7. Dedupe(groups) = q
  BY DEF Dedupe, m, q
<1> QED
  BY <1>1, <1>2, <1>3, <1>4, <1>5, <1>6, <1>7

-----------------------------------------------------------------------------
(* What a file holds. *)

\* The places of the nodes of the first i groups.
Tiles(s, i) == UNION {{k} \X (1..s[k].count) : k \in 1..i}

\* There are n numbers from 1 to n.
LEMMA UpTo ==
    ASSUME NEW n \in Nat
    PROVE  IsFiniteSet(1..n) /\ Cardinality(1..n) = n
  BY FS_Interval

\* There are as many nodes as the counts add up to.
LEMMA NodesCounted ==
    ASSUME NEW s \in Seq(Groups)
    PROVE  IsFiniteSet(Tiles(s, Len(s))) /\ Cardinality(Tiles(s, Len(s))) = Sum(s)
<1> DEFINE n == Len(s)
           Q(i) == IsFiniteSet(Tiles(s, i)) /\ Tiles(s, i) \subseteq (1..i) \X Nat
           P == {i \in 0..n : Q(i)}
<1>0. n \in Nat /\ \A i \in 1..n : s[i] \in Groups /\ s[i].count \in Nat
  BY GroupsCounted DEF Counted
<1>1. PICK u : SumUpto(u, s)
  BY SumRun, GroupsCounted
<1> DEFINE O == {i \in 0..n : Q(i) /\ Cardinality(Tiles(s, i)) = u[i]}
<1>2. 0 \in O
  <2>1. Tiles(s, 0) = {}
    BY DEF Tiles
  <2>2. u[0] = 0
    BY <1>1 DEF SumUpto
  <2> QED
    BY <1>0, <2>1, <2>2, FS_EmptySet
<1>3. ASSUME NEW i \in 0..n, i \in O, i # n PROVE i + 1 \in O
  <2>1. i + 1 \in 1..n /\ i + 1 \in 0..n /\ (i + 1) - 1 = i /\ i \in Nat
    BY <1>0, <1>3
  <2> DEFINE c == s[i + 1].count
             B == {i + 1} \X (1..c)
             A == Tiles(s, i)
  <2>2. c \in Nat
    BY <1>0, <2>1
  <2>3. Tiles(s, i + 1) = A \cup B
    <3>1. 1..i + 1 = (1..i) \cup {i + 1}
      BY <2>1
    <3> QED
      BY <3>1 DEF Tiles
  <2> HIDE DEF c
  <2>4. IsFiniteSet(B) /\ Cardinality(B) = c
    <3>1. IsFiniteSet({i + 1}) /\ Cardinality({i + 1}) = 1
      BY FS_Singleton
    <3>2. IsFiniteSet(1..c) /\ Cardinality(1..c) = c
      BY <2>2, UpTo
    <3>3. IsFiniteSet(B) /\ Cardinality(B) = 1 * c
      BY <3>1, <3>2, FS_Product, ZenonT(40)
    <3> QED
      BY <2>2, <3>3
  <2>5. A \subseteq (1..i) \X Nat /\ IsFiniteSet(A) /\ Cardinality(A) = u[i]
    BY <1>3
  <2>6. A \cap B = {}
    BY <2>1, <2>5
  <2>7. IsFiniteSet(A \cup B) /\ Cardinality(A \cup B) = Cardinality(A) + Cardinality(B)
    <3> HIDE DEF A, B
    <3>1. /\ IsFiniteSet(A \cup B)
          /\ Cardinality(A \cup B) = Cardinality(A) + Cardinality(B) - Cardinality(A \cap B)
      BY <2>4, <2>5, FS_Union
    <3>2. Cardinality(A \cap B) = 0 /\ Cardinality(A) \in Nat /\ Cardinality(B) \in Nat
      BY <2>4, <2>5, <2>6, FS_EmptySet, FS_CardinalityType
    <3> QED
      BY <3>1, <3>2
  <2>8. A \cup B \subseteq (1..i + 1) \X Nat
    BY <2>1, <2>2, <2>5
  <2>9. u[i + 1] = u[i] + c
    BY <1>1, <2>1 DEF SumUpto, c
  <2> QED
    BY <2>1, <2>3, <2>4, <2>5, <2>7, <2>8, <2>9
<1>4. n \in O
  <2> HIDE DEF O, n
  <2>1. 0..n \subseteq O
    BY <1>0, <1>2, <1>3, Inductively
  <2> QED
    BY <1>0, <2>1
<1> QED
  BY <1>1, <1>4 DEF SumUpto

\* The nodes of a rendered file are those of its groups.
LEMMA RenderIs ==
    ASSUME NEW s \in Seq(Groups), NEW labels, NEW name
    PROVE  /\ DOMAIN Render(s, labels, name) = Tiles(s, Len(s))
           /\ \A k \in 1..Len(s) : \A i \in 1..s[k].count :
                 /\ <<k, i>> \in DOMAIN Render(s, labels, name)
                 /\ Render(s, labels, name)[<<k, i>>] = Node(name, labels, s[k], i)
           /\ \A p \in DOMAIN Render(s, labels, name) :
                 \E k \in 1..Len(s) : \E i \in 1..s[k].count : p = <<k, i>>
<1>0. DOMAIN s = 1..Len(s)
  OBVIOUS
<1>1. DOMAIN Render(s, labels, name) = Tiles(s, Len(s))
  BY <1>0 DEF Render, Tiles
<1>2. ASSUME NEW k \in 1..Len(s), NEW i \in 1..s[k].count
      PROVE  <<k, i>> \in Tiles(s, Len(s))
  BY DEF Tiles
<1>3. ASSUME NEW p \in Tiles(s, Len(s))
      PROVE  \E k \in 1..Len(s) : \E i \in 1..s[k].count : p = <<k, i>>
  BY DEF Tiles
<1>4. ASSUME NEW p \in DOMAIN Render(s, labels, name)
      PROVE  Render(s, labels, name)[p] = Node(name, labels, s[p[1]], p[2])
  BY DEF Render
<1> QED
  BY <1>1, <1>2, <1>3, <1>4

\* A node has its group's labels over the fleet's over the generated ones, and the
\* generated ones are right.
Fits(n, name, fleet, g, i) ==
    /\ n.role = g.role /\ n.site = g.site
    /\ n.hostname = <<name, EffectiveSlug(g), i>> /\ n.guid = <<name, n.hostname>>
    /\ n.generator = BaseSpec(g.role, g.services)
    /\ n.generator = "" => n.services = ToSet(g.services) \cup {"processes"}
    /\ \A k \in DOMAIN g.labels : k \in DOMAIN n.labels /\ n.labels[k] = g.labels[k]
    /\ DOMAIN fleet \subseteq DOMAIN n.labels
    /\ n.labels["infra_sim_role"] = n.role
    /\ "environment" \in DOMAIN n.labels => n.labels["infra_sim_env"] = n.labels["environment"]

\* A node is what its group says, in its name, labels and services.
LEMMA NodeIs ==
    ASSUME NEW name, NEW fleet \in Maps, NEW g \in Groups, NEW i
    PROVE  Fits(Node(name, fleet, g, i), name, fleet, g, i)
<1> DEFINE n == Node(name, fleet, g, i)
           both == Layered(g.labels, fleet)
           made == [k \in {"infra_sim_role", "infra_sim_env"} |->
                       IF k = "infra_sim_role" THEN g.role ELSE EnvTier(fleet, g.labels)]
           all == Layered(both, made)
<1>1. /\ n.role = g.role /\ n.site = g.site /\ n.hostname = <<name, EffectiveSlug(g), i>>
      /\ n.guid = <<name, n.hostname>> /\ n.generator = BaseSpec(g.role, g.services)
      /\ n.generator = "" => n.services = ToSet(g.services) \cup {"processes"}
  BY DEF Node, DeriveGuid
<1>2. n.labels = all
  BY DEF Node, NodeLabels
<1> HIDE DEF n
<1>3. /\ DOMAIN both = DOMAIN g.labels \cup DOMAIN fleet
      /\ \A k \in DOMAIN g.labels : both[k] = g.labels[k]
  <2>1. /\ DOMAIN both = DOMAIN g.labels \cup DOMAIN fleet
        /\ \A k \in DOMAIN g.labels : both[k] = g.labels[k]
        /\ \A k \in DOMAIN fleet : k \notin DOMAIN g.labels => both[k] = fleet[k]
    BY LayeredIs
  <2> QED
    BY <2>1
<1>4. /\ DOMAIN all = DOMAIN both \cup DOMAIN made
      /\ \A k \in DOMAIN both : all[k] = both[k]
      /\ \A k \in DOMAIN made : k \notin DOMAIN both => all[k] = made[k]
  <2> HIDE DEF both, made
  <2> QED
    BY LayeredIs
<1>5. "infra_sim_role" \notin DOMAIN both /\ "infra_sim_env" \notin DOMAIN both
  <2>1. \A m \in Maps : \A k \in DOMAIN m : k \notin Reserved
    BY MapsHave DEF ValidLabels, ValidPair
  <2>2. g.labels \in Maps
    BY GroupIs
  <2> QED
    BY <1>3, <2>1, <2>2, ReservedAssumption
<1>6. /\ DOMAIN made = {"infra_sim_role", "infra_sim_env"}
      /\ made["infra_sim_role"] = g.role /\ made["infra_sim_env"] = EnvTier(fleet, g.labels)
  OBVIOUS
<1>7. "environment" \in DOMAIN both => EnvTier(fleet, g.labels) = both["environment"]
  BY DEF EnvTier
<1> HIDE DEF both, made, all
<1>8. all["infra_sim_role"] = g.role /\ all["infra_sim_env"] = EnvTier(fleet, g.labels)
  BY <1>4, <1>5, <1>6
<1>9. "environment" \in DOMAIN all => "environment" \in DOMAIN both
  BY <1>4, <1>6
<1>10. "environment" \in DOMAIN all => all["infra_sim_env"] = all["environment"]
  BY <1>4, <1>7, <1>8, <1>9
<1>11. (\A k \in DOMAIN g.labels : k \in DOMAIN all /\ all[k] = g.labels[k]) /\ DOMAIN fleet \subseteq DOMAIN all
  BY <1>3, <1>4
<1> QED
  BY <1>1, <1>2, <1>8, <1>10, <1>11 DEF n, Fits

\* The rows of a form at their places.
Sited(rows, site) == [i \in DOMAIN rows |-> [rows[i] EXCEPT !.site = GroupSite(rows[i], site)]]

\* Rows with their places are rows that differ in that alone.
LEMMA SitedIs ==
    ASSUME NEW rows \in Seq(Groups), NEW site \in Nat
    PROVE  /\ Sited(rows, site) \in Seq(Groups) /\ Len(Sited(rows, site)) = Len(rows)
           /\ FormGroups(rows, site) = Dedupe(Sited(rows, site))
           /\ \A i \in 1..Len(rows) :
                 LET r == Sited(rows, site)[i]
                 IN  /\ r.count = rows[i].count /\ r.role = rows[i].role
                     /\ r.services = rows[i].services /\ r.labels = rows[i].labels
                     /\ r.slug = rows[i].slug /\ r.site = GroupSite(rows[i], site)
<1> DEFINE p == Sited(rows, site)
<1>0. Len(rows) \in Nat /\ DOMAIN rows = 1..Len(rows) /\ \A i \in 1..Len(rows) : rows[i] \in Groups
  OBVIOUS
<1>1. \A i \in 1..Len(rows) : p[i] = [rows[i] EXCEPT !.site = GroupSite(rows[i], site)]
  BY <1>0 DEF Sited
<1>2. ASSUME NEW i \in 1..Len(rows)
      PROVE  /\ p[i] \in Groups /\ p[i].count = rows[i].count /\ p[i].role = rows[i].role
             /\ p[i].services = rows[i].services /\ p[i].labels = rows[i].labels
             /\ p[i].slug = rows[i].slug /\ p[i].site = GroupSite(rows[i], site)
  <2>1. GroupSite(rows[i], site) \in Nat
    BY <1>0, GroupIs DEF GroupSite
  <2> HIDE DEF p
  <2> QED
    BY <1>0, <1>1, <2>1 DEF Groups
<1>3. p \in Seq(Groups) /\ Len(p) = Len(rows)
  <2>1. p = [i \in 1..Len(rows) |-> p[i]]
    BY <1>0 DEF Sited
  <2> HIDE DEF p
  <2> QED
    BY <1>0, <1>2, <2>1
<1>4. FormGroups(rows, site) = Dedupe(p)
  BY DEF FormGroups, Sited
<1> QED
  BY <1>2, <1>3, <1>4

\* The command line renders the groups it has read, the console what becomes of its rows.
GroupsOf(path, file) ==
    IF path = "out" THEN file.asked.rows ELSE FormGroups(file.asked.rows, file.asked.site)

WellMade(path, file) ==
    /\ file.asked.rows \in Seq(Groups) /\ file.asked.rows # <<>>
    /\ file.asked.labels \in Maps /\ file.asked.site \in Nat
    /\ file.nodes = Render(GroupsOf(path, file), file.asked.labels, file.name)
    /\ path = "out" => file.asked.site = 0
    /\ path = "out" /\ file.by # "keywords" => Distinct(file.asked.rows)

\* The groups of a file stand for its rows.
LEMMA GroupsStand ==
    ASSUME NEW path, NEW file, WellMade(path, file)
    PROVE  LET g == GroupsOf(path, file)
               rows == file.asked.rows
           IN  /\ g \in Seq(Groups) /\ g # <<>> /\ Sum(g) = Sum(rows)
               /\ path # "out" => Distinct(g)
               /\ \A j \in 1..Len(rows) : \E k \in 1..Len(g) :
                     /\ g[k].role = rows[j].role /\ g[k].services = rows[j].services
                     /\ g[k].count >= rows[j].count
                     /\ \A l \in DOMAIN rows[j].labels : l \in DOMAIN g[k].labels /\ g[k].labels[l] = rows[j].labels[l]
                     /\ file.asked.site # 0 => g[k].site = GroupSite(rows[j], file.asked.site)
<1> DEFINE g == GroupsOf(path, file)
           rows == file.asked.rows
           site == file.asked.site
<1>0. rows \in Seq(Groups) /\ rows # <<>> /\ site \in Nat /\ (path = "out" => site = 0)
  BY DEF WellMade
<1>1. CASE path = "out"
  <2>1. g = rows
    BY <1>1 DEF GroupsOf
  <2>2. \A j \in 1..Len(rows) : rows[j].count >= rows[j].count
    BY <1>0, GroupIs
  <2> HIDE DEF g, rows, site
  <2> QED
    BY <1>0, <1>1, <2>1, <2>2 DEF g, rows, site
<1>2. CASE path # "out"
  <2> DEFINE p == Sited(rows, site)
  <2>1. g = Dedupe(p) /\ p \in Seq(Groups) /\ Len(p) = Len(rows)
    BY <1>0, <1>2, SitedIs DEF GroupsOf
  <2>2. \A i \in 1..Len(rows) :
           /\ p[i].count = rows[i].count /\ p[i].role = rows[i].role
           /\ p[i].services = rows[i].services /\ p[i].labels = rows[i].labels
           /\ p[i].site = GroupSite(rows[i], site)
    BY <1>0, SitedIs
  <2> HIDE DEF g, p, rows, site
  <2>3. /\ g \in Seq(Groups) /\ (p # <<>> => g # <<>>) /\ Sum(g) = Sum(p) /\ Distinct(g)
        /\ \A j \in 1..Len(p) : \E k \in 1..Len(g) : Stands(g[k], p[j])
        /\ (\A j \in 1..Len(p) : p[j].site # 0) => \A k \in 1..Len(g) : g[k].site # 0
    BY <2>1, DedupeKeeps
  <2>4. p # <<>>
    BY <1>0, <2>1
  <2>5. Sum(p) = Sum(rows)
    <3>1. Counted(p) /\ Counted(rows)
      BY <1>0, <2>1, GroupsCounted
    <3> QED
      BY <2>1, <2>2, <3>1, SumSame
  <2>6. ASSUME site # 0 PROVE \A j \in 1..Len(p) : p[j].site # 0
    BY <2>1, <2>2, <2>6 DEF GroupSite
  <2>7. ASSUME NEW j \in 1..Len(rows)
        PROVE  \E k \in 1..Len(g) :
                     /\ g[k].role = rows[j].role /\ g[k].services = rows[j].services
                     /\ g[k].count >= rows[j].count
                     /\ \A l \in DOMAIN rows[j].labels : l \in DOMAIN g[k].labels /\ g[k].labels[l] = rows[j].labels[l]
                     /\ site # 0 => g[k].site = GroupSite(rows[j], site)
    <3>1. PICK k \in 1..Len(g) : Stands(g[k], p[j])
      BY <2>1, <2>3
    <3>2. site # 0 => g[k].site = p[j].site
      BY <2>1, <2>3, <2>6, <3>1 DEF Stands
    <3> QED
      BY <2>2, <3>1, <3>2 DEF Stands
  <2> QED
    BY <1>2, <2>3, <2>4, <2>5, <2>7 DEF g, rows, site
<1> QED
  BY <1>1, <1>2

\* A file as asked: the body of AsAsked.
Fulfils(file) ==
    /\ Cardinality(DOMAIN file.nodes) = Sum(file.asked.rows)
    /\ \A row \in ToSet(file.asked.rows) : Cardinality(Serving(file, row)) >= row.count
    /\ \A node \in Range(file.nodes) :
        /\ DOMAIN file.asked.labels \subseteq DOMAIN node.labels
        /\ node.labels["infra_sim_role"] = node.role
        /\ "environment" \in DOMAIN node.labels =>
            node.labels["infra_sim_env"] = node.labels["environment"]

\* A file that is well made holds what it was asked for.
LEMMA WellMadeFulfils ==
    ASSUME NEW path, NEW file, WellMade(path, file)
    PROVE  Fulfils(file)
<1> DEFINE g == GroupsOf(path, file)
           rows == file.asked.rows
           site == file.asked.site
           fleet == file.asked.labels
           nodes == file.nodes
<1>1. /\ g \in Seq(Groups) /\ g # <<>> /\ Sum(g) = Sum(rows)
      /\ \A j \in 1..Len(rows) : \E k \in 1..Len(g) :
            /\ g[k].role = rows[j].role /\ g[k].services = rows[j].services
            /\ g[k].count >= rows[j].count
            /\ \A l \in DOMAIN rows[j].labels : l \in DOMAIN g[k].labels /\ g[k].labels[l] = rows[j].labels[l]
            /\ site # 0 => g[k].site = GroupSite(rows[j], site)
  BY GroupsStand, SMTT(30)
<1>2. nodes = Render(g, fleet, file.name) /\ fleet \in Maps /\ rows \in Seq(Groups)
  BY DEF WellMade
<1> HIDE DEF g
<1>3. Len(g) \in Nat /\ \A k \in 1..Len(g) : g[k] \in Groups /\ g[k].count \in Nat
  BY <1>1, GroupsCounted DEF Counted
<1>4. /\ DOMAIN nodes = Tiles(g, Len(g))
      /\ \A k \in 1..Len(g) : \A i \in 1..g[k].count :
            <<k, i>> \in DOMAIN nodes /\ nodes[<<k, i>>] = Node(file.name, fleet, g[k], i)
      /\ \A p \in DOMAIN nodes : \E k \in 1..Len(g) : \E i \in 1..g[k].count : p = <<k, i>>
  BY <1>1, <1>2, RenderIs
<1>5. IsFiniteSet(DOMAIN nodes) /\ Cardinality(DOMAIN nodes) = Sum(rows)
  BY <1>1, <1>4, NodesCounted
<1>6. ASSUME NEW row \in ToSet(rows) PROVE Cardinality(Serving(file, row)) >= row.count
  <2>1. PICK j \in 1..Len(rows) : row = rows[j]
    BY <1>2 DEF ToSet
  <2>2. PICK k \in 1..Len(g) :
            /\ g[k].role = row.role /\ g[k].services = row.services
            /\ g[k].count >= row.count
            /\ \A l \in DOMAIN row.labels : l \in DOMAIN g[k].labels /\ g[k].labels[l] = row.labels[l]
            /\ site # 0 => g[k].site = GroupSite(row, site)
    BY <1>1, <2>1
  <2>3. row.count \in Nat /\ g[k] \in Groups /\ g[k].count \in Nat
    <3>1. row \in Groups
      BY <1>2, <2>1
    <3> QED
      BY <1>3, <3>1, GroupIs
  <2> DEFINE B == {k} \X (1..row.count)
  <2>4. ASSUME NEW i \in 1..row.count PROVE <<k, i>> \in Serving(file, row)
    <3>1. i \in 1..g[k].count
      BY <2>2, <2>3
    <3> DEFINE node == nodes[<<k, i>>]
    <3>2. <<k, i>> \in DOMAIN nodes /\ node = Node(file.name, fleet, g[k], i)
      BY <1>4, <3>1
    <3>3. /\ node.role = g[k].role /\ node.site = g[k].site
          /\ node.generator = BaseSpec(g[k].role, g[k].services)
          /\ node.generator = "" => node.services = ToSet(g[k].services) \cup {"processes"}
          /\ \A l \in DOMAIN g[k].labels : l \in DOMAIN node.labels /\ node.labels[l] = g[k].labels[l]
      <4>1. Fits(node, file.name, fleet, g[k], i)
        BY <1>2, <2>3, <3>2, NodeIs
      <4> QED
        BY <4>1 DEF Fits
    <3> HIDE DEF node
    <3>4. \A l \in DOMAIN row.labels : l \in DOMAIN node.labels /\ node.labels[l] = row.labels[l]
      BY <2>2, <3>3
    <3>5. site # 0 => node.site = IF row.site # 0 THEN row.site ELSE site
      BY <2>2, <3>3 DEF GroupSite
    <3>6. \/ ToSet(row.services) \cup {"processes"} = node.services
          \/ node.generator # "" /\ node.generator = BaseSpec(row.role, row.services)
      BY <2>2, <3>3
    <3> QED
      BY <2>2, <3>2, <3>3, <3>4, <3>5, <3>6 DEF Serving, node
  <2>5. B \subseteq Serving(file, row)
    BY <2>4
  <2>6. IsFiniteSet(Serving(file, row))
    <3>1. Serving(file, row) \subseteq DOMAIN nodes
      BY DEF Serving
    <3> QED
      BY <1>5, <3>1, FS_Subset
  <2>7. Cardinality(B) = row.count
    <3>1. IsFiniteSet({k}) /\ Cardinality({k}) = 1
      BY FS_Singleton
    <3>2. IsFiniteSet(1..row.count) /\ Cardinality(1..row.count) = row.count
      BY <2>3, UpTo
    <3>3. Cardinality(B) = 1 * row.count
      BY <3>1, <3>2, FS_Product, ZenonT(40)
    <3> QED
      BY <2>3, <3>3
  <2>8. Cardinality(B) <= Cardinality(Serving(file, row)) /\ Cardinality(Serving(file, row)) \in Nat
    <3> HIDE DEF B
    <3> QED
      BY <2>5, <2>6, FS_Subset, FS_CardinalityType
  <2> QED
    BY <2>3, <2>7, <2>8
<1>7. ASSUME NEW node \in Range(nodes)
      PROVE  /\ DOMAIN fleet \subseteq DOMAIN node.labels
             /\ node.labels["infra_sim_role"] = node.role
             /\ "environment" \in DOMAIN node.labels =>
                  node.labels["infra_sim_env"] = node.labels["environment"]
  <2>1. PICK p \in DOMAIN nodes : node = nodes[p]
    BY DEF Range
  <2>a. PICK k \in 1..Len(g) : \E i \in 1..g[k].count : p = <<k, i>>
    BY <1>4, <2>1
  <2>2. PICK i \in 1..g[k].count : p = <<k, i>>
    BY <2>a
  <2>3. node = Node(file.name, fleet, g[k], i) /\ g[k] \in Groups
    BY <1>3, <1>4, <2>1, <2>2
  <2>4. Fits(node, file.name, fleet, g[k], i)
    BY <1>2, <2>3, NodeIs
  <2> QED
    BY <2>4 DEF Fits
<1> QED
  BY <1>5, <1>6, <1>7 DEF Fulfils

\* What the console writes, or a model's reading becomes, has no identity twice.
LEMMA WellMadeLoads ==
    ASSUME NEW path, NEW file, WellMade(path, file), file.by # "keywords"
    PROVE  Loads(file)
<1> DEFINE g == GroupsOf(path, file)
           fleet == file.asked.labels
           nodes == file.nodes
<1>1. g \in Seq(Groups) /\ g # <<>> /\ Distinct(g)
  <2>1. g \in Seq(Groups) /\ g # <<>> /\ (path # "out" => Distinct(g))
    BY GroupsStand
  <2>2. path = "out" => Distinct(g)
    BY DEF WellMade, GroupsOf
  <2> QED
    BY <2>1, <2>2
<1>2. nodes = Render(g, fleet, file.name) /\ fleet \in Maps
  BY DEF WellMade
<1> HIDE DEF g
<1>3. Len(g) \in Nat /\ \A k \in 1..Len(g) : g[k] \in Groups /\ g[k].count \in Nat /\ g[k].count >= 1
  BY <1>1, GroupsCounted DEF Counted
<1>4. /\ \A k \in 1..Len(g) : \A i \in 1..g[k].count :
            <<k, i>> \in DOMAIN nodes /\ nodes[<<k, i>>] = Node(file.name, fleet, g[k], i)
      /\ \A p \in DOMAIN nodes : \E k \in 1..Len(g) : \E i \in 1..g[k].count : p = <<k, i>>
  BY <1>1, <1>2, RenderIs
<1>5. DOMAIN nodes # {}
  <2>1. 1 \in 1..Len(g)
    BY <1>1, <1>3
  <2>2. 1 \in 1..g[1].count
    BY <1>3, <2>1
  <2> QED
    BY <1>4, <2>1, <2>2
<1>6. ASSUME NEW p \in DOMAIN nodes, NEW q \in DOMAIN nodes, p # q
      PROVE  nodes[p].guid # nodes[q].guid /\ nodes[p].hostname # nodes[q].hostname
  <2>a. PICK k \in 1..Len(g) : \E i \in 1..g[k].count : p = <<k, i>>
    BY <1>4
  <2>1. PICK i \in 1..g[k].count : p = <<k, i>>
    BY <2>a
  <2>b. PICK l \in 1..Len(g) : \E j \in 1..g[l].count : q = <<l, j>>
    BY <1>4
  <2>2. PICK j \in 1..g[l].count : q = <<l, j>>
    BY <2>b
  <2>3. nodes[p] = Node(file.name, fleet, g[k], i) /\ nodes[q] = Node(file.name, fleet, g[l], j)
        /\ g[k] \in Groups /\ g[l] \in Groups
    BY <1>3, <1>4, <2>1, <2>2
  <2>4. /\ nodes[p].hostname = <<file.name, EffectiveSlug(g[k]), i>> /\ nodes[p].guid = <<file.name, nodes[p].hostname>>
        /\ nodes[q].hostname = <<file.name, EffectiveSlug(g[l]), j>> /\ nodes[q].guid = <<file.name, nodes[q].hostname>>
    <3>1. Fits(nodes[p], file.name, fleet, g[k], i) /\ Fits(nodes[q], file.name, fleet, g[l], j)
      BY <1>2, <2>3, NodeIs
    <3> QED
      BY <3>1 DEF Fits
  <2>5. k # l \/ i # j
    BY <1>6, <2>1, <2>2
  <2>6. EffectiveSlug(g[k]) # EffectiveSlug(g[l]) \/ i # j
    BY <1>1, <2>5 DEF Distinct
  <2> QED
    BY <2>4, <2>6
<1> QED
  BY <1>5, <1>6 DEF Loads

-----------------------------------------------------------------------------
(* Scaling. *)

\* A group but for its count.
Resized(h, g) ==
    /\ h.role = g.role /\ h.services = g.services /\ h.slug = g.slug
    /\ h.labels = g.labels /\ h.site = g.site

\* The same groups with other counts.
Scaled(b, a) ==
    /\ b \in Seq(Groups) /\ Len(b) = Len(a)
    /\ \A i \in 1..Len(a) : Resized(b[i], a[i])

\* b is a with the counts c.
Counts(b, a, c) ==
    /\ b = [i \in DOMAIN a |-> b[i]]
    /\ \A i \in 1..Len(a) : c[i] \in Nat /\ c[i] >= 1 /\ b[i] = [a[i] EXCEPT !.count = c[i]]

\* Groups with other counts are the groups, scaled.
LEMMA ScaledIs ==
    ASSUME NEW a \in Seq(Groups), NEW b, NEW c, Counts(b, a, c)
    PROVE  Scaled(b, a) /\ \A i \in 1..Len(a) : b[i].count = c[i]
<1>0. Len(a) \in Nat /\ DOMAIN a = 1..Len(a) /\ \A i \in 1..Len(a) : a[i] \in Groups
  OBVIOUS
<1>1. ASSUME NEW i \in 1..Len(a)
      PROVE  b[i] \in Groups /\ b[i].count = c[i] /\ Resized(b[i], a[i])
  <2>0. c[i] \in Nat /\ c[i] >= 1
    BY Zenon DEF Counts
  <2>1. c[i] \in Nat \ {0}
    BY <2>0
  <2>2. b[i] = [a[i] EXCEPT !.count = c[i]]
    BY Zenon DEF Counts
  <2> QED
    BY <1>0, <2>1, <2>2 DEF Groups, Resized
<1>2. b \in Seq(Groups) /\ Len(b) = Len(a)
  <2>1. b = [i \in DOMAIN a |-> b[i]]
    BY DEF Counts
  <2> QED
    BY <1>0, <1>1, <2>1
<1> QED
  BY <1>1, <1>2 DEF Scaled

\* Groups are themselves, scaled.
LEMMA ScaledSelf ==
    ASSUME NEW a \in Seq(Groups)
    PROVE  Scaled(a, a)
  BY DEF Scaled, Resized

\* Scaling twice is scaling.
LEMMA ScaledTwice ==
    ASSUME NEW a, NEW b, NEW c, Scaled(b, a), Scaled(c, b)
    PROVE  Scaled(c, a)
  BY DEF Scaled, Resized

\* Scaling leaves names apart.
LEMMA ScaledDistinct ==
    ASSUME NEW a \in Seq(Groups), NEW b, Scaled(b, a), Distinct(a)
    PROVE  Distinct(b)
<1>1. \A i \in 1..Len(a) : EffectiveSlug(b[i]) = EffectiveSlug(a[i])
  BY SlugDepends DEF Scaled, Resized
<1> QED
  BY <1>1 DEF Distinct, Scaled

\* The groups that Shed takes a node from.
Large(groups) ==
    {i \in DOMAIN groups : groups[i].count > 1 /\
        \A j \in DOMAIN groups :
            /\ groups[j].count <= groups[i].count
            /\ groups[j].count = groups[i].count => j <= i}

\* Shedding takes one node from each of the large groups and nothing else.
LEMMA ShedIs ==
    ASSUME NEW a \in Seq(Groups)
    PROVE  /\ Scaled(Shed(a), a)
           /\ \A i \in 1..Len(a) : Shed(a)[i].count = IF i \in Large(a) THEN a[i].count - 1 ELSE a[i].count
<1> DEFINE c == [i \in 1..Len(a) |-> IF i \in Large(a) THEN a[i].count - 1 ELSE a[i].count]
<1>0. DOMAIN a = 1..Len(a) /\ \A i \in 1..Len(a) : a[i] \in Groups /\ a[i].count \in Nat /\ a[i].count >= 1
  BY GroupsCounted DEF Counted
<1>1. \A i \in Large(a) : a[i].count > 1
  BY DEF Large
<1>2. ASSUME NEW i \in 1..Len(a)
      PROVE  c[i] \in Nat /\ c[i] >= 1 /\ Shed(a)[i] = [a[i] EXCEPT !.count = c[i]]
  <2>1. c[i] \in Nat /\ c[i] >= 1
    BY <1>0, <1>1
  <2>2. Shed(a)[i] = IF i \in Large(a) THEN [a[i] EXCEPT !.count = a[i].count - 1] ELSE a[i]
    BY <1>0 DEF Shed, Large
  <2>3. a[i] = [a[i] EXCEPT !.count = a[i].count]
    BY <1>0 DEF Groups
  <2> HIDE DEF Large
  <2> QED
    BY <2>1, <2>2, <2>3
<1>3. Shed(a) = [i \in DOMAIN a |-> Shed(a)[i]]
  BY DEF Shed
<1> DEFINE b == Shed(a)
<1> HIDE DEF c, b
<1>4. Scaled(b, a) /\ \A i \in 1..Len(a) : b[i].count = c[i]
  <2>1. Counts(b, a, c)
    BY <1>2, <1>3 DEF b, Counts
  <2> QED
    BY <2>1, ScaledIs
<1> QED
  BY <1>4 DEF b, c

\* While there are more nodes than tiers, shedding takes one.
LEMMA ShedTakesOne ==
    ASSUME NEW a \in Seq(Groups), Sum(a) > Len(a)
    PROVE  Sum(Shed(a)) = Sum(a) - 1
<1>0. /\ Counted(a) /\ Len(a) \in Nat /\ DOMAIN a = 1..Len(a)
      /\ \A i \in 1..Len(a) : a[i] \in Groups /\ a[i].count \in Nat /\ a[i].count >= 1
  BY GroupsCounted DEF Counted
<1>1. PICK x \in 1..Len(a) : a[x].count > 1
  BY <1>0, SumLength
<1> DEFINE counts == {a[i].count : i \in 1..Len(a)}
<1>2. \E m \in counts : \A n \in counts : n <= m
  <2>1. PICK u : SumUpto(u, a)
    BY <1>0, SumRun
  <2> DEFINE bound == {n \in Nat : \A i \in 1..Len(a) : a[i].count <= n}
  <2>2. bound # {}
    <3> DEFINE S == {i \in 0..Len(a) : \E n \in Nat : \A j \in 1..i : a[j].count <= n}
    <3>1. 0 \in S
      BY <1>0
    <3>2. ASSUME NEW i \in 0..Len(a), i \in S, i # Len(a) PROVE i + 1 \in S
      <4>1. i + 1 \in 1..Len(a) /\ i + 1 \in 0..Len(a) /\ i \in Nat
        <5> HIDE DEF S
        <5>1. Len(a) \in Nat
          BY <1>0
        <5> QED
          BY <3>2, <5>1
      <4>2. PICK n \in Nat : \A j \in 1..i : a[j].count <= n
        BY <3>2
      <4>3. n + a[i + 1].count \in Nat /\ \A j \in 1..i + 1 : a[j].count <= n + a[i + 1].count
        <5>1. \A j \in 1..i + 1 : j = i + 1 \/ j \in 1..i
          BY <4>1
        <5>2. \A j \in 1..i : a[j].count \in Nat
          BY <1>0, <4>1
        <5>3. a[i + 1].count \in Nat
          BY <1>0, <4>1
        <5> QED
          BY <4>2, <5>1, <5>2, <5>3, SMTT(30)
      <4> QED
        BY <4>1, <4>3
    <3>3. Len(a) \in S
      <4> HIDE DEF S
      <4>1. 0..Len(a) \subseteq S
        BY <1>0, <3>1, <3>2, Inductively
      <4> QED
        BY <1>0, <4>1
    <3> QED
      BY <3>3
  <2>3. PICK m \in bound : \A n \in bound : m <= n
    <3>1. bound \subseteq Nat
      OBVIOUS
    <3> HIDE DEF bound
    <3> QED
      BY <2>2, <3>1, NatLeast
  <2>4. m > 1
    BY <1>0, <1>1
  <2>5. m \in counts
    <3> SUFFICES ASSUME m \notin counts PROVE FALSE
      OBVIOUS
    <3>1. \A i \in 1..Len(a) : a[i].count <= m - 1
      BY <1>0
    <3>2. m - 1 \in bound
      BY <2>4, <3>1
    <3> QED
      BY <2>3, <3>2
  <2> QED
    BY <2>5
<1>3. PICK m \in counts : \A n \in counts : n <= m
  BY <1>2
<1> DEFINE tops == {i \in 1..Len(a) : a[i].count = m}
           ends == {n \in Nat : \A i \in tops : i <= n}
<1>4. \E k \in tops : \A j \in tops : j <= k
  <2>1. tops # {} /\ tops \subseteq 1..Len(a)
    BY <1>3
  <2>2. Len(a) \in ends
    BY <1>0
  <2>3. PICK k \in ends : \A n \in ends : k <= n
    <3>1. ends \subseteq Nat /\ ends # {}
      BY <2>2
    <3> HIDE DEF ends
    <3> QED
      BY <3>1, NatLeast
  <2>4. k \in tops
    <3> SUFFICES ASSUME k \notin tops PROVE FALSE
      OBVIOUS
    <3>1. PICK i \in tops : TRUE
      BY <2>1
    <3>2. i >= 1 /\ i <= k /\ i # k /\ i \in Nat
      BY <1>0, <2>1, <3>1
    <3>3. \A j \in tops : j <= k - 1
      BY <1>0
    <3>4. k - 1 \in ends
      BY <3>2, <3>3
    <3>5. k \in Nat /\ k <= k - 1
      BY <2>3, <3>4
    <3> HIDE DEF ends
    <3> QED
      BY <3>5
  <2> QED
    BY <2>4
<1>5. PICK k \in tops : \A j \in tops : j <= k
  BY <1>4
<1>6. k \in 1..Len(a) /\ a[k].count = m /\ \A j \in 1..Len(a) : a[j].count <= m
  BY <1>3, <1>5
<1>7. Large(a) = {k}
  <2>1. k \in Large(a)
    BY <1>0, <1>1, <1>5, <1>6 DEF Large
  <2>2. ASSUME NEW i \in Large(a) PROVE i = k
    BY <1>0, <1>6, <2>1, <2>2 DEF Large
  <2> QED
    BY <2>1, <2>2
<1> HIDE DEF tops, ends, counts
<1>8. /\ Scaled(Shed(a), a)
      /\ \A i \in 1..Len(a) : Shed(a)[i].count = IF i \in Large(a) THEN a[i].count - 1 ELSE a[i].count
  BY ShedIs
<1> DEFINE b == Shed(a)
<1>9. b \in Seq(Groups) /\ Len(b) = Len(a) /\ b[k].count = a[k].count - 1
      /\ \A i \in 1..Len(a) : i # k => b[i].count = a[i].count
  BY <1>6, <1>7, <1>8 DEF Scaled
<1> HIDE DEF b
<1>10. Counted(b)
  BY <1>9, GroupsCounted
<1>11. Sum(b) = Sum(a) + b[k].count - a[k].count
  BY <1>0, <1>6, <1>9, <1>10, SumChanged
<1>12. Sum(a) \in Nat /\ a[k].count \in Nat
  BY <1>0, <1>6, SumNat
<1>13. Sum(b) = Sum(a) - 1
  BY <1>9, <1>11, <1>12
<1> QED
  BY <1>13 DEF b

\* Shedding as often as there are nodes too many.
LEMMA TrimmedIs ==
    ASSUME NEW a \in Seq(Groups), NEW k \in Nat
    PROVE  /\ Scaled(Trimmed(a, k), a)
           /\ Sum(a) - k >= Len(a) => Sum(Trimmed(a, k)) = Sum(a) - k
<1> DEFINE A == {b \in Seq(Groups) : Scaled(b, a)}
           R(f) == [i \in 0..k |-> IF i = 0 THEN a ELSE Shed(f[i - 1])]
           step == [i \in 1..k |-> [b \in A |-> Shed(b)]]
           u == CHOOSE f : f = R(f)
<1>a. a \in A /\ \A b \in A : Shed(b) \in A
  <2>1. ASSUME NEW b \in A PROVE Shed(b) \in A
    <3>1. Scaled(Shed(b), b) /\ Scaled(b, a)
      BY ShedIs
    <3>2. Scaled(Shed(b), a)
      BY <3>1, ScaledTwice
    <3> QED
      BY <3>2 DEF Scaled
  <2> QED
    BY <2>1, ScaledSelf
<1> HIDE DEF A
<1>1. step \in [1..k -> [A -> A]]
  BY <1>a
<1>2. PICK f : Run(f, A, k, a, step)
  <2> HIDE DEF step
  <2> QED
    BY <1>a, <1>1, RunExists
<1>3. f = R(f)
  <2>0. f \in [0..k -> A] /\ f[0] = a /\ \A i \in 1..k : f[i] = step[i][f[i - 1]]
    BY <1>2 DEF Run
  <2>1. ASSUME NEW i \in 0..k PROVE f[i] = R(f)[i]
    <3>1. CASE i = 0
      BY <2>0, <3>1
    <3>2. CASE i # 0
      <4>1. i \in 1..k /\ i - 1 \in 0..k
        BY <3>2
      <4>2. f[i - 1] \in A /\ f[i] = step[i][f[i - 1]]
        BY <2>0, <4>1
      <4> QED
        BY <3>2, <4>1, <4>2
    <3> QED
      BY <3>1, <3>2
  <2> HIDE DEF step
  <2> QED
    BY <2>0, <2>1
<1>4. u = R(u)
  BY <1>3
<1>5. Trimmed(a, k) = u[k]
  BY DEF Trimmed
<1> HIDE DEF u
<1>6. u[0] = a /\ \A i \in 1..k : u[i] = Shed(u[i - 1])
  <2>1. 0 \in 0..k /\ \A i \in 1..k : i \in 0..k /\ i # 0
    OBVIOUS
  <2> QED
    BY <1>4, <2>1
<1>7. \A i \in 0..k : u[i] \in A
  <2>1. u[0] \in A /\ \A i \in 1..k : u[i - 1] \in A => u[i] \in A
    BY <1>a, <1>6
  <2> QED
    BY <2>1, StaysIn
<1>8. ASSUME Sum(a) - k >= Len(a) PROVE Sum(Trimmed(a, k)) = Sum(a) - k
  <2> DEFINE P == {i \in 0..k : Sum(u[i]) = Sum(a) - i}
  <2>0. Sum(a) \in Nat /\ Len(a) \in Nat
    BY GroupsCounted, SumNat DEF Counted
  <2>1. 0 \in P
    BY <1>6, <2>0
  <2>2. ASSUME NEW i \in 0..k, i \in P, i # k PROVE i + 1 \in P
    <3>1. i + 1 \in 1..k /\ i + 1 \in 0..k /\ (i + 1) - 1 = i
      BY <2>2
    <3>2. u[i] \in Seq(Groups) /\ Len(u[i]) = Len(a)
      BY <1>7 DEF A, Scaled
    <3>3. Sum(u[i]) = Sum(a) - i
      BY <2>2
    <3>4. Sum(u[i]) > Len(u[i])
      BY <1>8, <2>0, <3>1, <3>2, <3>3
    <3>5. Sum(Shed(u[i])) = Sum(u[i]) - 1
      BY <3>2, <3>4, ShedTakesOne
    <3>6. u[i + 1] = Shed(u[i])
      BY <1>6, <3>1
    <3> QED
      BY <2>0, <3>1, <3>3, <3>5, <3>6
  <2>3. k \in P
    <3> HIDE DEF P
    <3>1. 0..k \subseteq P
      BY <2>1, <2>2, Inductively
    <3> QED
      BY <3>1
  <2> QED
    BY <1>5, <2>3
<1>9. Scaled(u[k], a)
  BY <1>7 DEF A
<1> QED
  BY <1>5, <1>8, <1>9

\* Division with a remainder.
LEMMA Divided ==
    ASSUME NEW x \in Nat, NEW b \in Nat, b >= 1
    PROVE  /\ x \div b \in Nat /\ x % b \in Nat /\ x % b < b /\ x = (b * (x \div b)) + (x % b)
           /\ x >= b => x \div b >= 1
<1>1. x \div b \in Nat /\ x % b \in Nat /\ x % b < b
  OBVIOUS
<1>2. x = (b * (x \div b)) + (x % b)
  OBVIOUS
<1>3. x >= b => x \div b >= 1
  <2> SUFFICES ASSUME x \div b = 0 PROVE x < b
    BY <1>1
  <2>1. b * (x \div b) = 0
    OBVIOUS
  <2> QED
    BY <1>1, <1>2, <2>1
<1> QED
  BY <1>1, <1>2, <1>3

\* A whole share is at least one node.
LEMMA WholeIs ==
    ASSUME NEW count \in Nat, NEW target \in Nat, NEW before \in Nat, before >= 1
    PROVE  Whole(count, target, before) \in Nat /\ Whole(count, target, before) >= 1
<1>1. count * target \in Nat
  OBVIOUS
<1> DEFINE x == count * target
<1> HIDE DEF x
<1>2. x \div before \in Nat /\ (x >= before => x \div before >= 1)
  BY <1>1, Divided DEF x
<1>3. Whole(count, target, before) = IF x < before THEN 1 ELSE x \div before
  BY DEF Whole, x
<1> QED
  BY <1>1, <1>2, <1>3 DEF x

\* The whole shares are the groups, scaled.
LEMMA FlooredIs ==
    ASSUME NEW a \in Seq(Groups), NEW target \in Nat, Sum(a) >= 1
    PROVE  Scaled(Floored(a, target), a)
<1> DEFINE b == Floored(a, target)
           c == [i \in 1..Len(a) |-> Whole(a[i].count, target, Sum(a))]
<1>0. /\ DOMAIN a = 1..Len(a) /\ Sum(a) \in Nat
      /\ \A i \in 1..Len(a) : a[i] \in Groups /\ a[i].count \in Nat
  BY GroupsCounted, SumNat DEF Counted
<1>1. \A i \in 1..Len(a) : c[i] \in Nat /\ c[i] >= 1
  BY <1>0, WholeIs
<1>2. \A i \in 1..Len(a) : b[i] = [a[i] EXCEPT !.count = c[i]]
  BY <1>0 DEF Floored
<1>3. b = [i \in DOMAIN a |-> b[i]]
  BY DEF Floored
<1> HIDE DEF b, c
<1>4. Counts(b, a, c)
  BY <1>1, <1>2, <1>3 DEF Counts
<1>5. Scaled(b, a)
  BY <1>4, ScaledIs
<1> QED
  BY <1>5 DEF b

\* The numbers below n are n.
LEMMA Below ==
    ASSUME NEW n \in Nat
    PROVE  IsFiniteSet(0..n - 1) /\ Cardinality(0..n - 1) = n
<1>1. CASE n = 0
  <2>1. 0..n - 1 = {}
    BY <1>1
  <2> QED
    BY <1>1, <2>1, FS_EmptySet
<1>2. CASE n # 0
  <2>1. 0 \in Int /\ n - 1 \in Int /\ 0 <= n - 1
    BY <1>2
  <2>2. IsFiniteSet(0..n - 1)
    BY <2>1, FS_Interval
  <2> DEFINE k == n - 1
  <2>3. k \in Int /\ k - 0 + 1 = n /\ ~(0 > k)
    BY <2>1
  <2> HIDE DEF k
  <2>4. Cardinality(0..k) = IF 0 > k THEN 0 ELSE k - 0 + 1
    BY <2>3, FS_Interval
  <2> QED
    BY <2>2, <2>3, <2>4 DEF k
<1> QED
  BY <1>1, <1>2

\* Who comes before i when the remainders r are sorted.
Before(r, n, i) == {j \in 1..n : r[j] > r[i] \/ (r[j] = r[i] /\ j < i)}

\* As many as asked for have a rank below it.
LEMMA RankedFew ==
    ASSUME NEW n \in Nat, NEW r \in [1..n -> Nat], NEW m \in 0..n
    PROVE  Cardinality({i \in 1..n : Cardinality(Before(r, n, i)) < m}) = m
<1> DEFINE rank == [i \in 1..n |-> Cardinality(Before(r, n, i))]
           L == {i \in 1..n : rank[i] < m}
           g == [i \in L |-> rank[i]]
<1>0. IsFiniteSet(1..n) /\ Cardinality(1..n) = n
  BY UpTo
<1>1. ASSUME NEW i \in 1..n
      PROVE  IsFiniteSet(Before(r, n, i)) /\ Cardinality(Before(r, n, i)) \in Nat /\ Cardinality(Before(r, n, i)) < n
  <2>1. IsFiniteSet((1..n) \ {i}) /\ Cardinality((1..n) \ {i}) = n - 1
    BY <1>0, FS_RemoveElement
  <2>2. Before(r, n, i) \subseteq (1..n) \ {i}
    BY DEF Before
  <2>3. IsFiniteSet(Before(r, n, i)) /\ Cardinality(Before(r, n, i)) <= n - 1
    BY <2>1, <2>2, FS_Subset
  <2>4. Cardinality(Before(r, n, i)) \in Nat
    BY <2>3, FS_CardinalityType
  <2> QED
    BY <2>3, <2>4
<1>2. ASSUME NEW i \in 1..n, NEW j \in 1..n, j \in Before(r, n, i) PROVE rank[j] < rank[i]
  <2>0. \A k \in 1..n : r[k] \in Nat
    OBVIOUS
  <2>1. Before(r, n, j) \subseteq Before(r, n, i) /\ j \notin Before(r, n, j)
    BY <1>2, <2>0 DEF Before
  <2>2. Cardinality(Before(r, n, j)) <= Cardinality(Before(r, n, i))
        /\ (Cardinality(Before(r, n, j)) = Cardinality(Before(r, n, i)) => Before(r, n, j) = Before(r, n, i))
    BY <1>1, <2>1, FS_Subset
  <2>3. Cardinality(Before(r, n, j)) # Cardinality(Before(r, n, i))
    BY <1>2, <2>1, <2>2
  <2> QED
    BY <1>1, <2>2, <2>3
<1>3. ASSUME NEW i \in 1..n, NEW j \in 1..n, rank[i] = rank[j] PROVE i = j
  <2> SUFFICES ASSUME i # j PROVE FALSE
    OBVIOUS
  <2>0. r[i] \in Nat /\ r[j] \in Nat
    OBVIOUS
  <2>1. j \in Before(r, n, i) \/ i \in Before(r, n, j)
    BY <2>0 DEF Before
  <2>2. rank[j] < rank[i] \/ rank[i] < rank[j]
    BY <1>2, <2>1
  <2>3. rank[i] \in Nat /\ rank[j] \in Nat
    BY <1>1
  <2> HIDE DEF rank
  <2> QED
    BY <1>3, <2>2, <2>3
<1>4. rank \in [1..n -> 0..n - 1]
  BY <1>1
<1>5. IsFiniteSet(0..n - 1) /\ Cardinality(0..n - 1) = n
  BY Below
<1>6. IsFiniteSet(0..m - 1) /\ Cardinality(0..m - 1) = m
  BY Below
<1>7. L = {i \in 1..n : Cardinality(Before(r, n, i)) < m}
  OBVIOUS
<1>b. g = [i \in L |-> rank[i]] /\ L = {i \in 1..n : rank[i] < m}
  OBVIOUS
<1> HIDE DEF rank
<1> HIDE DEF L, g
<1>a. \A i, j \in 1..n : rank[i] = rank[j] => i = j
  BY <1>3
<1>8. rank \in Surjection(1..n, 0..n - 1)
  <2>1. rank \in Injection(1..n, 0..n - 1)
    BY <1>4, <1>a DEF Injection, IsInjective
  <2> QED
    BY <1>0, <1>5, <2>1, FS_Injection
<1>9. g \in [L -> 0..m - 1] /\ \A i \in L : g[i] = rank[i] /\ i \in 1..n
  <2>1. \A i \in L : rank[i] \in 0..m - 1
    BY <1>4, <1>b
  <2> QED
    BY <2>1, <1>b
<1>10. \A x \in 0..m - 1 : \E i \in L : g[i] = x
  <2> SUFFICES ASSUME NEW x \in 0..m - 1 PROVE \E i \in L : g[i] = x
    OBVIOUS
  <2>1. x \in 0..n - 1 /\ x < m
    OBVIOUS
  <2>2. PICK i \in 1..n : rank[i] = x
    BY <1>8, <2>1 DEF Surjection
  <2>3. i \in L
    BY <2>1, <2>2, <1>b
  <2> QED
    BY <1>9, <2>2, <2>3
<1>11. g \in Injection(L, 0..m - 1) /\ g \in Surjection(L, 0..m - 1)
  <2>1. \A i, j \in L : g[i] = g[j] => i = j
    BY <1>a, <1>9
  <2>2. g \in Injection(L, 0..m - 1)
    BY <1>9, <2>1 DEF Injection, IsInjective
  <2>3. g \in Surjection(L, 0..m - 1)
    BY <1>9, <1>10 DEF Surjection
  <2> QED
    BY <2>2, <2>3
<1>12. Cardinality(L) = Cardinality(0..m - 1)
  BY <1>6, <1>11, FS_Injection
<1> QED
  BY <1>6, <1>7, <1>12

\* The first i places that are in a set, counted.
LEMMA CountedOn ==
    ASSUME NEW L, NEW i \in Nat
    PROVE  /\ IsFiniteSet((1..i) \cap L) /\ Cardinality((1..i) \cap L) \in Nat
           /\ Cardinality((1..i + 1) \cap L) = Cardinality((1..i) \cap L) + IF i + 1 \in L THEN 1 ELSE 0
<1> DEFINE A == (1..i) \cap L
<1>1. IsFiniteSet(A) /\ Cardinality(A) \in Nat
  <2>1. IsFiniteSet(1..i)
    BY UpTo
  <2> QED
    BY <2>1, FS_Intersection, FS_CardinalityType
<1>2. CASE i + 1 \in L
  <2>1. (1..i + 1) \cap L = A \cup {i + 1} /\ i + 1 \notin A
    BY <1>2
  <2> HIDE DEF A
  <2> QED
    BY <1>1, <1>2, <2>1, FS_AddElement DEF A
<1>3. CASE i + 1 \notin L
  <2>1. (1..i + 1) \cap L = A
    BY <1>3
  <2> HIDE DEF A
  <2> QED
    BY <1>1, <1>3, <2>1 DEF A
<1> QED
  BY <1>2, <1>3

\* What is left is handed out to the last node.
LEMMA HandedOutIs ==
    ASSUME NEW a \in Seq(Groups), NEW target \in Nat, NEW left \in Nat, Sum(a) >= 1
    PROVE  /\ Scaled(HandedOut(a, target, left), a)
           /\ Sum(HandedOut(a, target, left)) = Sum(Floored(a, target)) + left
<1> DEFINE n == Len(a)
           f == Floored(a, target)
           q == left \div n
           m == left % n
           h == HandedOut(a, target, left)
           r == [j \in 1..n |-> (a[j].count * target) % Sum(a)]
           L == {i \in 1..n : Cardinality(Before(r, n, i)) < m}
           c == [i \in 1..n |-> f[i].count + q + IF i \in L THEN 1 ELSE 0]
           d == [i \in 0..n |-> i * q + Cardinality((1..i) \cap L)]
<1>0. /\ n \in Nat /\ DOMAIN a = 1..n /\ Sum(a) \in Nat
      /\ \A i \in 1..n : a[i] \in Groups /\ a[i].count \in Nat
  BY GroupsCounted, SumNat DEF Counted
<1>1. n >= 1
  <2> SUFFICES ASSUME n = 0 PROVE FALSE
    BY <1>0
  <2>1. PICK u : SumUpto(u, a)
    BY GroupsCounted, SumRun
  <2> QED
    BY <2>1 DEF SumUpto
<1>2. q \in Nat /\ m \in Nat /\ m < n /\ left = (n * q) + m
  <2> HIDE DEF n
  <2> QED
    BY <1>0, <1>1, Divided
<1>3. Scaled(f, a) /\ f \in Seq(Groups) /\ Len(f) = n
  BY FlooredIs DEF Scaled
<1>4. \A i \in 1..n : Resized(f[i], a[i]) /\ f[i] \in Groups /\ f[i].count \in Nat /\ f[i].count >= 1
  <2>1. \A i \in 1..n : f[i] \in Groups
    <3> HIDE DEF f, n
    <3> QED
      BY <1>3
  <2> QED
    BY <1>3, <2>1, GroupIs DEF Scaled
<1>5. r \in [1..n -> Nat]
  <2>1. ASSUME NEW j \in 1..n PROVE (a[j].count * target) % Sum(a) \in Nat
    <3>1. a[j].count * target \in Nat
      BY <1>0
    <3> QED
      BY <1>0, <3>1, Divided
  <2> QED
    BY <2>1
<1>6. \A i \in 1..n : Rank(a, target, i) < m <=> i \in L
  <2>1. ASSUME NEW i \in 1..n PROVE Rank(a, target, i) = Cardinality(Before(r, n, i))
    BY <1>0 DEF Rank, Before
  <2> HIDE DEF r, m, n
  <2> QED
    BY <2>1
<1>7. Cardinality(L) = m
  <2>1. m \in 0..n
    BY <1>0, <1>2
  <2> HIDE DEF r, m, n
  <2> QED
    BY <1>0, <1>5, <2>1, RankedFew
<1>8. ASSUME NEW i \in 1..n
      PROVE  h[i] = [f[i] EXCEPT !.count = c[i]] /\ c[i] \in Nat /\ c[i] >= 1
  <2>1. h[i] = [f[i] EXCEPT !.count = f[i].count + q + IF Rank(a, target, i) < m THEN 1 ELSE 0]
    BY <1>0 DEF HandedOut
  <2>2. c[i] = f[i].count + q + IF Rank(a, target, i) < m THEN 1 ELSE 0
    BY <1>6
  <2>3. c[i] \in Nat /\ c[i] >= 1
    <3> DEFINE e == IF i \in L THEN 1 ELSE 0
               k == f[i].count
    <3>1. c[i] = k + q + e
      OBVIOUS
    <3>2. e \in Nat /\ k \in Nat /\ k >= 1 /\ q \in Nat
      BY <1>2, <1>4
    <3> HIDE DEF c, q, e, k
    <3> QED
      BY <3>1, <3>2
  <2> HIDE DEF c, h, f, q, m
  <2> QED
    BY <2>1, <2>2, <2>3
<1>9. h = [i \in DOMAIN f |-> h[i]]
  <2>1. DOMAIN f = DOMAIN a
    BY DEF Floored
  <2> QED
    BY <2>1 DEF HandedOut
<1> HIDE DEF L, c, f, h, q, m, r
<1>10. Scaled(h, f) /\ \A i \in 1..n : h[i].count = c[i]
  <2>1. Counts(h, f, c)
    BY <1>3, <1>8, <1>9 DEF Counts
  <2> HIDE DEF n
  <2> QED
    BY <1>3, <2>1, ScaledIs
<1>11. Scaled(h, a)
  BY <1>3, <1>10, ScaledTwice
<1>12. d \in [0..n -> Int] /\ d[0] = 0
  <2>1. ASSUME NEW i \in 0..n PROVE i * q + Cardinality((1..i) \cap L) \in Int
    <3>1. i \in Nat
      BY <1>0
    <3>2. Cardinality((1..i) \cap L) \in Nat
      BY <3>1, CountedOn
    <3> QED
      BY <1>2, <3>1, <3>2
  <2>2. (1..0) \cap L = {} /\ Cardinality({}) = 0
    BY FS_EmptySet
  <2>3. 0 \in 0..n /\ 0 * q = 0
    BY <1>0, <1>2
  <2> HIDE DEF n
  <2> QED
    BY <2>1, <2>2, <2>3
<1>13. ASSUME NEW i \in 1..n PROVE h[i].count = f[i].count + d[i] - d[i - 1]
  <2>1. i - 1 \in Nat /\ (i - 1) + 1 = i /\ i \in 0..n /\ i - 1 \in 0..n
    BY <1>0
  <2> DEFINE x == Cardinality((1..i - 1) \cap L)
             y == Cardinality((1..i) \cap L)
             e == IF i \in L THEN 1 ELSE 0
  <2>2. x \in Nat /\ y = x + e
    <3> DEFINE k == i - 1
    <3>1. k \in Nat /\ k + 1 = i
      BY <2>1
    <3> HIDE DEF k
    <3>2. Cardinality((1..k) \cap L) \in Nat
          /\ Cardinality((1..k + 1) \cap L) = Cardinality((1..k) \cap L) + IF k + 1 \in L THEN 1 ELSE 0
      BY <3>1, CountedOn
    <3>3. Cardinality((1..i) \cap L) = Cardinality((1..k) \cap L) + IF i \in L THEN 1 ELSE 0
      BY <3>1, <3>2
    <3> QED
      BY <3>2, <3>3 DEF k
  <2>3. d[i] = i * q + y /\ d[i - 1] = (i - 1) * q + x
    BY <2>1
  <2>4. h[i].count = f[i].count + q + e
    BY <1>10 DEF c
  <2>5. e \in Nat /\ f[i].count \in Nat /\ i * q \in Int /\ (i - 1) * q = i * q - q
    BY <1>2, <1>4, <2>1
  <2> HIDE DEF d, x, y, e
  <2> QED
    BY <1>2, <2>2, <2>3, <2>4, <2>5
<1>14. d[n] = left
  <2>1. (1..n) \cap L = L
    BY DEF L
  <2>2. n \in 0..n
    BY <1>0
  <2> HIDE DEF n
  <2>3. d[n] = (n * q) + Cardinality((1..n) \cap L)
    BY <2>2
  <2> QED
    BY <1>2, <1>7, <2>1, <2>3
<1>15. Counted(f) /\ Counted(h) /\ Len(h) = n
  BY <1>3, <1>10, GroupsCounted DEF Scaled
<1> HIDE DEF d, n
<1>16. Sum(h) = Sum(f) + d[n]
  BY <1>3, <1>12, <1>13, <1>15, SumDrift
<1> QED
  BY <1>11, <1>14, <1>16 DEF h, f

\* Scaling keeps the tiers and meets the size, or their number if there are more.
LEMMA ScaleIs ==
    ASSUME NEW a \in Seq(Groups), NEW asked \in Nat
    PROVE  /\ Scaled(ScaleToTarget(a, asked), a)
           /\ asked # 0 /\ a # <<>> =>
                Sum(ScaleToTarget(a, asked)) = IF asked < Len(a) THEN Len(a) ELSE asked
           /\ asked = 0 => ScaleToTarget(a, asked) = a
<1> DEFINE target == IF asked < Len(a) THEN Len(a) ELSE asked
           f == Floored(a, target)
           left == target - Sum(f)
           s == ScaleToTarget(a, asked)
<1>0. /\ Len(a) \in Nat /\ Sum(a) \in Nat /\ Sum(a) >= Len(a) /\ (a # <<>> => Len(a) >= 1)
      /\ target \in Nat /\ target >= Len(a)
  BY GroupsCounted, SumNat, SumLength DEF Counted
<1>1. CASE asked = 0 \/ Sum(a) = 0 \/ asked = Sum(a)
  <2>1. s = a
    BY <1>1 DEF ScaleToTarget
  <2>2. asked # 0 /\ a # <<>> => Sum(a) = target
    BY <1>0, <1>1
  <2> QED
    BY <2>1, <2>2, ScaledSelf
<1>2. CASE ~(asked = 0 \/ Sum(a) = 0 \/ asked = Sum(a))
  <2>0. s = IF left >= 0 THEN HandedOut(a, target, left) ELSE Trimmed(f, -left)
    BY <1>2 DEF ScaleToTarget
  <2> HIDE DEF target
  <2>1. Sum(a) >= 1
    BY <1>0, <1>2
  <2>2. Scaled(f, a)
    BY <1>0, <2>1, FlooredIs
  <2> HIDE DEF f
  <2>3. f \in Seq(Groups) /\ Len(f) = Len(a) /\ Sum(f) \in Nat
    BY <2>2, GroupsCounted, SumNat DEF Scaled
  <2>4. CASE left >= 0
    <3>1. left \in Nat /\ Sum(f) + left = target
      BY <1>0, <2>3, <2>4
    <3> HIDE DEF left
    <3>2. Scaled(HandedOut(a, target, left), a) /\ Sum(HandedOut(a, target, left)) = Sum(f) + left
      BY <1>0, <2>1, <3>1, HandedOutIs DEF f
    <3>3. s = HandedOut(a, target, left)
      BY <2>0, <2>4
    <3> QED
      BY <1>2, <3>1, <3>2, <3>3 DEF target
  <2>5. CASE ~(left >= 0)
    <3>1. -left \in Nat /\ Sum(f) - (-left) = target
      BY <1>0, <2>3, <2>5
    <3>2. s = Trimmed(f, -left)
      BY <2>0, <2>5
    <3> DEFINE k == -left
    <3> HIDE DEF left, k
    <3>3. /\ Scaled(Trimmed(f, k), f)
          /\ Sum(f) - k >= Len(f) => Sum(Trimmed(f, k)) = Sum(f) - k
      BY <2>3, <3>1, TrimmedIs DEF k
    <3>4. Sum(Trimmed(f, k)) = target
      BY <1>0, <2>3, <3>1, <3>3 DEF k
    <3>5. Scaled(Trimmed(f, k), a)
      BY <2>2, <3>3, ScaledTwice
    <3> QED
      BY <1>2, <3>2, <3>4, <3>5 DEF target, k
  <2> QED
    BY <2>4, <2>5
<1> QED
  BY <1>1, <1>2


-----------------------------------------------------------------------------
(* What the keyword reader makes of a text. *)

\* What TextsAssumption says of a clause and of a text.
IsClause(c) == c.numbers \in Seq(Int) /\ c.word \in Nat

IsText(text) == text \in Seq(ToSet(text)) /\ \A c \in ToSet(text) : IsClause(c)

\* What a clause names are services.
LEMMA NamedIs ==
    ASSUME NEW clause
    PROVE  Named(clause) \in Seq(STRING)
<1> DEFINE S == {c \in ToSet(Collectors) : c.length >= 4 /\ c.id \in clause.names}
           hits == Only(Collectors, S)
<1>1. hits \in Seq(ToSet(Collectors)) /\ \A i \in 1..Len(hits) : hits[i] \in ToSet(Collectors)
  <2> HIDE DEF S
  <2> QED
    BY CollectorsAssumption, OnlyIs
<1>2. \A c \in ToSet(Collectors) : c.id \in STRING
  BY CollectorsAssumption DEF ToSet
<1>3. Named(clause) = [i \in DOMAIN hits |-> hits[i].id]
  BY DEF Named
<1> HIDE DEF hits
<1> QED
  BY <1>1, <1>2, <1>3

\* A clause is for one node at least.
LEMMA CountIs ==
    ASSUME NEW clause, IsClause(clause)
    PROVE  Count(clause) \in Nat /\ Count(clause) >= 1
<1> DEFINE fit == Only(clause.numbers, 1..MaxTier)
<1>1. fit \in Seq(Int) /\ \A i \in 1..Len(fit) : fit[i] \in 1..MaxTier
  BY OnlyIs DEF IsClause
<1>2. Count(clause) = IF fit # <<>> THEN fit[1] ELSE IF clause.word # 0 THEN clause.word ELSE 1
  BY DEF Count
<1> HIDE DEF fit
<1>3. fit # <<>> => 1 \in 1..Len(fit)
  BY <1>1
<1>4. fit # <<>> => fit[1] \in 1..MaxTier
  BY <1>1, <1>3
<1> QED
  BY <1>2, <1>4, TierAssumption DEF IsClause

\* A group that the reader makes is one.
LEMMA GroupMade ==
    ASSUME NEW n \in Nat, n >= 1, NEW role \in RoleNames, NEW services \in Seq(STRING)
    PROVE  Group(n, role, services) \in Groups
  BY NoLabelsMaps DEF Group, Groups

\* A row of the role table.
LEMMA TableIs ==
    ASSUME NEW def \in ToSet(Roles)
    PROVE  def.role \in RoleNames /\ def.services \in Seq(STRING)
<1>1. PICK i \in DOMAIN Roles : def = Roles[i]
  BY DEF ToSet
<1> QED
  BY <1>1, RolesAssumption DEF RoleNames

\* The general role is in the table.
LEMMA WebIs == "web" \in RoleNames
  BY RolesAssumption DEF RoleNames

\* The best roles are of the table, and there is one for software that is named.
LEMMA BestIs ==
    ASSUME NEW clause
    PROVE  Best(clause) \subseteq ToSet(Roles) /\ (Named(clause) # <<>> => Best(clause) # {})
<1> DEFINE best == {i \in DOMAIN Roles : Longest(Roles[i], clause) > 0 /\
                       \A j \in DOMAIN Roles : Longest(Roles[j], clause) <= Longest(Roles[i], clause)}
           at == CHOOSE i \in best : \A j \in best : i <= j
<1>1. Best(clause) = IF best # {} THEN {Roles[at]} ELSE IF Named(clause) # <<>> THEN {RoleOf("web")} ELSE {}
  BY DEF Best
<1>2. best \subseteq DOMAIN Roles /\ DOMAIN Roles \subseteq Nat
  BY RolesAssumption
<1> HIDE DEF best
<1>3. best # {} => at \in best
  BY <1>2, NatLeast
<1>4. best # {} => Roles[at] \in ToSet(Roles)
  BY <1>2, <1>3 DEF ToSet
<1>5. RoleOf("web") \in ToSet(Roles)
  BY WebIs, RoleIs
<1> HIDE DEF at
<1> QED
  BY <1>1, <1>4, <1>5

\* The group of a clause has its count and, when it names software, that.
LEMMA MatchIs ==
    ASSUME NEW clause, IsClause(clause)
    PROVE  /\ MatchClause(clause) \subseteq Groups
           /\ \A g \in MatchClause(clause) :
                 g.count = Count(clause) /\ (Named(clause) # <<>> => g.services = Named(clause))
           /\ Named(clause) # <<>> => MatchClause(clause) # {}
<1>1. Best(clause) \subseteq ToSet(Roles) /\ (Named(clause) # <<>> => Best(clause) # {})
  BY BestIs
<1>2. Named(clause) \in Seq(STRING) /\ Count(clause) \in Nat /\ Count(clause) >= 1
  BY NamedIs, CountIs
<1> DEFINE Of(def) == Group(Count(clause), def.role, IF Named(clause) = <<>> THEN def.services ELSE Named(clause))
<1>3. \A def \in Best(clause) : Of(def) \in Groups
  <2> TAKE def \in Best(clause)
  <2>1. def.role \in RoleNames /\ def.services \in Seq(STRING)
    BY <1>1, TableIs
  <2> QED
    BY <1>2, <2>1, GroupMade
<1>4. \A def \in Best(clause) : Of(def).count = Count(clause)
        /\ (Named(clause) # <<>> => Of(def).services = Named(clause))
  BY DEF Group
<1>5. MatchClause(clause) = {Of(def) : def \in Best(clause)}
  BY DEF MatchClause
<1> HIDE DEF Of
<1> QED
  BY <1>1, <1>3, <1>4, <1>5

\* The groups that the clauses describe, before tiers are merged.
Heard(text) == [i \in DOMAIN Spoken(text) |-> CHOOSE g \in MatchClause(Spoken(text)[i]) : TRUE]

\* There is a group for each clause that describes one, and each clause that names software does.
LEMMA HeardIs ==
    ASSUME NEW text, IsText(text)
    PROVE  /\ Heard(text) \in Seq(Groups) /\ Len(Heard(text)) = Len(Spoken(text))
           /\ Spoken(text) \in Seq(ToSet(text))
           /\ \A i \in 1..Len(Spoken(text)) : Heard(text)[i].count = Count(Spoken(text)[i])
           /\ \A i \in DOMAIN text : Named(text[i]) # <<>> =>
                 \E j \in 1..Len(Heard(text)) : Heard(text)[j].services = Named(text[i])
<1> DEFINE S == {c \in ToSet(text) : MatchClause(c) # {}}
           h == Spoken(text)
           g == Heard(text)
<1>1. h \in Seq(ToSet(text)) /\ ToSet(h) = ToSet(text) \cap S
      /\ \A i \in 1..Len(h) : h[i] \in S
  <2>1. h = Only(text, S)
    BY DEF Spoken
  <2> HIDE DEF S, h
  <2> QED
    BY <2>1, OnlyIs DEF IsText
<1>2. \A i \in 1..Len(h) : IsClause(h[i]) /\ MatchClause(h[i]) # {}
  BY <1>1 DEF IsText
<1>3. DOMAIN h = 1..Len(h) /\ Len(h) \in Nat
  <2> HIDE DEF h
  <2> QED
    BY <1>1
<1>4. g = [i \in 1..Len(h) |-> CHOOSE x \in MatchClause(h[i]) : TRUE]
  BY <1>3 DEF Heard
<1>5. \A i \in 1..Len(h) : g[i] \in MatchClause(h[i])
  BY <1>2, <1>4
<1> HIDE DEF g, h
<1>6. \A i \in 1..Len(h) : g[i] \in Groups /\ g[i].count = Count(h[i])
        /\ (Named(h[i]) # <<>> => g[i].services = Named(h[i]))
  BY <1>2, <1>5, MatchIs
<1>7. g \in Seq(Groups) /\ Len(g) = Len(h)
  BY <1>3, <1>4, <1>6
<1>8. ASSUME NEW i \in DOMAIN text, Named(text[i]) # <<>>
      PROVE  \E j \in 1..Len(g) : g[j].services = Named(text[i])
  <2>1. text[i] \in ToSet(text) /\ IsClause(text[i])
    BY DEF ToSet, IsText
  <2>2. text[i] \in S
    BY <1>8, <2>1, MatchIs
  <2>3. text[i] \in ToSet(h)
    BY <1>1, <2>1, <2>2
  <2>4. PICK j \in 1..Len(h) : h[j] = text[i]
    BY <1>3, <2>3 DEF ToSet
  <2> QED
    BY <1>6, <1>7, <1>8, <2>4
<1> QED
  BY <1>1, <1>6, <1>7, <1>8 DEF g, h

\* Its groups have the counts of the clauses and the software they name.
LEMMA ParseIs ==
    ASSUME NEW text, IsText(text)
    PROVE  /\ ParseWithServices(text) \in Seq(Groups)
           /\ Sum(ParseWithServices(text)) =
                Sum([i \in DOMAIN Spoken(text) |-> [count |-> Count(Spoken(text)[i])]])
           /\ \A i \in DOMAIN text : \A id \in ToSet(Named(text[i])) :
                 \E g \in ToSet(ParseWithServices(text)) : id \in ToSet(g.services)
<1> DEFINE p == ParseWithServices(text)
           h == Heard(text)
           s == Spoken(text)
           c == [i \in DOMAIN s |-> [count |-> Count(s[i])]]
<1>1. p = Merged(h)
  BY DEF ParseWithServices, Heard
<1>2. /\ h \in Seq(Groups) /\ Len(h) = Len(s) /\ s \in Seq(ToSet(text))
      /\ \A i \in 1..Len(s) : h[i].count = Count(s[i])
      /\ \A i \in DOMAIN text : Named(text[i]) # <<>> => \E j \in 1..Len(h) : h[j].services = Named(text[i])
  BY HeardIs
<1> HIDE DEF p, h, s
<1>3. /\ p \in Seq(Groups) /\ Sum(p) = Sum(h)
      /\ \A j \in 1..Len(h) : \E k \in 1..Len(p) : Stands(p[k], h[j])
  BY <1>1, <1>2, MergedKeeps
<1>4. Sum(h) = Sum(c)
  <2>1. DOMAIN s = 1..Len(s) /\ Len(s) \in Nat
    BY <1>2
  <2>2. c = [i \in 1..Len(s) |-> [count |-> Count(s[i])]]
    BY <2>1
  <2>3. Len(c) = Len(h) /\ \A i \in 1..Len(h) : c[i].count = h[i].count
    BY <1>2, <2>1, <2>2
  <2>4. Counted(h)
    BY <1>2, GroupsCounted
  <2> HIDE DEF c
  <2>5. Counted(c)
    BY <2>3, <2>4 DEF Counted
  <2> QED
    BY <2>3, <2>4, <2>5, SumSame
<1>5. ASSUME NEW i \in DOMAIN text, NEW id \in ToSet(Named(text[i]))
      PROVE  \E g \in ToSet(p) : id \in ToSet(g.services)
  <2>1. Named(text[i]) # <<>>
    BY NamedIs DEF ToSet
  <2>2. PICK j \in 1..Len(h) : h[j].services = Named(text[i])
    BY <1>2, <2>1
  <2>3. PICK k \in 1..Len(p) : Stands(p[k], h[j])
    BY <1>3
  <2>4. p[k].services = Named(text[i])
    BY <2>2, <2>3 DEF Stands
  <2>5. p[k] \in ToSet(p)
    BY <1>3 DEF ToSet
  <2> QED
    BY <2>4, <2>5
<1> QED
  BY <1>3, <1>4, <1>5 DEF p, s

-----------------------------------------------------------------------------
(* What is kept of a model's plan. *)

\* What RepliesAssumption says of a reply.
IsTextMap(m) == DOMAIN m \subseteq STRING /\ m \in [DOMAIN m -> STRING]

IsPlanned(g) ==
    g.count \in Int /\ g.services \in Seq(STRING) /\ g.slug \in Seq(Parts) /\ IsTextMap(g.labels)

IsPlan(plan) == plan \in Seq(ToSet(plan)) /\ \A g \in ToSet(plan) : IsPlanned(g)

\* The labels that are kept may be written.
LEMMA LabelMapIs ==
    ASSUME NEW labels, IsTextMap(labels)
    PROVE  LabelMap(labels) \in Maps
<1> DEFINE S == {k \in DOMAIN labels : ValidPair(k, labels[k])}
           m == LabelMap(labels)
<1>1. m = [k \in S |-> labels[k]]
  BY DEF LabelMap
<1>2. \A k \in S : k \in STRING /\ labels[k] \in STRING /\ ValidPair(k, labels[k])
  BY DEF IsTextMap
<1> HIDE DEF S, m
<1>3. DOMAIN m = S /\ m \in [S -> STRING] /\ ValidLabels(m) /\ S \subseteq STRING
  BY <1>1, <1>2 DEF ValidLabels
<1>4. m \in Maps
  BY <1>3, MapsAre
<1> QED
  BY <1>4 DEF m

\* The services that are kept are services.
LEMMA KeptIs ==
    ASSUME NEW g, g.services \in Seq(STRING), g.role \in RoleNames
    PROVE  Kept(g) \in Seq(STRING)
<1>1. Only(g.services, Known) \in Seq(STRING)
  BY OnlyIs
<1>2. Only(RoleOf(g.role).services, Known) \in Seq(STRING)
  <2>1. RoleOf(g.role).services \in Seq(STRING)
    BY RoleIs
  <2> QED
    BY <2>1, OnlyIs
<1> QED
  BY <1>1, <1>2 DEF Kept

\* A clamped count is at least one node.
LEMMA ClampedIs ==
    ASSUME NEW n \in Int
    PROVE  Clamped(n) \in Nat /\ Clamped(n) >= 1
  BY TierAssumption DEF Clamped

\* A group of a plan as it is kept.
Cleaned(g) ==
    [Group(Clamped(g.count), g.role, Kept(g)) EXCEPT !.slug = g.slug, !.labels = LabelMap(g.labels)]

\* What is kept of a planned group is a group.
LEMMA CleanedIs ==
    ASSUME NEW g, IsPlanned(g), g.role \in RoleNames
    PROVE  Cleaned(g) \in Groups
<1>1. Clamped(g.count) \in Nat /\ Clamped(g.count) >= 1 /\ Kept(g) \in Seq(STRING) /\ LabelMap(g.labels) \in Maps
  BY ClampedIs, KeptIs, LabelMapIs DEF IsPlanned
<1>2. Cleaned(g) = [count |-> Clamped(g.count), role |-> g.role, services |-> Kept(g),
                    slug |-> g.slug, labels |-> LabelMap(g.labels), site |-> 0]
  <2> DEFINE n == Clamped(g.count)
             k == Kept(g)
             l == LabelMap(g.labels)
  <2>1. Cleaned(g) = [Group(n, g.role, k) EXCEPT !.slug = g.slug, !.labels = l]
    BY DEF Cleaned
  <2> HIDE DEF n, k, l
  <2>2. Cleaned(g) = [count |-> n, role |-> g.role, services |-> k,
                      slug |-> g.slug, labels |-> l, site |-> 0]
    BY <2>1 DEF Group
  <2> QED
    BY <2>2 DEF n, k, l
<1> QED
  BY <1>1, <1>2 DEF Groups, IsPlanned

\* What is kept of a plan are groups with names of their own.
LEMMA ValidatedIs ==
    ASSUME NEW plan, IsPlan(plan)
    PROVE  Validated(plan) \in Seq(Groups) /\ Distinct(Validated(plan))
<1> DEFINE S == {g \in ToSet(plan) : g.role \in RoleNames}
           fit == Only(plan, S)
           c == [i \in DOMAIN fit |-> Cleaned(fit[i])]
<1>1. fit \in Seq(ToSet(plan)) /\ \A i \in 1..Len(fit) : fit[i] \in S
  <2> HIDE DEF S
  <2> QED
    BY OnlyIs DEF IsPlan
<1>2. \A i \in 1..Len(fit) : IsPlanned(fit[i]) /\ fit[i].role \in RoleNames
  BY <1>1 DEF IsPlan
<1>3. Validated(plan) = Dedupe(c)
  BY DEF Validated, Cleaned
<1> HIDE DEF fit
<1>4. DOMAIN fit = 1..Len(fit) /\ Len(fit) \in Nat
  BY <1>1
<1>5. c \in Seq(Groups)
  BY <1>2, <1>4, CleanedIs
<1> HIDE DEF c
<1> QED
  BY <1>3, <1>5, DedupeKeeps

\* Software that the model calls unsupported and a group has is on one afterwards.
LEMMA ReinstatedIs ==
    ASSUME NEW groups \in Seq(Groups), NEW unsupported, NEW text, IsText(text), Distinct(groups)
    PROVE  /\ Reinstated(groups, unsupported, text) \in Seq(Groups)
           /\ Distinct(Reinstated(groups, unsupported, text))
           /\ \A g \in ToSet(ParseWithServices(text)) : \A id \in ToSet(g.services) :
                 id \in UNION unsupported =>
                    \E r \in ToSet(Reinstated(groups, unsupported, text)) : id \in ToSet(r.services)
<1> DEFINE placed == UNION {ToSet(groups[i].services) : i \in DOMAIN groups}
           p == ParseWithServices(text)
           lost == Lost(p, placed, unsupported)
           back == Only(lost, {g \in ToSet(lost) : g.services # <<>>})
           r == Reinstated(groups, unsupported, text)
<1>1. r = IF back = <<>> THEN groups ELSE Dedupe(groups \o back)
  BY DEF Reinstated, Joining, Equipped
<1>2. p \in Seq(Groups)
  BY ParseIs
<1>3. lost = [i \in DOMAIN p |-> [p[i] EXCEPT !.services = Missing(p[i], placed, unsupported)]]
  BY DEF Lost
<1> DEFINE T == (UNION unsupported) \ placed
<1>4. \A g \in Groups : Missing(g, placed, unsupported) \in Seq(STRING)
        /\ ToSet(Missing(g, placed, unsupported)) = ToSet(g.services) \cap T
  <2> TAKE g \in Groups
  <2>1. Missing(g, placed, unsupported) = Only(g.services, T)
    BY DEF Missing
  <2>2. g.services \in Seq(STRING)
    BY GroupIs
  <2> DEFINE s == g.services
  <2> HIDE DEF T, s
  <2>3. Only(s, T) \in Seq(STRING) /\ ToSet(Only(s, T)) = ToSet(s) \cap T
    BY <2>2, OnlyIs DEF s
  <2> QED
    BY <2>1, <2>3 DEF s
<1> HIDE DEF placed, p, lost, r
<1>5. DOMAIN p = 1..Len(p) /\ Len(p) \in Nat /\ \A i \in 1..Len(p) : p[i] \in Groups
  BY <1>2
<1>6. \A i \in 1..Len(p) : lost[i] \in Groups /\ ToSet(lost[i].services) = ToSet(p[i].services) \cap T
  <2> TAKE i \in 1..Len(p)
  <2> DEFINE m == Missing(p[i], placed, unsupported)
  <2>1. m \in Seq(STRING) /\ ToSet(m) = ToSet(p[i].services) \cap T /\ p[i] \in Groups
    BY <1>4, <1>5
  <2>2. lost[i] = [p[i] EXCEPT !.services = m]
    BY <1>3, <1>5
  <2> HIDE DEF m, T
  <2>3. lost[i] \in Groups /\ lost[i].services = m
    BY <2>1, <2>2 DEF Groups
  <2> QED
    BY <2>1, <2>3
<1>7. lost \in Seq(Groups) /\ Len(lost) = Len(p)
  <2>1. lost = [i \in 1..Len(p) |-> lost[i]]
    BY <1>3, <1>5
  <2> QED
    BY <1>5, <1>6, <2>1
<1>8. back \in Seq(Groups) /\ ToSet(back) = {g \in ToSet(lost) : g.services # <<>>}
  <2> DEFINE B == {g \in ToSet(lost) : g.services # <<>>}
  <2>1. B \subseteq ToSet(lost)
    OBVIOUS
  <2> HIDE DEF B
  <2>2. back \in Seq(Groups) /\ ToSet(back) = ToSet(lost) \cap B
    BY <1>7, OnlyIs DEF B
  <2> QED
    BY <2>1, <2>2 DEF B
<1> HIDE DEF back
<1>9. r \in Seq(Groups) /\ Distinct(r)
  <2>1. groups \o back \in Seq(Groups)
    BY <1>8
  <2> QED
    BY <1>1, <2>1, DedupeKeeps
<1>10. \A g \in ToSet(groups) \cup ToSet(back) : \E x \in ToSet(r) : x.services = g.services
  <2>1. CASE back = <<>>
    <3>1. r = groups /\ ToSet(back) = {}
      BY <1>1, <2>1 DEF ToSet
    <3> QED
      BY <3>1
  <2>2. CASE back # <<>>
    <3> DEFINE j == groups \o back
    <3>1. r = Dedupe(j) /\ j \in Seq(Groups)
      BY <1>1, <1>8, <2>2
    <3>2. ToSet(j) = ToSet(groups) \cup ToSet(back)
      <4>1. DOMAIN groups = 1..Len(groups) /\ DOMAIN back = 1..Len(back)
            /\ DOMAIN j = 1..Len(groups) + Len(back) /\ Len(groups) \in Nat /\ Len(back) \in Nat
        BY <1>8
      <4>2. \A i \in 1..Len(groups) : j[i] = groups[i]
        BY <1>8, <4>1
      <4>3. \A i \in 1..Len(back) : j[Len(groups) + i] = back[i]
        BY <1>8, <4>1
      <4>4. \A i \in Len(groups) + 1..Len(groups) + Len(back) : j[i] = back[i - Len(groups)]
        BY <1>8, <4>1
      <4> HIDE DEF j
      <4>5. \A x \in ToSet(j) : x \in ToSet(groups) \cup ToSet(back)
        <5> TAKE x \in ToSet(j)
        <5>1. PICK i \in 1..Len(groups) + Len(back) : x = j[i]
          BY <4>1 DEF ToSet
        <5>2. CASE i <= Len(groups)
          <6>1. i \in 1..Len(groups)
            BY <4>1, <5>2
          <6> QED
            BY <4>1, <4>2, <5>1, <6>1 DEF ToSet
        <5>3. CASE ~(i <= Len(groups))
          <6>1. i \in Len(groups) + 1..Len(groups) + Len(back) /\ i - Len(groups) \in 1..Len(back)
            BY <4>1, <5>3
          <6> QED
            BY <4>1, <4>4, <5>1, <6>1 DEF ToSet
        <5> QED
          BY <5>2, <5>3
      <4>6. \A x \in ToSet(groups) : x \in ToSet(j)
        <5> TAKE x \in ToSet(groups)
        <5>1. PICK i \in 1..Len(groups) : x = groups[i]
          BY <4>1 DEF ToSet
        <5>2. i \in DOMAIN j
          BY <4>1
        <5> QED
          BY <4>2, <5>1, <5>2 DEF ToSet
      <4>7. \A x \in ToSet(back) : x \in ToSet(j)
        <5> TAKE x \in ToSet(back)
        <5>1. PICK i \in 1..Len(back) : x = back[i]
          BY <4>1 DEF ToSet
        <5>2. Len(groups) + i \in DOMAIN j
          BY <4>1
        <5> QED
          BY <4>3, <5>1, <5>2 DEF ToSet
      <4> QED
        BY <4>5, <4>6, <4>7
    <3> HIDE DEF j
    <3>3. \A i \in 1..Len(j) : \E k \in 1..Len(r) : Stands(r[k], j[i])
      BY <3>1, DedupeKeeps
    <3> SUFFICES ASSUME NEW g \in ToSet(j) PROVE \E x \in ToSet(r) : x.services = g.services
      BY <3>2
    <3>4. PICK i \in 1..Len(j) : j[i] = g
      BY <3>1 DEF ToSet
    <3>5. PICK k \in 1..Len(r) : Stands(r[k], j[i])
      BY <3>3
    <3>6. r[k] \in ToSet(r) /\ r[k].services = g.services
      BY <1>9, <3>4, <3>5 DEF Stands, ToSet
    <3> QED
      BY <3>6
  <2> QED
    BY <2>1, <2>2
<1>11. ASSUME NEW g \in ToSet(p), NEW id \in ToSet(g.services), id \in UNION unsupported
       PROVE  \E x \in ToSet(r) : id \in ToSet(x.services)
  <2>1. CASE id \in placed
    <3>1. PICK i \in DOMAIN groups : id \in ToSet(groups[i].services)
      BY <2>1 DEF placed
    <3>2. groups[i] \in ToSet(groups)
      BY DEF ToSet
    <3> QED
      BY <1>10, <3>1, <3>2
  <2>2. CASE id \notin placed
    <3>1. PICK i \in 1..Len(p) : g = p[i]
      BY <1>5 DEF ToSet
    <3>2. id \in ToSet(lost[i].services)
      <4>1. id \in T
        BY <1>11, <2>2
      <4> HIDE DEF T
      <4> QED
        BY <1>6, <3>1, <4>1
    <3>3. lost[i] \in ToSet(lost)
      BY <1>7 DEF ToSet
    <3>4. lost[i].services # <<>>
      BY <3>2 DEF ToSet
    <3> QED
      BY <1>8, <1>10, <3>2, <3>3, <3>4
  <2> QED
    BY <2>1, <2>2
<1> QED
  BY <1>9, <1>11 DEF p, r

-----------------------------------------------------------------------------
(* Readings. *)

\* The texts are texts.
LEMMA TextIs ==
    ASSUME NEW text \in Texts
    PROVE  IsText(text)
  BY TextsAssumption DEF IsText, IsClause

\* A reply that is none of the keyword reader's is a plan with labels.
LEMMA ReplyIs ==
    ASSUME NEW by \in Readers, by # Keywords
    PROVE  IsPlan(by.groups) /\ IsTextMap(by.labels)
  BY RepliesAssumption DEF Readers, IsPlan, IsPlanned, IsTextMap

\* The groups read from a text, and what of its software is on them.
LEMMA ReadIs ==
    ASSUME NEW text \in Texts, NEW by \in Readers
    PROVE  /\ GroupsRead(text, by) \in Seq(Groups)
           /\ by # Keywords => Distinct(GroupsRead(text, by))
           /\ by = Keywords => Sum(GroupsRead(text, by)) =
                Sum([i \in DOMAIN Spoken(text) |-> [count |-> Count(Spoken(text)[i])]])
           /\ \A i \in DOMAIN text : \A id \in ToSet(Named(text[i])) :
                 (by = Keywords \/ id \in UNION by.unsupported) =>
                    \E g \in ToSet(GroupsRead(text, by)) : id \in ToSet(g.services)
<1>1. IsText(text)
  BY TextIs
<1>2. CASE by = Keywords
  <2>1. GroupsRead(text, by) = ParseWithServices(text)
    BY <1>2 DEF GroupsRead
  <2> QED
    BY <1>1, <1>2, <2>1, ParseIs
<1>3. CASE by # Keywords
  <2> DEFINE v == Validated(by.groups)
  <2>1. GroupsRead(text, by) = Reinstated(v, by.unsupported, text)
    BY <1>3 DEF GroupsRead
  <2>2. v \in Seq(Groups) /\ Distinct(v)
    BY <1>3, ReplyIs, ValidatedIs
  <2> HIDE DEF v
  <2>3. /\ GroupsRead(text, by) \in Seq(Groups) /\ Distinct(GroupsRead(text, by))
        /\ \A g \in ToSet(ParseWithServices(text)) : \A id \in ToSet(g.services) :
              id \in UNION by.unsupported =>
                 \E r \in ToSet(GroupsRead(text, by)) : id \in ToSet(r.services)
    BY <1>1, <2>1, <2>2, ReinstatedIs
  <2>4. \A i \in DOMAIN text : \A id \in ToSet(Named(text[i])) :
           \E g \in ToSet(ParseWithServices(text)) : id \in ToSet(g.services)
    BY <1>1, ParseIs
  <2> QED
    BY <1>3, <2>3, <2>4
<1> QED
  BY <1>2, <1>3

\* What Offered says of one reading.
Fair(o) ==
    LET groups == ToSet(o.groups)
        tiers  == Len(o.groups)
        heard  == Spoken(o.text)
    IN  /\ \A g \in groups : g.count >= 1
        /\ (o.target # 0 /\ groups # {}) =>
            Sum(o.groups) = IF o.target < tiers THEN tiers ELSE o.target
        /\ (o.by = Keywords /\ o.target = 0) =>
            Sum(o.groups) = Sum([i \in DOMAIN heard |-> [count |-> Count(heard[i])]])
        /\ \A i \in DOMAIN o.text : \A id \in ToSet(Named(o.text[i])) :
            (o.by = Keywords \/ id \in UNION o.by.unsupported) =>
                \E g \in groups : id \in ToSet(g.services)

\* What is proposed are groups, with names of their own when a model made them, and it is fair.
LEMMA ProposedIs ==
    ASSUME NEW text \in Texts, NEW by \in Readers, NEW target \in Targets
    PROVE  /\ Proposed(text, by, target).groups \in Seq(Groups)
           /\ by # Keywords => Distinct(Proposed(text, by, target).groups)
           /\ Fair(Proposed(text, by, target))
<1> DEFINE o == Proposed(text, by, target)
           a == GroupsRead(text, by)
           heard == [i \in DOMAIN Spoken(text) |-> [count |-> Count(Spoken(text)[i])]]
<1>1. o.text = text /\ o.by = by /\ o.target = target /\ o.groups = ScaleToTarget(a, target)
  BY DEF Proposed
<1>2. /\ a \in Seq(Groups) /\ (by # Keywords => Distinct(a))
      /\ by = Keywords => Sum(a) = Sum(heard)
      /\ \A i \in DOMAIN text : \A id \in ToSet(Named(text[i])) :
            (by = Keywords \/ id \in UNION by.unsupported) =>
               \E g \in ToSet(a) : id \in ToSet(g.services)
  BY ReadIs
<1>3. target \in Nat
  BY NumbersAssumption
<1> DEFINE s == o.groups
<1> HIDE DEF a, heard
<1>4. /\ Scaled(s, a) /\ (target = 0 => s = a)
      /\ target # 0 /\ a # <<>> => Sum(s) = IF target < Len(a) THEN Len(a) ELSE target
  BY <1>1, <1>2, <1>3, ScaleIs
<1> HIDE DEF o
<1>5. s \in Seq(Groups) /\ Len(s) = Len(a) /\ (by # Keywords => Distinct(s))
  BY <1>2, <1>4, ScaledDistinct DEF Scaled
<1> HIDE DEF s
<1>6. \A g \in ToSet(s) : g.count >= 1
  BY <1>5, GroupsCounted DEF ToSet
<1>7. ASSUME target # 0, ToSet(s) # {}
      PROVE  Sum(s) = IF target < Len(s) THEN Len(s) ELSE target
  <2>1. a # <<>>
    BY <1>2, <1>5, <1>7 DEF ToSet
  <2> QED
    BY <1>4, <1>5, <1>7, <2>1
<1>8. \A g \in ToSet(a) : \E x \in ToSet(s) : x.services = g.services
  <2> TAKE g \in ToSet(a)
  <2>1. PICK i \in 1..Len(a) : a[i] = g
    BY <1>2 DEF ToSet
  <2>2. s[i] \in ToSet(s) /\ s[i].services = g.services
    BY <1>4, <1>5, <2>1 DEF Scaled, Resized, ToSet
  <2> QED
    BY <2>2
<1>9. \A i \in DOMAIN text : \A id \in ToSet(Named(text[i])) :
        (by = Keywords \/ id \in UNION by.unsupported) => \E x \in ToSet(s) : id \in ToSet(x.services)
  BY <1>2, <1>8
<1>10. (by = Keywords /\ target = 0) => Sum(s) = Sum(heard)
  BY <1>2, <1>4
<1>11. Fair(o)
  BY <1>1, <1>6, <1>7, <1>9, <1>10 DEF Fair, s, heard
<1> QED
  BY <1>5, <1>11 DEF s, o

\* The labels that come with a reading may be written.
LEMMA SuggestedIs ==
    ASSUME NEW by \in Readers
    PROVE  Suggested(by) \in Maps
<1>1. by # Keywords => LabelMap(by.labels) \in Maps
  BY ReplyIs, LabelMapIs
<1> QED
  BY <1>1, NoLabelsMaps DEF Suggested

-----------------------------------------------------------------------------
(* The states of the form, the directory and the authors. *)

TextMaps == UNION {[S -> STRING] : S \in SUBSET STRING}

FormRows ==
    [count : Nat, role : STRING, services : Seq(STRING), slug : {<<>>}, labels : TextMaps, site : Nat]

\* The form holds rows, and each file that is checked or written was rendered from what it was asked.
FleetTypes ==
    /\ form \in [rows : Seq(FormRows), labels : Maps, site : Nat]
    /\ \A a \in DOMAIN pending : WellMade(pending[a].path, pending[a].file)
    /\ \A p \in DOMAIN files : WellMade(p, files[p])

\* Labels of strings, in the two ways of saying it.
LEMMA TextMapsAre ==
    ASSUME NEW m
    PROVE  (m \in TextMaps) <=> IsTextMap(m)
<1>1. m \in TextMaps => IsTextMap(m)
  BY DEF TextMaps, IsTextMap
<1>2. IsTextMap(m) => m \in TextMaps
  BY DEF TextMaps, IsTextMap
<1> QED
  BY <1>1, <1>2

\* The rows that may be added are rows of the form.
LEMMA RowIs ==
    ASSUME NEW r \in Rows
    PROVE  r \in FormRows
<1>1. IsRow(r)
  BY RowsAssumption
<1>2. r.labels \in TextMaps
  BY <1>1, TextMapsAre DEF IsRow, IsTextMap
<1>3. r = [count |-> r.count, role |-> r.role, services |-> r.services,
           slug |-> <<>>, labels |-> r.labels, site |-> r.site]
  BY <1>1 DEF IsRow
<1> QED
  BY <1>1, <1>2, <1>3 DEF IsRow, FormRows

\* A group without its name is a row.
LEMMA GroupRow ==
    ASSUME NEW g \in Groups
    PROVE  [g EXCEPT !.slug = <<>>] \in FormRows
<1>1. RoleNames \subseteq STRING
  BY RolesAssumption DEF RoleNames
<1>2. g.labels \in TextMaps
  BY GroupIs, MapsHave, TextMapsAre DEF IsTextMap
<1> QED
  BY <1>1, <1>2 DEF Groups, FormRows

\* A row with a count, a role of the table and labels that may be written is a group.
LEMMA RowGroup ==
    ASSUME NEW r \in FormRows, r.count > 0, r.role \in RoleNames, ValidLabels(r.labels)
    PROVE  r \in Groups
<1>1. r.labels \in Maps
  <2>1. IsTextMap(r.labels)
    BY TextMapsAre DEF FormRows
  <2> QED
    BY <2>1, MapsAre DEF IsTextMap
<1>2. <<>> \in Seq(Parts)
  OBVIOUS
<1>3. /\ r.count \in Nat \ {0} /\ r.services \in Seq(STRING) /\ r.slug = <<>> /\ r.site \in Nat
      /\ r = [count |-> r.count, role |-> r.role, services |-> r.services,
              slug |-> r.slug, labels |-> r.labels, site |-> r.site]
  BY DEF FormRows
<1> QED
  BY <1>1, <1>2, <1>3 DEF Groups

\* What an accepted form asks for are groups.
LEMMA AskedIs ==
    ASSUME FleetTypes, Accepted
    PROVE  Asked \in Seq(Groups) /\ Asked # <<>> /\ form.labels \in Maps /\ form.site \in Nat
<1> DEFINE S == {r \in ToSet(form.rows) : r.count > 0}
           s == form.rows
<1>1. s \in Seq(FormRows) /\ form.labels \in Maps /\ form.site \in Nat
  BY DEF FleetTypes
<1>2. Asked \in Seq(FormRows) /\ \A i \in 1..Len(Asked) : Asked[i] \in S
  <2>1. Asked = Only(s, S)
    BY DEF Asked
  <2> HIDE DEF S, s
  <2> QED
    BY <1>1, <2>1, OnlyIs
<1> DEFINE a == Asked
<1>3. a # <<>> /\ \A i \in DOMAIN a : a[i].role \in RoleNames /\ ValidLabels(a[i].labels)
  BY DEF Accepted
<1> HIDE DEF a, s
<1>4. a \in Seq(FormRows) /\ \A i \in 1..Len(a) : a[i].count > 0
  BY <1>2 DEF a
<1>5. \A i \in 1..Len(a) : a[i] \in Groups
  BY <1>3, <1>4, RowGroup
<1>6. a \in Seq(Groups)
  BY <1>4, <1>5
<1> QED
  BY <1>1, <1>3, <1>6 DEF a

\* The readings that were computed once are the readings.
LEMMA OffersAre ==
    ASSUME NEW text \in Texts, NEW by \in Readers, NEW target \in Targets, Usable(by)
    PROVE  Offers[text][by][target] = Proposed(text, by, target)
<1> DEFINE S == {b \in Readers : Usable(b)}
<1>1. Offers = [t \in Texts |-> [b \in S |-> [n \in Targets |-> Proposed(t, b, n)]]]
  BY DEF Offers
<1>2. by \in S
  OBVIOUS
<1> HIDE DEF S
<1>3. Offers[text] = [b \in S |-> [n \in Targets |-> Proposed(text, b, n)]]
  BY <1>1
<1>4. Offers[text][by] = [n \in Targets |-> Proposed(text, by, n)]
  BY <1>2, <1>3
<1> QED
  BY <1>4

\* The environments that the console and the command line build.
LEMMA FormMade ==
    ASSUME NEW rows \in Seq(Groups), rows # <<>>, NEW labels \in Maps, NEW site \in Nat, NEW name \in Names
    PROVE  WellMade(name, Environment(FormGroups(rows, site), labels, site, name, rows, "form"))
  BY NamesAssumption DEF WellMade, Environment, GroupsOf

\* A file of the command line is well made.
LEMMA LineMade ==
    ASSUME NEW rows \in Seq(Groups), rows # <<>>, NEW labels \in Maps, NEW name, NEW by,
           by # "keywords" => Distinct(rows)
    PROVE  WellMade("out", Environment(rows, labels, 0, name, rows, by))
  BY DEF WellMade, Environment, GroupsOf

\* An author that has checked a file holds it, and the others what they held.
LEMMA CheckedIs ==
    ASSUME NEW author, NEW path, NEW file, Checked(author, path, file)
    PROVE  /\ DOMAIN pending' = DOMAIN pending \cup {author} /\ author \notin DOMAIN pending
           /\ pending'[author].path = path /\ pending'[author].file = file
           /\ \A a \in DOMAIN pending : pending'[a] = pending[a]
           /\ GuidUniqueness(file, path) /\ (Apart => DOMAIN pending = {})
<1> DEFINE one == [a \in {author} |-> [path |-> path, file |-> file]]
<1>1. DOMAIN one = {author} /\ one[author] = [path |-> path, file |-> file]
  OBVIOUS
<1>2. pending' = Layered(one, pending)
  BY DEF Checked
<1>3. author \notin DOMAIN pending /\ GuidUniqueness(file, path) /\ (Apart => DOMAIN pending = {})
  BY DEF Checked, Free
<1> HIDE DEF one
<1>4. DOMAIN pending' = DOMAIN one \cup DOMAIN pending /\ pending'[author] = one[author]
  BY <1>1, <1>2 DEF Layered
<1>5. \A a \in DOMAIN pending : pending'[a] = pending[a]
  BY <1>1, <1>2, <1>3 DEF Layered
<1> QED
  BY <1>1, <1>3, <1>4, <1>5

\* A written file is in the directory, and the others are as they were.
LEMMA WriteIs ==
    ASSUME NEW author, Write(author)
    PROVE  LET path == pending[author].path
           IN  /\ author \in DOMAIN pending /\ DOMAIN files' = DOMAIN files \cup {path}
               /\ files'[path] = pending[author].file
               /\ \A p \in DOMAIN files : p # path => files'[p] = files[p]
               /\ DOMAIN pending' = DOMAIN pending \ {author}
               /\ \A a \in DOMAIN pending' : pending'[a] = pending[a]
<1> DEFINE path == pending[author].path
           one == [p \in {path} |-> pending[author].file]
<1>1. DOMAIN one = {path} /\ one[path] = pending[author].file
  OBVIOUS
<1>2. files' = Layered(one, files) /\ author \in DOMAIN pending
      /\ pending' = [a \in DOMAIN pending \ {author} |-> pending[a]]
  BY DEF Write
<1> HIDE DEF one
<1>3. DOMAIN files' = DOMAIN one \cup DOMAIN files /\ files'[path] = one[path]
      /\ \A p \in DOMAIN files : p # path => files'[p] = files[p]
  BY <1>1, <1>2 DEF Layered
<1> QED
  BY <1>1, <1>2, <1>3

\* A description keeps the state in order.
LEMMA DescribeTypes ==
    ASSUME FleetTypes, NEW text \in Texts, NEW by \in Readers, NEW target \in Targets,
           Describe(text, by, target)
    PROVE  FleetTypes'
<1> DEFINE g == Proposed(text, by, target).groups
           rows == [i \in DOMAIN g |-> [g[i] EXCEPT !.slug = <<>>]]
<1>1. form' = [form EXCEPT !.rows = rows, !.labels = Suggested(by)] /\ UNCHANGED <<pending, files>>
  <2>1. Offers[text][by][target] = Proposed(text, by, target) /\ Proposed(text, by, target).by = by
    BY OffersAre DEF Describe, Proposed
  <2> QED
    BY <2>1 DEF Describe, Filled
<1>2. g \in Seq(Groups) /\ Suggested(by) \in Maps
  BY ProposedIs, SuggestedIs
<1> HIDE DEF g
<1>3. DOMAIN g = 1..Len(g) /\ Len(g) \in Nat /\ \A i \in 1..Len(g) : [g[i] EXCEPT !.slug = <<>>] \in FormRows
  BY <1>2, GroupRow
<1>4. rows \in Seq(FormRows)
  BY <1>3
<1> HIDE DEF rows
<1> QED
  BY <1>1, <1>2, <1>4 DEF FleetTypes

\* An edit keeps the state in order.
LEMMA EditTypes ==
    ASSUME FleetTypes, Edit
    PROVE  FleetTypes'
<1>0. form \in [rows : Seq(FormRows), labels : Maps, site : Nat] /\ UNCHANGED <<pending, files>>
  BY DEF FleetTypes, Edit
<1>1. CASE \E i \in DOMAIN form.rows, n \in {0, 1} :
              form' = [form EXCEPT !.rows[i].count = IF n = 0 THEN 0 ELSE @ + 1]
  <2>1. PICK i \in DOMAIN form.rows, n \in {0, 1} :
              form' = [form EXCEPT !.rows[i].count = IF n = 0 THEN 0 ELSE @ + 1]
    BY <1>1
  <2> DEFINE s == form.rows
             c == IF n = 0 THEN 0 ELSE s[i].count + 1
  <2>2. s \in Seq(FormRows) /\ form' = [form EXCEPT !.rows = [s EXCEPT ![i] = [s[i] EXCEPT !.count = c]]]
    BY <1>0, <2>1
  <2>3. s[i] \in FormRows
    BY <2>2
  <2>4. c \in Nat
    BY <2>3 DEF FormRows
  <2> HIDE DEF c
  <2>5. [s[i] EXCEPT !.count = c] \in FormRows
    BY <2>3, <2>4 DEF FormRows
  <2> DEFINE r == [s[i] EXCEPT !.count = c]
  <2> HIDE DEF r
  <2>6. [s EXCEPT ![i] = r] \in Seq(FormRows)
    BY <2>2, <2>5 DEF r
  <2> QED
    BY <1>0, <2>2, <2>6 DEF FleetTypes, r
<1>2. CASE \E row \in Rows : form' = [form EXCEPT !.rows = Append(@, row)]
  <2>1. PICK row \in Rows : form' = [form EXCEPT !.rows = Append(@, row)]
    BY <1>2
  <2>2. row \in FormRows
    BY RowIs
  <2> QED
    BY <1>0, <2>1, <2>2, SMTT(30) DEF FleetTypes
<1>3. CASE \E site \in Places \ {form.site} : form' = [form EXCEPT !.site = site]
  BY <1>0, <1>3, NumbersAssumption DEF FleetTypes
<1> QED
  BY <1>1, <1>2, <1>3 DEF Edit

\* A create keeps the state in order.
LEMMA BuildTypes ==
    ASSUME FleetTypes, NEW name \in Names, Build(name)
    PROVE  FleetTypes'
<1> DEFINE file == Environment(FormGroups(Asked, form.site), form.labels, form.site, name, Asked, "form")
<1>1. Accepted /\ Checked("console", name, file) /\ UNCHANGED <<form, files>>
  BY DEF Build
<1>2. WellMade(name, file)
  BY <1>1, AskedIs, FormMade
<1> HIDE DEF file
<1>3. \A a \in DOMAIN pending' : WellMade(pending'[a].path, pending'[a].file)
  <2>1. /\ DOMAIN pending' = DOMAIN pending \cup {"console"}
        /\ pending'["console"].path = name /\ pending'["console"].file = file
        /\ \A a \in DOMAIN pending : pending'[a] = pending[a]
    BY <1>1, CheckedIs
  <2> TAKE a \in DOMAIN pending'
  <2>2. CASE a = "console"
    BY <1>1, <1>2, <2>1, <2>2
  <2>3. CASE a # "console"
    <3>1. a \in DOMAIN pending /\ pending'[a] = pending[a]
      BY <2>1, <2>3
    <3> QED
      BY <3>1 DEF FleetTypes
  <2> QED
    BY <2>2, <2>3
<1> QED
  BY <1>1, <1>3 DEF FleetTypes

\* The command line keeps the state in order.
LEMMA DoDescribeTypes ==
    ASSUME FleetTypes, NEW text \in Texts, NEW by \in Readers, NEW target \in Targets, NEW name \in Names,
           DoDescribe(text, by, target, name)
    PROVE  FleetTypes'
<1> DEFINE g == Proposed(text, by, target).groups
           file == Environment(g, Suggested(by), 0, name, g, by.outcome)
<1>1. g # <<>> /\ Checked("cli", "out", file) /\ UNCHANGED <<form, files>>
  <2>1. Offers[text][by][target] = Proposed(text, by, target) /\ Proposed(text, by, target).by = by
    BY OffersAre DEF DoDescribe, Proposed
  <2> QED
    BY <2>1 DEF DoDescribe, Printed
<1>2. by.outcome # "keywords" => by # Keywords
  BY DEF Keywords
<1>3. WellMade("out", file)
  <2>1. g \in Seq(Groups) /\ (by # Keywords => Distinct(g)) /\ Suggested(by) \in Maps
    BY ProposedIs, SuggestedIs
  <2> HIDE DEF g
  <2> QED
    BY <1>1, <1>2, <2>1, LineMade
<1> HIDE DEF file
<1>4. \A a \in DOMAIN pending' : WellMade(pending'[a].path, pending'[a].file)
  <2>1. /\ DOMAIN pending' = DOMAIN pending \cup {"cli"}
        /\ pending'["cli"].path = "out" /\ pending'["cli"].file = file
        /\ \A a \in DOMAIN pending : pending'[a] = pending[a]
    BY <1>1, CheckedIs
  <2> TAKE a \in DOMAIN pending'
  <2>2. CASE a = "cli"
    BY <1>1, <1>3, <2>1, <2>2
  <2>3. CASE a # "cli"
    <3>1. a \in DOMAIN pending /\ pending'[a] = pending[a]
      BY <2>1, <2>3
    <3> QED
      BY <3>1 DEF FleetTypes
  <2> QED
    BY <2>2, <2>3
<1> QED
  BY <1>1, <1>4 DEF FleetTypes

\* A write keeps the state in order.
LEMMA WriteTypes ==
    ASSUME FleetTypes, NEW author, Write(author)
    PROVE  FleetTypes'
<1>1. form' = form
  BY DEF Write
<1> DEFINE path == pending[author].path
<1>a. /\ author \in DOMAIN pending /\ DOMAIN files' = DOMAIN files \cup {path}
      /\ files'[path] = pending[author].file
      /\ \A p \in DOMAIN files : p # path => files'[p] = files[p]
      /\ DOMAIN pending' = DOMAIN pending \ {author}
      /\ \A a \in DOMAIN pending' : pending'[a] = pending[a]
  BY WriteIs
<1>2. \A p \in DOMAIN files' : WellMade(p, files'[p])
  <2> TAKE p \in DOMAIN files'
  <2>1. CASE p = path
    <3>1. WellMade(path, pending[author].file)
      BY <1>a DEF FleetTypes
    <3> QED
      BY <1>a, <2>1, <3>1
  <2>2. CASE p # path
    <3>1. p \in DOMAIN files /\ files'[p] = files[p]
      BY <1>a, <2>2
    <3> QED
      BY <3>1 DEF FleetTypes
  <2> QED
    BY <2>1, <2>2
<1>3. \A a \in DOMAIN pending' : WellMade(pending'[a].path, pending'[a].file)
  <2> TAKE a \in DOMAIN pending'
  <2>1. a \in DOMAIN pending /\ pending'[a] = pending[a]
    BY <1>a
  <2> QED
    BY <2>1 DEF FleetTypes
<1> QED
  BY <1>1, <1>2, <1>3 DEF FleetTypes

\* Every reachable state holds files that were rendered from what they were asked.
THEOREM FleetTypesHold == Spec => []FleetTypes
<1>1. Init => FleetTypes
  <2> SUFFICES ASSUME Init PROVE FleetTypes
    OBVIOUS
  <2>1. form \in [rows : Seq(FormRows), labels : Maps, site : Nat]
    BY NoLabelsMaps DEF Init
  <2>2. DOMAIN pending = {} /\ DOMAIN files = {}
    BY DEF Init
  <2> QED
    BY <2>1, <2>2 DEF FleetTypes
<1>2. FleetTypes /\ [Next]_vars => FleetTypes'
  <2> SUFFICES ASSUME FleetTypes, [Next]_vars PROVE FleetTypes'
    OBVIOUS
  <2>1. ASSUME NEW text \in Texts, NEW by \in Readers, NEW target \in Targets, Describe(text, by, target)
        PROVE  FleetTypes'
    BY <2>1, DescribeTypes
  <2>2. ASSUME NEW text \in Texts, NEW by \in Readers, NEW target \in Targets, NEW name \in Names,
               DoDescribe(text, by, target, name)
        PROVE  FleetTypes'
    BY <2>2, DoDescribeTypes
  <2>3. CASE Edit
    BY <2>3, EditTypes
  <2>4. ASSUME NEW name \in Names, Build(name) PROVE FleetTypes'
    BY <2>4, BuildTypes
  <2>5. ASSUME NEW author \in Authors, Write(author) PROVE FleetTypes'
    BY <2>5, WriteTypes
  <2>6. CASE UNCHANGED vars
    BY <2>6 DEF vars, FleetTypes
  <2> QED
    BY <2>1, <2>2, <2>3, <2>4, <2>5, <2>6 DEF Next
<1> QED
  BY <1>1, <1>2, PTL DEF Spec

\* A file holds as many nodes as its rows ask for, for each row its count that run its software under its
\* labels at its place, and the generated labels agree with the role and the tier.
THEOREM AsAskedHolds == Spec => []AsAsked
<1>1. FleetTypes => AsAsked
  <2> SUFFICES ASSUME FleetTypes, NEW p \in DOMAIN files PROVE Fulfils(files[p])
    BY DEF AsAsked, Fulfils
  <2> QED
    BY WellMadeFulfils DEF FleetTypes
<1> QED
  BY <1>1, FleetTypesHold, PTL

-----------------------------------------------------------------------------
(* What a reading offers. *)

\* The offer is none or one of the readings, which are all fair.
LEMMA NothingIsFair == Fair(NoOffer)
<1> DEFINE heard == Spoken(<<>>)
           c == [i \in DOMAIN heard |-> [count |-> Count(heard[i])]]
<1>1. NoOffer.text = <<>> /\ NoOffer.groups = <<>> /\ NoOffer.target = 0
  BY DEF NoOffer
<1>2. heard \in Seq({})
  <2> DEFINE S == {x \in ToSet(<<>>) : MatchClause(x) # {}}
  <2>1. heard = Only(<<>>, S) /\ <<>> \in Seq({})
    BY DEF Spoken
  <2> HIDE DEF S, heard
  <2> QED
    BY <2>1, OnlyIs
<1> HIDE DEF heard
<1>3. heard = <<>>
  BY <1>2
<1>4. c = <<>>
  BY <1>3
<1>5. ToSet(<<>>) = {} /\ DOMAIN <<>> = {}
  BY DEF ToSet
<1> HIDE DEF c
<1> QED
  BY <1>1, <1>4, <1>5 DEF Fair, c, heard

\* A reading has every node that was asked for, loses no tier and no software.
THEOREM OfferedHolds == Spec => []Offered
<1>0. Offered <=> Fair(offer)
  BY DEF Offered, Fair
<1>1. Init => Offered
  BY <1>0, NothingIsFair DEF Init
<1>2. Offered /\ [Next]_vars => Offered'
  <2> SUFFICES ASSUME Fair(offer), [Next]_vars PROVE Fair(offer')
    BY <1>0 DEF Offered, Fair
  <2>1. ASSUME NEW text \in Texts, NEW by \in Readers, NEW target \in Targets,
               Usable(by), offer' = Offers[text][by][target]
        PROVE  Fair(offer')
    BY <2>1, OffersAre, ProposedIs
  <2>2. ASSUME NEW text \in Texts, NEW by \in Readers, NEW target \in Targets, Describe(text, by, target)
        PROVE  Fair(offer')
    BY <2>1, <2>2 DEF Describe, Filled
  <2>3. ASSUME NEW text \in Texts, NEW by \in Readers, NEW target \in Targets, NEW name \in Names,
               DoDescribe(text, by, target, name)
        PROVE  Fair(offer')
    BY <2>1, <2>3 DEF DoDescribe, Printed
  <2>4. CASE offer' = NoOffer
    BY <2>4, NothingIsFair
  <2>5. CASE Edit
    BY <2>4, <2>5 DEF Edit
  <2>6. ASSUME NEW name \in Names, Build(name) PROVE Fair(offer')
    BY <2>4, <2>6 DEF Build
  <2>7. ASSUME NEW author \in Authors, Write(author) PROVE Fair(offer')
    BY <2>4, <2>7 DEF Write
  <2>8. CASE UNCHANGED vars
    BY <2>8 DEF vars
  <2> QED
    BY <2>2, <2>3, <2>5, <2>6, <2>7, <2>8 DEF Next
<1> QED
  BY <1>1, <1>2, PTL DEF Spec

-----------------------------------------------------------------------------
(* One identity for each node, when one author ends before another begins. *)

\* The files are apart, and what is checked and not yet written is apart from the others.
Separate ==
    /\ \A p, q \in DOMAIN files : p # q => Guids(files[p]) \cap Guids(files[q]) = {}
    /\ \A a, b \in DOMAIN pending : a = b
    /\ \A a \in DOMAIN pending : GuidUniqueness(pending[a].file, pending[a].path)

\* A file that is checked is apart from the files of the directory.
LEMMA CheckedSeparate ==
    ASSUME Apart, Separate, NEW author, NEW path, NEW file, Checked(author, path, file), UNCHANGED files
    PROVE  Separate'
<1>1. /\ DOMAIN pending' = {author} /\ pending'[author].path = path /\ pending'[author].file = file
      /\ GuidUniqueness(file, path)
  BY CheckedIs
<1>2. GuidUniqueness(pending[author].file, pending[author].path)'
  BY <1>1 DEF GuidUniqueness, Guids
<1> QED
  BY <1>1, <1>2 DEF Separate, Guids

\* A file that was apart when it was checked is apart when it is written.
LEMMA WriteSeparate ==
    ASSUME Separate, NEW author, Write(author)
    PROVE  Separate'
<1> DEFINE path == pending[author].path
           file == pending[author].file
<1>1. /\ author \in DOMAIN pending /\ DOMAIN files' = DOMAIN files \cup {path}
      /\ files'[path] = file
      /\ \A p \in DOMAIN files : p # path => files'[p] = files[p]
      /\ DOMAIN pending' = DOMAIN pending \ {author}
  BY WriteIs
<1>2. \A p \in DOMAIN files : p # path => Guids(files[p]) \cap Guids(file) = {}
  BY <1>1 DEF Separate, GuidUniqueness
<1>3. DOMAIN pending' = {}
  BY <1>1 DEF Separate
<1> HIDE DEF path, file
<1>4. ASSUME NEW p \in DOMAIN files', NEW q \in DOMAIN files', p # q
      PROVE  Guids(files'[p]) \cap Guids(files'[q]) = {}
  <2>1. CASE p = path
    BY <1>1, <1>2, <1>4, <2>1
  <2>2. CASE q = path
    BY <1>1, <1>2, <1>4, <2>2
  <2>3. CASE p # path /\ q # path
    BY <1>1, <1>4, <2>3 DEF Separate
  <2> QED
    BY <2>1, <2>2, <2>3
<1> QED
  BY <1>3, <1>4 DEF Separate, Guids

\* No two nodes of the directory claim one identity.
THEOREM OneIdentityHolds == ASSUME Apart PROVE Spec => []OneIdentity
<1>1. Init => Separate
  BY DEF Init, Separate
<1>2. Separate /\ [Next]_vars => Separate'
  <2> SUFFICES ASSUME Separate, [Next]_vars PROVE Separate'
    OBVIOUS
  <2>1. ASSUME UNCHANGED <<pending, files>> PROVE Separate'
    BY <2>1 DEF Separate, GuidUniqueness, Guids
  <2>2. ASSUME NEW text \in Texts, NEW by \in Readers, NEW target \in Targets, Describe(text, by, target)
        PROVE  Separate'
    BY <2>1, <2>2 DEF Describe, Filled
  <2>3. ASSUME NEW text \in Texts, NEW by \in Readers, NEW target \in Targets, NEW name \in Names,
               DoDescribe(text, by, target, name)
        PROVE  Separate'
    BY <2>3, CheckedSeparate DEF DoDescribe, Printed
  <2>4. CASE Edit
    BY <2>1, <2>4 DEF Edit
  <2>5. ASSUME NEW name \in Names, Build(name) PROVE Separate'
    BY <2>5, CheckedSeparate DEF Build
  <2>6. ASSUME NEW author \in Authors, Write(author) PROVE Separate'
    BY <2>6, WriteSeparate
  <2>7. CASE UNCHANGED vars
    BY <2>1, <2>7 DEF vars
  <2> QED
    BY <2>2, <2>3, <2>4, <2>5, <2>6, <2>7 DEF Next
<1>3. FleetTypes /\ Separate => OneIdentity
  <2> SUFFICES ASSUME FleetTypes, Separate PROVE OneIdentity
    OBVIOUS
  <2>1. \A p \in DOMAIN files : files[p].by # "keywords" => Loads(files[p])
    BY WellMadeLoads DEF FleetTypes
  <2> QED
    BY <2>1 DEF OneIdentity, Separate
<1> QED
  BY <1>1, <1>2, <1>3, FleetTypesHold, PTL DEF Spec

-----------------------------------------------------------------------------
(* Higher counts and further rows change nothing of what was there. *)

\* The same group with at least the nodes; a and b are as long and hold such pairs.
Twin(g, h) ==
    /\ h.role = g.role /\ h.services = g.services /\ h.slug = g.slug
    /\ h.labels = g.labels /\ h.site = g.site /\ g.count <= h.count

Twins(a, b) == Len(a) = Len(b) /\ \A i \in 1..Len(a) : Twin(a[i], b[i])

\* The same but for its labels and its place; b begins with such groups for all of a.
Alike(g, h) == h.role = g.role /\ h.services = g.services /\ h.slug = g.slug /\ g.count <= h.count

Begins(b, a) == Len(a) <= Len(b) /\ \A i \in 1..Len(a) : Alike(a[i], b[i])

\* Twins of a tier go where it goes.
LEMMA MergeTwins ==
    ASSUME NEW a \in Seq(Groups), NEW b \in Seq(Groups), NEW g \in Groups, NEW h \in Groups,
           Twins(a, b), Twin(g, h)
    PROVE  Twins(Merge(a, g), Merge(b, h))
<1> DEFINE sa == {i \in DOMAIN a : SameTier(a[i], g)}
           sb == {i \in DOMAIN b : SameTier(b[i], h)}
           ma == Merge(a, g)
           mb == Merge(b, h)
           at == First(sa)
<1>0. /\ Len(a) \in Nat /\ DOMAIN a = 1..Len(a) /\ Len(b) = Len(a) /\ DOMAIN b = 1..Len(a)
      /\ \A i \in 1..Len(a) : a[i] \in Groups /\ b[i] \in Groups /\ Twin(a[i], b[i])
  BY DEF Twins
<1>1. sa = sb
  <2>1. \A i \in 1..Len(a) : SameTier(a[i], g) <=> SameTier(b[i], h)
    BY <1>0 DEF SameTier, Twin
  <2> QED
    BY <1>0, <2>1
<1>2. \/ sa = {} /\ ma = Append(a, g)
      \/ /\ sa # {} /\ at \in 1..Len(a)
         /\ Len(ma) = Len(a) /\ ma[at] = Joined(a[at], g)
         /\ \A i \in 1..Len(a) : i # at => ma[i] = a[i]
  BY MergeIs
<1>3. \/ sb = {} /\ mb = Append(b, h)
      \/ /\ sb # {} /\ First(sb) \in 1..Len(b)
         /\ Len(mb) = Len(b) /\ mb[First(sb)] = Joined(b[First(sb)], h)
         /\ \A i \in 1..Len(b) : i # First(sb) => mb[i] = b[i]
  BY MergeIs
<1> HIDE DEF sb, ma, mb
<1>4. CASE sa = {}
  <2>1. ma = Append(a, g) /\ mb = Append(b, h)
    BY <1>1, <1>2, <1>3, <1>4
  <2>2. Len(ma) = Len(a) + 1 /\ Len(mb) = Len(a) + 1 /\ ma[Len(a) + 1] = g /\ mb[Len(a) + 1] = h
        /\ \A i \in 1..Len(a) : ma[i] = a[i] /\ mb[i] = b[i]
    BY <1>0, <2>1
  <2>3. \A i \in 1..Len(a) + 1 : i = Len(a) + 1 \/ i \in 1..Len(a)
    BY <1>0
  <2> QED
    BY <1>0, <2>2, <2>3 DEF Twins, ma, mb
<1>5. CASE sa # {}
  <2> HIDE DEF sa
  <2>1. /\ at \in 1..Len(a) /\ Len(ma) = Len(a) /\ Len(mb) = Len(a)
        /\ ma[at] = Joined(a[at], g) /\ mb[at] = Joined(b[at], h)
        /\ \A i \in 1..Len(a) : i # at => ma[i] = a[i] /\ mb[i] = b[i]
    BY <1>0, <1>1, <1>2, <1>3, <1>5
  <2> HIDE DEF at
  <2>2. Twin(Joined(a[at], g), Joined(b[at], h))
    <3> DEFINE x == a[at]
               y == b[at]
    <3>1. x \in Groups /\ y \in Groups /\ Twin(x, y)
      BY <1>0, <2>1
    <3> HIDE DEF x, y
    <3>2. x.count \in Nat /\ y.count \in Nat /\ g.count \in Nat /\ h.count \in Nat
      BY <3>1, GroupIs
    <3>3. /\ Joined(x, g).count = x.count + g.count /\ Joined(y, h).count = y.count + h.count
          /\ Joined(x, g).labels = Layered(g.labels, x.labels)
          /\ Joined(y, h).labels = Layered(h.labels, y.labels)
          /\ Joined(x, g).role = x.role /\ Joined(x, g).services = x.services
          /\ Joined(x, g).slug = x.slug /\ Joined(x, g).site = x.site
          /\ Joined(y, h).role = y.role /\ Joined(y, h).services = y.services
          /\ Joined(y, h).slug = y.slug /\ Joined(y, h).site = y.site
      BY <3>1 DEF Joined, Groups
    <3> QED
      BY <3>1, <3>2, <3>3 DEF Twin, x, y
  <2>3. \A i \in 1..Len(a) : Twin(ma[i], mb[i])
    BY <1>0, <2>1, <2>2
  <2> QED
    BY <2>1, <2>3 DEF Twins, ma, mb
<1> QED
  BY <1>4, <1>5

\* Merging more of the same begins as merging the less.
LEMMA MergedBegins ==
    ASSUME NEW a \in Seq(Groups), NEW b \in Seq(Groups), Len(a) <= Len(b),
           \A i \in 1..Len(a) : Twin(a[i], b[i])
    PROVE  Begins(Merged(b), Merged(a))
<1> DEFINE n == Len(a)
           m == Len(b)
<1>0. /\ n \in Nat /\ m \in Nat /\ n <= m /\ (\A i \in 1..n : a[i] \in Groups)
      /\ \A i \in 1..m : b[i] \in Groups
  OBVIOUS
<1>1. PICK u : MergedUpto(u, a)
  BY MergedRun
<1>2. PICK v : MergedUpto(v, b)
  BY MergedRun
<1>3. /\ u[0] = <<>> /\ v[0] = <<>> /\ Merged(a) = u[n] /\ Merged(b) = v[m]
      /\ \A i \in 0..n : u[i] \in Seq(Groups)
      /\ \A i \in 0..m : v[i] \in Seq(Groups)
      /\ \A i \in 1..n : u[i] = Merge(u[i - 1], a[i])
      /\ \A i \in 1..m : v[i] = Merge(v[i - 1], b[i])
  BY <1>1, <1>2 DEF MergedUpto
<1>a. \A i \in 1..n : Twin(a[i], b[i])
  OBVIOUS
<1> HIDE DEF n, m
<1> DEFINE P == {i \in 0..n : Twins(u[i], v[i])}
<1>4. 0 \in P
  BY <1>0, <1>3 DEF Twins
<1>5. ASSUME NEW i \in 0..n, i \in P, i # n PROVE i + 1 \in P
  <2>1. i + 1 \in 1..n /\ i + 1 \in 0..n /\ (i + 1) - 1 = i /\ i \in 0..m /\ i + 1 \in 1..m
    BY <1>0, <1>5
  <2>2. /\ u[i] \in Seq(Groups) /\ v[i] \in Seq(Groups) /\ Twins(u[i], v[i])
        /\ u[i + 1] = Merge(u[i], a[i + 1]) /\ v[i + 1] = Merge(v[i], b[i + 1])
        /\ a[i + 1] \in Groups /\ b[i + 1] \in Groups /\ Twin(a[i + 1], b[i + 1])
    BY <1>0, <1>3, <1>5, <1>a, <2>1
  <2>3. Twins(u[i + 1], v[i + 1])
    BY <2>2, MergeTwins
  <2> QED
    BY <2>1, <2>3
<1>6. Twins(u[n], v[n])
  <2> HIDE DEF P
  <2>1. 0..n \subseteq P
    BY <1>0, <1>4, <1>5, Inductively
  <2> QED
    BY <1>0, <2>1 DEF P
<1> DEFINE R == {i \in 0..m : i >= n => Begins(v[i], u[n])}
<1>7. u[n] \in Seq(Groups) /\ v[n] \in Seq(Groups) /\ Begins(v[n], u[n])
  <2>1. u[n] \in Seq(Groups) /\ v[n] \in Seq(Groups) /\ n \in 0..m
    BY <1>0, <1>3
  <2>2. Len(u[n]) \in Nat /\ Len(v[n]) = Len(u[n])
    BY <1>6, <2>1 DEF Twins
  <2>3. \A i \in 1..Len(u[n]) : Alike(u[n][i], v[n][i])
    BY <1>6 DEF Twins, Twin, Alike
  <2> QED
    BY <2>1, <2>2, <2>3 DEF Begins
<1>8. 0 \in R
  BY <1>0, <1>7
<1>9. ASSUME NEW i \in 0..m, i \in R, i # m PROVE i + 1 \in R
  <2>1. i + 1 \in 1..m /\ i + 1 \in 0..m /\ (i + 1) - 1 = i /\ i \in Nat
    BY <1>0, <1>9
  <2>2. CASE i + 1 <= n
    <3>1. i + 1 >= n => i + 1 = n
      BY <1>0, <2>1, <2>2
    <3> QED
      BY <1>7, <2>1, <3>1
  <2>3. CASE i >= n
    <3> DEFINE x == u[n]
               y == v[i]
               z == v[i + 1]
    <3>1. y \in Seq(Groups) /\ x \in Seq(Groups) /\ Begins(y, x) /\ z = Merge(y, b[i + 1]) /\ b[i + 1] \in Groups
      BY <1>0, <1>3, <1>7, <1>9, <2>1, <2>3
    <3> HIDE DEF x, y, z
    <3>2. z \in Seq(Groups) /\ Len(z) >= Len(y) /\ \A j \in 1..Len(y) : Grown(z[j], y[j])
      BY <3>1, MergeKeeps
    <3>3. /\ Len(x) \in Nat /\ Len(y) \in Nat /\ Len(z) \in Nat /\ Len(x) <= Len(y)
          /\ (\A j \in 1..Len(x) : x[j].count \in Nat /\ Alike(x[j], y[j]))
          /\ (\A j \in 1..Len(y) : y[j].count \in Nat)
          /\ \A j \in 1..Len(z) : z[j].count \in Nat
      BY <3>1, <3>2, GroupsCounted DEF Begins, Counted
    <3>4. \A j \in 1..Len(x) : Alike(x[j], z[j])
      <4> TAKE j \in 1..Len(x)
      <4>1. j \in 1..Len(y) /\ j \in 1..Len(z)
        BY <3>2, <3>3
      <4> QED
        <5>1. /\ z[j].role = y[j].role /\ z[j].services = y[j].services
              /\ z[j].slug = y[j].slug /\ y[j].count <= z[j].count
          <6>1. z[j].count \in Nat /\ y[j].count \in Nat
            BY <3>3, <4>1
          <6> QED
            BY <3>2, <4>1, <6>1 DEF Grown, Stands
        <5>2. z[j].count \in Nat /\ y[j].count \in Nat /\ x[j].count \in Nat
          BY <3>3, <4>1
        <5>3. Alike(x[j], y[j])
          BY <3>3
        <5> QED
          BY <5>1, <5>2, <5>3 DEF Alike
    <3>5. Begins(z, x)
      BY <3>2, <3>3, <3>4 DEF Begins
    <3> QED
      BY <2>1, <3>5 DEF x, z
  <2> QED
    BY <1>0, <2>1, <2>2, <2>3
<1>10. m \in R
  <2> HIDE DEF R
  <2>1. 0..m \subseteq R
    BY <1>0, <1>8, <1>9, Inductively
  <2> QED
    BY <1>0, <2>1
<1> QED
  BY <1>0, <1>3, <1>10

\* One and the same name for groups that are alike.
LEMMA TaggedAlike ==
    ASSUME NEW v \in Seq(Groups), NEW w \in Seq(Groups), NEW g \in Groups, NEW h \in Groups,
           Alike(g, h), Len(v) = Len(w),
           \A i \in 1..Len(v) : w[i].role = v[i].role /\ w[i].services = v[i].services /\ w[i].slug = v[i].slug
    PROVE  Tagged(v, g).slug = Tagged(w, h).slug
<1>1. \A i \in 1..Len(v) : EffectiveSlug(v[i]) = EffectiveSlug(w[i])
  BY SlugDepends
<1>2. DOMAIN v = 1..Len(v) /\ DOMAIN w = 1..Len(v)
  OBVIOUS
<1>3. Taken(v) = Taken(w)
  BY <1>1, <1>2 DEF Taken
<1>4. EffectiveSlug(g) = EffectiveSlug(h) /\ g.slug = h.slug /\ g.role = h.role
  BY SlugDepends DEF Alike
<1> DEFINE t == Taken(v)
           name == Candidate(g, t)
<1>5. Candidate(h, t) = name
  BY <1>4 DEF Candidate
<1>6. /\ Tagged(v, g) = IF name = EffectiveSlug(g) THEN g ELSE [g EXCEPT !.slug = name]
      /\ Tagged(w, h) = IF name = EffectiveSlug(g) THEN h ELSE [h EXCEPT !.slug = name]
  BY <1>3, <1>4, <1>5 DEF Tagged
<1> HIDE DEF t, name
<1> QED
  BY <1>4, <1>6 DEF Groups

\* Naming more groups begins as naming the first of them.
LEMMA QualifiedBegins ==
    ASSUME NEW a \in Seq(Groups), NEW b \in Seq(Groups), Begins(b, a)
    PROVE  Begins(Qualified(b), Qualified(a))
<1> DEFINE n == Len(a)
           m == Len(b)
<1>0. /\ n \in Nat /\ m \in Nat /\ n <= m /\ (\A i \in 1..n : a[i] \in Groups /\ Alike(a[i], b[i]))
      /\ \A i \in 1..m : b[i] \in Groups
  BY DEF Begins
<1>1. PICK u : QualifiedUpto(u, a)
  BY QualifiedRun
<1>2. PICK v : QualifiedUpto(v, b)
  BY QualifiedRun
<1>3. /\ u[0] = <<>> /\ v[0] = <<>> /\ Qualified(a) = u[n] /\ Qualified(b) = v[m]
      /\ \A i \in 0..n : u[i] \in Seq(Groups)
      /\ \A i \in 0..m : v[i] \in Seq(Groups)
      /\ \A i \in 1..n : u[i] = Append(u[i - 1], Tagged(u[i - 1], a[i]))
      /\ \A i \in 1..m : v[i] = Append(v[i - 1], Tagged(v[i - 1], b[i]))
  BY <1>1, <1>2 DEF QualifiedUpto
<1> HIDE DEF n, m
<1> DEFINE Same(g, h) == h.role = g.role /\ h.services = g.services /\ h.slug = g.slug
           Q(i) == /\ Len(v[i]) = i
                   /\ i <= n => Len(u[i]) = i /\ \A j \in 1..i : Same(u[i][j], v[i][j])
                   /\ i >= n => \A j \in 1..n : Same(u[n][j], v[i][j])
           P == {i \in 0..m : Q(i)}
<1>4. 0 \in P
  <2>1. Len(v[0]) = 0 /\ Len(u[0]) = 0
    BY <1>3
  <2>2. \A j \in 1..0 : FALSE
    OBVIOUS
  <2>3. 0 >= n => n = 0
    BY <1>0
  <2> QED
    BY <1>0, <2>1, <2>2, <2>3
<1>5. ASSUME NEW i \in 0..m, i \in P, i # m PROVE i + 1 \in P
  <2>1. i + 1 \in 1..m /\ i + 1 \in 0..m /\ (i + 1) - 1 = i /\ i \in Nat
    BY <1>0, <1>5
  <2> DEFINE y == v[i]
             k == Tagged(y, b[i + 1])
             z == v[i + 1]
  <2>2. y \in Seq(Groups) /\ Len(y) = i /\ b[i + 1] \in Groups /\ z = Append(y, k)
    BY <1>0, <1>3, <1>5, <2>1
  <2>3. k \in Groups /\ Renamed(k, b[i + 1])
    BY <2>2, TaggedIs
  <2>q. Q(i)
    BY <1>5
  <2> HIDE DEF k
  <2>4. Len(z) = i + 1 /\ z[i + 1] = k /\ \A j \in 1..i : z[j] = y[j]
    <3> HIDE DEF y, z
    <3> QED
      BY <2>1, <2>2, <2>3
  <2>5. CASE i + 1 <= n
    <3> DEFINE x == u[i]
               l == Tagged(x, a[i + 1])
               w == u[i + 1]
    <3>1. i \in 0..n /\ i + 1 \in 1..n /\ i + 1 \in 0..n /\ i <= n
      BY <1>0, <2>1, <2>5
    <3>2. x \in Seq(Groups) /\ Len(x) = i /\ a[i + 1] \in Groups /\ w = Append(x, l)
          /\ Alike(a[i + 1], b[i + 1]) /\ \A j \in 1..i : Same(x[j], y[j])
      BY <1>0, <1>3, <2>1, <2>q, <3>1
    <3>3. l \in Groups /\ Renamed(l, a[i + 1])
      BY <3>2, TaggedIs
    <3>4. l.slug = k.slug
      <4> DEFINE g == a[i + 1]
                 h == b[i + 1]
      <4>1. \A j \in 1..Len(x) : y[j].role = x[j].role /\ y[j].services = x[j].services /\ y[j].slug = x[j].slug
        BY <3>2
      <4>2. /\ x \in Seq(Groups) /\ y \in Seq(Groups) /\ g \in Groups /\ h \in Groups
            /\ Alike(g, h) /\ Len(x) = Len(y)
        BY <2>2, <3>2
      <4>3. l = Tagged(x, g) /\ k = Tagged(y, h)
        BY DEF k
      <4> HIDE DEF x, y, g, h, l
      <4>4. Tagged(x, g).slug = Tagged(y, h).slug
        BY <4>1, <4>2, TaggedAlike
      <4> QED
        BY <4>3, <4>4
    <3>5. Same(l, k)
      BY <2>3, <3>2, <3>3, <3>4 DEF Renamed, Alike
    <3> HIDE DEF l
    <3>6. Len(w) = i + 1 /\ w[i + 1] = l /\ \A j \in 1..i : w[j] = x[j]
      <4> HIDE DEF x, w
      <4> QED
        BY <2>1, <3>2, <3>3
    <3> HIDE DEF x, w, y, z
    <3>7. \A j \in 1..i + 1 : Same(w[j], z[j])
      <4> TAKE j \in 1..i + 1
      <4>1. j = i + 1 \/ j \in 1..i
        BY <2>1
      <4>2. CASE j = i + 1
        BY <2>4, <3>5, <3>6, <4>2
      <4>3. CASE j \in 1..i
        BY <2>4, <3>2, <3>6, <4>3
      <4> QED
        BY <4>1, <4>2, <4>3
    <3>8. i + 1 >= n => n = i + 1
      BY <1>0, <2>1, <2>5
    <3> QED
      BY <2>1, <2>4, <3>6, <3>7, <3>8 DEF w, z
  <2>6. CASE i >= n
    <3>1. \A j \in 1..n : j \in 1..i /\ Same(u[n][j], y[j])
      BY <1>0, <2>1, <2>6, <2>q
    <3>2. \A j \in 1..n : Same(u[n][j], z[j])
      <4> HIDE DEF y, z
      <4> QED
        BY <2>4, <3>1
    <3>3. ~(i + 1 <= n) /\ i + 1 >= n
      BY <1>0, <2>1, <2>6
    <3> QED
      BY <2>1, <2>4, <3>2, <3>3
  <2> QED
    BY <1>0, <2>1, <2>5, <2>6
<1>6. m \in P
  <2> HIDE DEF P
  <2>1. 0..m \subseteq P
    BY <1>0, <1>4, <1>5, Inductively
  <2> QED
    BY <1>0, <2>1
<1> DEFINE qa == Qualified(a)
           qb == Qualified(b)
<1>7. \A j \in 1..n : Same(qa[j], qb[j])
  BY <1>0, <1>3, <1>6
<1>8. /\ Len(qa) = n /\ Len(qb) = m
      /\ \A i \in 1..n : Renamed(qa[i], a[i])
      /\ \A i \in 1..m : Renamed(qb[i], b[i])
  BY QualifiedKeeps DEF n, m
<1> HIDE DEF qa, qb
<1>9. \A j \in 1..n : Alike(qa[j], qb[j])
  <2> TAKE j \in 1..n
  <2>1. j \in 1..m
    BY <1>0
  <2> QED
    BY <1>0, <1>7, <1>8, <2>1 DEF Alike, Renamed
<1>10. Begins(qb, qa)
  BY <1>0, <1>8, <1>9 DEF Begins
<1> QED
  BY <1>10 DEF qa, qb

\* The groups of rows that were extended begin with the groups that were there.
LEMMA GroupsBegin ==
    ASSUME NEW path, NEW f, NEW g, WellMade(path, f), WellMade(path, g), Extends(g.asked, f.asked)
    PROVE  Begins(GroupsOf(path, g), GroupsOf(path, f))
<1> DEFINE a == f.asked.rows
           b == g.asked.rows
           site == f.asked.site
<1>1. /\ a \in Seq(Groups) /\ b \in Seq(Groups) /\ site \in Nat /\ g.asked.site = site
      /\ Len(a) <= Len(b) /\ Len(a) \in Nat /\ Len(b) \in Nat
  BY DEF WellMade, Extends
<1>2. \A i \in 1..Len(a) : /\ a[i] \in Groups /\ b[i] \in Groups /\ i \in 1..Len(b)
                           /\ a[i].count <= b[i].count /\ a[i] = [b[i] EXCEPT !.count = a[i].count]
  <2>1. \A i \in DOMAIN a : a[i].count <= b[i].count /\ a[i] = [b[i] EXCEPT !.count = a[i].count]
    BY DEF Extends
  <2> HIDE DEF a, b
  <2>2. DOMAIN a = 1..Len(a) /\ \A i \in 1..Len(a) : a[i] \in Groups /\ i \in 1..Len(b)
    BY <1>1
  <2>3. \A i \in 1..Len(b) : b[i] \in Groups
    BY <1>1
  <2> QED
    BY <2>1, <2>2, <2>3
<1> HIDE DEF a, b, site
<1>3. \A i \in 1..Len(a) : Twin(a[i], b[i])
  <2> TAKE i \in 1..Len(a)
  <2> DEFINE x == a[i]
             y == b[i]
             n == x.count
  <2>1. y \in Groups /\ n <= y.count /\ x = [y EXCEPT !.count = n]
    BY <1>2
  <2> HIDE DEF n, x, y
  <2>2. /\ y.role = x.role /\ y.services = x.services /\ y.slug = x.slug
        /\ y.labels = x.labels /\ y.site = x.site /\ x.count = n
    BY <2>1 DEF Groups
  <2> QED
    BY <2>1, <2>2 DEF Twin, n, x, y
<1>4. CASE path = "out"
  <2>1. Begins(b, a)
    BY <1>1, <1>3 DEF Begins, Twin, Alike
  <2> QED
    BY <1>4, <2>1 DEF GroupsOf, a, b
<1>5. CASE path # "out"
  <2> DEFINE sa == Sited(a, site)
             sb == Sited(b, site)
  <2>1. /\ sa \in Seq(Groups) /\ Len(sa) = Len(a) /\ FormGroups(a, site) = Dedupe(sa)
        /\ \A i \in 1..Len(a) :
              /\ sa[i].count = a[i].count /\ sa[i].role = a[i].role /\ sa[i].services = a[i].services
              /\ sa[i].labels = a[i].labels /\ sa[i].slug = a[i].slug /\ sa[i].site = GroupSite(a[i], site)
    BY <1>1, SitedIs
  <2>2. /\ sb \in Seq(Groups) /\ Len(sb) = Len(b) /\ FormGroups(b, site) = Dedupe(sb)
        /\ \A i \in 1..Len(b) :
              /\ sb[i].count = b[i].count /\ sb[i].role = b[i].role /\ sb[i].services = b[i].services
              /\ sb[i].labels = b[i].labels /\ sb[i].slug = b[i].slug /\ sb[i].site = GroupSite(b[i], site)
    BY <1>1, SitedIs
  <2> HIDE DEF sa, sb
  <2>3. \A i \in 1..Len(sa) : Twin(sa[i], sb[i])
    <3> TAKE i \in 1..Len(sa)
    <3>1. i \in 1..Len(a) /\ i \in 1..Len(b) /\ Twin(a[i], b[i])
      BY <1>2, <1>3, <2>1
    <3>2. GroupSite(a[i], site) = GroupSite(b[i], site)
      BY <3>1 DEF Twin, GroupSite
    <3> QED
      BY <2>1, <2>2, <3>1, <3>2 DEF Twin
  <2>4. Begins(Merged(sb), Merged(sa))
    BY <1>1, <2>1, <2>2, <2>3, MergedBegins
  <2>5. Merged(sa) \in Seq(Groups) /\ Merged(sb) \in Seq(Groups)
    BY <2>1, <2>2, MergedKeeps
  <2>6. Begins(Dedupe(sb), Dedupe(sa))
    BY <2>4, <2>5, QualifiedBegins DEF Dedupe
  <2>7. GroupsOf(path, f) = Dedupe(sa) /\ GroupsOf(path, g) = Dedupe(sb)
    BY <1>1, <1>5, <2>1, <2>2 DEF GroupsOf, a, b, site
  <2> QED
    BY <2>6, <2>7
<1> QED
  BY <1>4, <1>5

\* The nodes keep who they are when the rows of a file are extended.
LEMMA IdentitiesKept ==
    ASSUME NEW path, NEW f, NEW g, WellMade(path, f), WellMade(path, g),
           g.name = f.name, Extends(g.asked, f.asked)
    PROVE  Identities(f) \subseteq Identities(g)
<1> DEFINE a == GroupsOf(path, f)
           b == GroupsOf(path, g)
           name == f.name
           la == f.asked.labels
           lb == g.asked.labels
<1>1. a \in Seq(Groups) /\ b \in Seq(Groups)
  BY GroupsStand
<1>2. Begins(b, a)
  BY GroupsBegin
<1>3. f.nodes = Render(a, la, name) /\ g.nodes = Render(b, lb, name) /\ la \in Maps /\ lb \in Maps
  BY DEF WellMade
<1> SUFFICES ASSUME NEW p \in DOMAIN f.nodes
             PROVE  \E q \in DOMAIN g.nodes :
                       /\ g.nodes[q].guid = f.nodes[p].guid /\ g.nodes[q].hostname = f.nodes[p].hostname
                       /\ g.nodes[q].role = f.nodes[p].role /\ g.nodes[q].services = f.nodes[p].services
  BY DEF Identities, Range
<1> HIDE DEF a, b, name, la, lb
<1>4. PICK k \in 1..Len(a) : \E i \in 1..a[k].count : p = <<k, i>>
  BY <1>1, <1>3, RenderIs
<1>5. PICK i \in 1..a[k].count : p = <<k, i>>
  BY <1>4
<1>6. k \in 1..Len(b) /\ Alike(a[k], b[k]) /\ a[k] \in Groups /\ b[k] \in Groups
  BY <1>1, <1>2 DEF Begins
<1>7. i \in 1..b[k].count
  <2>1. a[k].count \in Nat /\ b[k].count \in Nat /\ a[k].count <= b[k].count
    BY <1>6, GroupIs DEF Alike
  <2> QED
    BY <2>1
<1>8. f.nodes[p] = Node(name, la, a[k], i)
  BY <1>1, <1>3, <1>5, RenderIs
<1>9. p \in DOMAIN g.nodes /\ g.nodes[p] = Node(name, lb, b[k], i)
  BY <1>1, <1>3, <1>5, <1>6, <1>7, RenderIs
<1>10. EffectiveSlug(a[k]) = EffectiveSlug(b[k]) /\ a[k].role = b[k].role /\ a[k].services = b[k].services
  BY <1>6, SlugDepends DEF Alike
<1> DEFINE x == Node(name, la, a[k], i)
           y == Node(name, lb, b[k], i)
<1>11. x.guid = y.guid /\ x.hostname = y.hostname /\ x.role = y.role /\ x.services = y.services
  BY <1>10 DEF Node
<1> HIDE DEF x, y
<1>12. f.nodes[p] = x /\ g.nodes[p] = y /\ p \in DOMAIN g.nodes
  BY <1>8, <1>9 DEF x, y
<1> QED
  BY <1>11, <1>12

\* Writing an environment again with higher counts or further rows keeps every node that was there.
THEOREM IdentityKeptHolds == Spec => IdentityKept
<1> DEFINE Kept0 == \A p \in DOMAIN files :
        (files'[p] # files[p] /\ files'[p].name = files[p].name /\ Extends(files'[p].asked, files[p].asked))
            => Identities(files[p]) \subseteq Identities(files'[p])
<1>1. FleetTypes /\ FleetTypes' /\ [Next]_vars => [Kept0]_vars
  <2> SUFFICES ASSUME FleetTypes, FleetTypes', [Next]_vars, NEW p \in DOMAIN files,
                      files'[p] # files[p], files'[p].name = files[p].name,
                      Extends(files'[p].asked, files[p].asked)
               PROVE  Identities(files[p]) \subseteq Identities(files'[p])
    BY DEF Kept0
  <2>1. PICK author : Write(author)
    BY DEF Next, vars, Describe, Filled, DoDescribe, Edit, Build
  <2>2. p \in DOMAIN files'
    BY <2>1, WriteIs
  <2>3. WellMade(p, files[p]) /\ WellMade(p, files'[p])
    BY <2>2 DEF FleetTypes
  <2> DEFINE f == files[p]
             g == files'[p]
  <2> HIDE DEF f, g
  <2> QED
    BY <2>3, IdentitiesKept DEF f, g
<1> QED
  BY <1>1, FleetTypesHold, PTL DEF Spec, IdentityKept, Kept0
=============================================================================
