---------------------------- MODULE ReplayProofs ----------------------------
(***************************************************************************)
(* From the receiver of a live run to the receiver of its replay, for any  *)
(* number of journal files, routes and frames, and every bound.            *)
(*                                                                         *)
(* The live part is about numbers: the outputs of a receiver are numbered  *)
(* as they are made, and the tape has all those numbers but that of the    *)
(* output that its one producer is about to capture (TapeInv).  The replay *)
(* keeps two invariants: of the modes that go through the tape once        *)
(* (Through) that all frames before the present one have been delivered,   *)
(* and of the scrape endpoint (Serving) that a route has been given the    *)
(* frames that are no longer in its queue.                                 *)
(***************************************************************************)
EXTENDS Replay, Integers, FiniteSetTheorems, SequenceTheorems, TLAPS

USE DEF vars, liveVars, sendVars, signalVars, recordVars, replayVars, pipeVars, otlpVars, routeVars

-----------------------------------------------------------------------------
(* Live: types without the bounds of the model, and who holds what. *)

Frames == [to : Receivers, n : Nat, at : Nat]

LiveTypes ==
    /\ pc \in [Producers -> {"run", "sent", "ended"}]
    /\ turn \in 1..Len(Shards)
    /\ held \in [Producers -> Receivers \cup {None}]
    /\ todo \subseteq Signals /\ givenUp \subseteq Signals
    /\ made \in [Receivers -> Nat]
    /\ got \in [Receivers -> Seq(Nat)]
    /\ fails \in [Signals -> Nat]
    /\ answers \in [Signals -> Seq(Outcomes)]
    /\ tape \in Seq(Frames)
    /\ clock \in Nat

\* The receivers that a producer writes to are its own.
Serves(p, r) ==
    \/ p = "metrics" /\ r = Netdata
    \/ p = "journal" /\ r \in Files
    \/ p = "exporters" /\ r \in Routes

HoldInv == \A p \in Producers : held[p] # None => Serves(p, held[p])

Holding(r) == \E p \in Producers : held[p] = r

\* While every session is whole the outputs made for a receiver are all on the tape, in the
\* order of their numbers, but for one that is still to be captured; a receiver that is
\* written to has them all, and a signal's has some of them.
TapeInv ==
    whole =>
        /\ TapeInOrder
        /\ \A r \in Receivers :
              /\ Numbers(r) = 1..(IF Holding(r) THEN made[r] - 1 ELSE made[r])
              /\ Holding(r) => made[r] > 0
              /\ InOrder(got[r])
        /\ \A r \in Receivers \ Signals : Range(got[r]) = 1..made[r]
        /\ \A s \in Signals :
              /\ Range(got[s]) \subseteq 1..made[s]
              /\ pc["otlp"] = "sent" /\ Turn(s) => made[s] > 0 /\ made[s] \notin Range(got[s])

\* A signal's failures are its refusals since it was last accepted, and one that has been
\* given up has nothing to send.
SignalInv ==
    \A s \in Signals :
        /\ fails[s] = Cardinality(Refusals(s))
        /\ s \in givenUp <=> fails[s] >= GiveUpAfter
        /\ s \in todo => s \notin givenUp

LiveInv == LiveTypes /\ HoldInv /\ TapeInv /\ SignalInv

-----------------------------------------------------------------------------
(* Sequences and sets of numbers. *)

LEMMA AppendOne ==
    ASSUME NEW S, NEW q \in Seq(S), NEW x \in S
    PROVE  /\ Append(q, x) \in Seq(S) /\ Len(Append(q, x)) = Len(q) + 1 /\ Len(q) \in Nat
           /\ \A i \in 1..Len(q) : Append(q, x)[i] = q[i]
           /\ Append(q, x)[Len(q) + 1] = x
OBVIOUS

LEMMA RangeSeq ==
    ASSUME NEW S, NEW q \in Seq(S)
    PROVE  Range(q) = {q[i] : i \in 1..Len(q)}
BY LenProperties DEF Range

LEMMA AppendRange ==
    ASSUME NEW S, NEW q \in Seq(S), NEW x \in S
    PROVE  Range(Append(q, x)) = Range(q) \cup {x}
<1> DEFINE a == Append(q, x)
<1>0. a \in Seq(S) /\ Len(a) = Len(q) + 1
  BY AppendOne
<1> HIDE DEF a
<1>1. /\ Range(q) = {q[i] : i \in 1..Len(q)}
      /\ Range(a) = {a[i] : i \in 1..(Len(q) + 1)}
  BY <1>0, RangeSeq
<1>2. Len(q) \in Nat
  BY AppendOne
<1>3. \A i \in 1..(Len(q) + 1) : i \in 1..Len(q) \/ i = Len(q) + 1
  BY <1>2
<1>4. 1..Len(q) \subseteq 1..(Len(q) + 1) /\ Len(q) + 1 \in 1..(Len(q) + 1)
  BY <1>2
<1>5. (\A i \in 1..Len(q) : a[i] = q[i]) /\ a[Len(q) + 1] = x
  BY AppendOne DEF a
<1>6. Range(a) = Range(q) \cup {x}
  BY <1>1, <1>3, <1>4, <1>5
<1> QED
  BY <1>6 DEF a

LEMMA OneMore ==
    ASSUME NEW m \in Nat
    PROVE  1..m \cup {m + 1} = 1..(m + 1) /\ (m > 0 => 1..(m - 1) \cup {m} = 1..m)
OBVIOUS

\* A number above all those before it keeps a sequence in order.
LEMMA AppendInOrder ==
    ASSUME NEW q \in Seq(Nat), NEW x \in Nat, InOrder(q), \A y \in Range(q) : y < x
    PROVE  InOrder(Append(q, x))
<1> DEFINE a == Append(q, x)
<1>1. /\ Len(a) = Len(q) + 1 /\ Len(q) \in Nat
      /\ \A i \in 1..Len(q) : a[i] = q[i]
      /\ a[Len(q) + 1] = x
  BY AppendOne
<1>2. \A i \in 1..Len(q) : q[i] < x
  BY RangeSeq
<1> HIDE DEF a
<1>3. ASSUME NEW i \in 1..Len(a), NEW j \in 1..Len(a), i < j PROVE a[i] < a[j]
  <2>1. i \in 1..Len(q) /\ (j \in 1..Len(q) \/ j = Len(q) + 1)
    BY <1>1, <1>3
  <2> QED
    BY <1>1, <1>2, <1>3, <2>1 DEF InOrder
<1> QED
  BY <1>3 DEF InOrder, a

-----------------------------------------------------------------------------
(* The tape. *)

LEMMA CaptureTape ==
    ASSUME LiveTypes, NEW r \in Receivers, NEW m \in Nat, Capture(r, m)
    PROVE  /\ tape' \in Seq(Frames)
           /\ Len(tape') = Len(tape) + 1 /\ Len(tape) \in Nat
           /\ \A i \in 1..Len(tape) : tape'[i] = tape[i]
           /\ tape'[Len(tape) + 1].to = r /\ tape'[Len(tape) + 1].n = m
<1> DEFINE f == [to |-> r, n |-> m, at |-> clock]
<1>1. f \in Frames /\ f.to = r /\ f.n = m
  BY DEF LiveTypes, Frames
<1>2. tape' = Append(tape, f) /\ tape \in Seq(Frames)
  BY DEF Capture, LiveTypes
<1> HIDE DEF f
<1> QED
  BY <1>1, <1>2, AppendOne

LEMMA CaptureNumbers ==
    ASSUME LiveTypes, NEW r \in Receivers, NEW m \in Nat, Capture(r, m)
    PROVE  /\ Numbers(r)' = Numbers(r) \cup {m}
           /\ \A q \in Receivers \ {r} : Numbers(q)' = Numbers(q)
           /\ TapeInOrder /\ (\A x \in Numbers(r) : x < m) => TapeInOrder'
<1> DEFINE k == Len(tape) + 1
<1>1. /\ Len(tape') = k /\ Len(tape) \in Nat /\ k \in Nat
      /\ \A i \in 1..Len(tape) : tape'[i] = tape[i]
      /\ tape'[k].to = r /\ tape'[k].n = m
  BY CaptureTape
<1>2. 1..k = 1..Len(tape) \cup {k} /\ k \notin 1..Len(tape)
  BY <1>1
<1> HIDE DEF k
<1>3. /\ Positions(r)' = Positions(r) \cup {k}
      /\ \A q \in Receivers \ {r} : Positions(q)' = Positions(q)
  BY <1>1, <1>2 DEF Positions
<1>4. \A q : Positions(q) \subseteq 1..Len(tape)
  BY DEF Positions
<1>5. /\ Numbers(r)' = Numbers(r) \cup {m}
      /\ \A q \in Receivers \ {r} : Numbers(q)' = Numbers(q)
  BY <1>1, <1>3, <1>4 DEF Numbers
<1>6. ASSUME TapeInOrder, \A x \in Numbers(r) : x < m PROVE TapeInOrder'
  <2> SUFFICES ASSUME NEW i \in 1..Len(tape'), NEW j \in 1..Len(tape'), i < j, tape'[i].to = tape'[j].to
               PROVE  tape'[i].n < tape'[j].n
    BY DEF TapeInOrder
  <2>1. i \in 1..Len(tape)
    BY <1>1, <1>2 DEF k
  <2>2. CASE j \in 1..Len(tape)
    BY <1>1, <1>6, <2>1, <2>2 DEF TapeInOrder
  <2>3. CASE j = k
    <3>1. i \in Positions(r)
      BY <1>1, <2>1, <2>3 DEF Positions
    <3> QED
      BY <1>1, <1>6, <2>1, <2>3, <3>1 DEF Numbers
  <2> QED
    BY <1>1, <1>2, <2>2, <2>3
<1> QED
  BY <1>5, <1>6

-----------------------------------------------------------------------------
(* The steps of the producers. *)

LEMMA Kinds ==
    /\ Netdata \in Receivers /\ Files \subseteq Receivers /\ Routes \subseteq Receivers
    /\ Signals \subseteq Receivers /\ None \notin Receivers
    /\ \A i \in 1..Len(Shards) : Shards[i] \in Files
    /\ Len(Shards) \in Nat /\ Len(Shards) > 0
<1>1. \A i \in 1..Len(Shards) : Shards[i] \in Files
  <2>1. Shards \in Seq(Files)
    BY ReceiversAssumption
  <2> QED
    BY <2>1
<1> QED
  BY <1>1, ReceiversAssumption DEF Receivers

\* No receiver is served by two producers, and no signal is written to.
LEMMA OneServer ==
    ASSUME NEW p \in Producers, NEW q \in Producers, NEW r \in Receivers, Serves(p, r), Serves(q, r)
    PROVE  p = q /\ r \notin Signals
BY ReceiversAssumption DEF Serves

LEMMA OutputServes ==
    ASSUME LiveTypes, NEW p \in Producers, NEW r \in Receivers, OutputOf(p, r)
    PROVE  Serves(p, r)
BY Kinds DEF LiveTypes, OutputOf, Serves

LEMMA OneTurn ==
    ASSUME LiveTypes, NEW s \in Signals, NEW u \in Signals, Turn(s), Turn(u)
    PROVE  s = u
BY DEF Turn, Signals

LEMMA TurnType == ASSUME LiveTypes, NEW p \in Producers, NextTurn(p) PROVE turn' \in 1..Len(Shards)
BY Kinds DEF LiveTypes, NextTurn

LEMMA GotType ==
    ASSUME LiveTypes, NEW r \in Receivers, NEW n \in Nat
    PROVE  [got EXCEPT ![r] = Append(@, n)] \in [Receivers -> Seq(Nat)]
<1>1. Append(got[r], n) \in Seq(Nat)
  BY AppendOne DEF LiveTypes
<1> QED
  BY <1>1 DEF LiveTypes

LEMMA WriteTypes ==
    ASSUME LiveTypes, NEW p \in Producers, NEW r \in Receivers, Write(p, r) \/ WriteFails(p, r)
    PROVE  LiveTypes'
<1>1. made[r] + 1 \in Nat
  BY DEF LiveTypes
<1>2. got' \in [Receivers -> Seq(Nat)]
  <2>1. [got EXCEPT ![r] = Append(@, made[r] + 1)] \in [Receivers -> Seq(Nat)]
    BY <1>1, GotType
  <2>2. got' = [got EXCEPT ![r] = Append(@, made[r] + 1)] \/ got' = got
    BY DEF Write, WriteFails
  <2> QED
    BY <2>1, <2>2 DEF LiveTypes
<1>3. made' \in [Receivers -> Nat]
  BY <1>1 DEF LiveTypes, Write, WriteFails
<1> QED
  BY <1>2, <1>3, ZenonT(40) DEF LiveTypes, Write, WriteFails

LEMMA CaptureTypes ==
    ASSUME LiveTypes, NEW p \in Producers, Captured(p)
    PROVE  LiveTypes'
<1>1. held[p] \in Receivers /\ made[held[p]] \in Nat
  BY DEF LiveTypes, Captured
<1>2. tape' \in Seq(Frames)
  BY <1>1, CaptureTape DEF Captured
<1>3. turn' \in 1..Len(Shards)
  BY TurnType DEF Captured
<1> QED
  BY <1>2, <1>3 DEF LiveTypes, Captured

LEMMA SignalTypes ==
    ASSUME LiveTypes, NEW s \in Signals,
           Send(s) \/ (\E o \in Outcomes : Answer(s, o)) \/ (\E with \in SUBSET Signals : OtlpTick(with))
    PROVE  LiveTypes'
<1>0. s \in Receivers /\ made[s] \in Nat
  BY Kinds DEF LiveTypes
<1>1. CASE Send(s)
  <2>1. made[s] + 1 \in Nat
    BY <1>0
  <2>2. tape' \in Seq(Frames)
    BY <1>0, <1>1, <2>1, CaptureTape DEF Send
  <2>3. made' \in [Receivers -> Nat]
    BY <1>0, <1>1, <2>1 DEF LiveTypes, Send
  <2> QED
    BY <1>1, <2>2, <2>3 DEF LiveTypes, Send
<1>2. ASSUME NEW o \in Outcomes, Answer(s, o) PROVE LiveTypes'
  <2>1. got' \in [Receivers -> Seq(Nat)]
    <3>1. got' = [got EXCEPT ![s] = Append(@, made[s])] \/ got' = got
      BY <1>2 DEF Answer
    <3>2. [got EXCEPT ![s] = Append(@, made[s])] \in [Receivers -> Seq(Nat)]
      BY <1>0, GotType
    <3> QED
      BY <3>1, <3>2 DEF LiveTypes
  <2>2. answers' \in [Signals -> Seq(Outcomes)]
    <3>1. Append(answers[s], o) \in Seq(Outcomes)
      BY AppendOne DEF LiveTypes
    <3> QED
      BY <1>2, <3>1 DEF Answer, LiveTypes
  <2>3. fails' \in [Signals -> Nat] /\ givenUp' \subseteq Signals
    BY <1>2 DEF Answer, Record, Outcomes, LiveTypes
  <2> QED
    BY <1>2, <2>1, <2>2, <2>3 DEF Answer, LiveTypes
<1>3. ASSUME NEW with \in SUBSET Signals, OtlpTick(with) PROVE LiveTypes'
  BY <1>3 DEF OtlpTick, LiveTypes
<1> QED
  BY <1>1, <1>2, <1>3

\* The steps that write nothing.
Silent ==
    \/ \E p \in Producers : Ends(p)
    \/ Quiet \/ SeesDead
    \/ \E r \in Files : ReceiverExits(r)
    \/ Ask \/ Passes

LEMMA SilentTypes ==
    ASSUME LiveTypes, Silent \/ \E p \in Producers : Killed(p)
    PROVE  LiveTypes'
<1>1. ASSUME NEW p \in Producers, Ends(p) \/ Killed(p) PROVE LiveTypes'
  BY <1>1 DEF Ends, Killed, LiveTypes
<1>2. CASE Quiet
  BY <1>2, TurnType DEF Quiet, LiveTypes, Producers
<1>3. CASE SeesDead
  BY <1>3 DEF SeesDead, LiveTypes
<1>4. CASE Passes
  BY <1>4 DEF Passes, LiveTypes
<1>5. CASE Ask \/ \E r \in Files : ReceiverExits(r)
  BY <1>5 DEF Ask, ReceiverExits, LiveTypes
<1> QED
  BY <1>1, <1>2, <1>3, <1>4, <1>5 DEF Silent

LEMMA LiveTypesStep == ASSUME LiveTypes, LiveNext PROVE LiveTypes'
BY WriteTypes, CaptureTypes, SignalTypes, SilentTypes DEF LiveNext, Silent, Signals

LEMMA HoldStep == ASSUME LiveTypes, HoldInv, LiveNext PROVE HoldInv'
<1>1. ASSUME NEW p \in Producers, NEW r \in Receivers, Write(p, r) PROVE HoldInv'
  <2>1. Serves(p, r)
    BY <1>1, OutputServes DEF Write
  <2> QED
    BY <1>1, <2>1 DEF Write, HoldInv, LiveTypes, Serves
<1>2. ASSUME held' = held PROVE HoldInv'
  BY <1>2 DEF HoldInv, Serves
<1>3. ASSUME NEW p \in Producers, held' = [held EXCEPT ![p] = None] PROVE HoldInv'
  BY <1>3 DEF HoldInv, Serves, LiveTypes
<1>4. ASSUME NEW p \in Producers, Captured(p) \/ Killed(p) PROVE HoldInv'
  BY <1>3, <1>4 DEF Captured, Killed
<1>5. ASSUME NEW p \in Producers, NEW r \in Receivers, WriteFails(p, r) PROVE HoldInv'
  BY <1>2, <1>5 DEF WriteFails
<1>6. CASE Silent
  BY <1>2, <1>6 DEF Silent, Ends, Quiet, SeesDead, ReceiverExits, Ask, Passes
<1>7. ASSUME NEW s \in Signals, Send(s) \/ (\E o \in Outcomes : Answer(s, o)) PROVE HoldInv'
  BY <1>2, <1>7 DEF Send, Answer
<1>8. ASSUME NEW with \in SUBSET Signals, OtlpTick(with) PROVE HoldInv'
  BY <1>2, <1>8 DEF OtlpTick
<1> QED
  BY <1>1, <1>4, <1>5, <1>6, <1>7, <1>8 DEF LiveNext, Silent

\* Steps after which the recording is not whole, or that neither make nor capture.
LEMMA TapeStays ==
    ASSUME TapeInv, UNCHANGED <<tape, made, got, held, whole>>,
           \A s \in Signals : pc'["otlp"] = "sent" /\ Turn(s)' => pc["otlp"] = "sent" /\ Turn(s)
    PROVE  TapeInv'
<1>1. /\ TapeInOrder' <=> TapeInOrder
      /\ \A r : Numbers(r)' = Numbers(r) /\ (Holding(r)' <=> Holding(r))
  BY DEF TapeInOrder, Numbers, Positions, Holding
<1> QED
  BY <1>1 DEF TapeInv

LEMMA TapeWrite ==
    ASSUME LiveInv, NEW p \in Producers, NEW r \in Receivers, Write(p, r)
    PROVE  TapeInv'
<1> SUFFICES ASSUME whole PROVE TapeInv'
  BY DEF TapeInv, Write
<1>1. LiveTypes /\ HoldInv /\ TapeInv /\ made[r] \in Nat /\ got[r] \in Seq(Nat)
  BY DEF LiveInv, LiveTypes
<1>2. Serves(p, r) /\ r \notin Signals
  BY <1>1, OutputServes, OneServer DEF Write
<1>3. ~Holding(r)
  <2> SUFFICES ASSUME NEW q \in Producers, held[q] = r PROVE FALSE
    BY DEF Holding
  <2>1. Serves(q, r)
    BY <1>1, Kinds DEF HoldInv
  <2> QED
    BY <1>2, <2>1, OneServer, Kinds DEF Write
<1>4. /\ Numbers(r) = 1..made[r] /\ InOrder(got[r]) /\ Range(got[r]) = 1..made[r] /\ TapeInOrder
  BY <1>1, <1>2, <1>3 DEF TapeInv
<1>5. /\ made'[r] = made[r] + 1 /\ \A q \in Receivers \ {r} : made'[q] = made[q]
      /\ got'[r] = Append(got[r], made[r] + 1) /\ \A q \in Receivers \ {r} : got'[q] = got[q]
      /\ tape' = tape /\ whole' = whole /\ pc' = pc /\ todo' = todo
      /\ held'[p] = r /\ \A q \in Producers \ {p} : held'[q] = held[q]
      /\ held[p] = None
  BY <1>1 DEF Write, LiveTypes
<1>6. Holding(r)' /\ \A q \in Receivers \ {r} : Holding(q)' <=> Holding(q)
  BY <1>5, Kinds DEF Holding
<1>7. TapeInOrder' /\ \A q : Numbers(q)' = Numbers(q)
  BY <1>4, <1>5 DEF TapeInOrder, Numbers, Positions
<1>8. made[r] + 1 \in Nat /\ \A x \in 1..made[r] : x < made[r] + 1
  BY <1>1
<1>9. InOrder(got'[r])
  BY <1>1, <1>4, <1>5, <1>8, AppendInOrder
<1>10. Range(got'[r]) = 1..made'[r]
  <2>1. Range(got'[r]) = 1..made[r] \cup {made[r] + 1}
    BY <1>1, <1>4, <1>5, <1>8, AppendRange
  <2> QED
    BY <1>1, <1>5, <2>1, OneMore
<1>11. \A s \in Signals : Turn(s)' <=> Turn(s)
  BY <1>5 DEF Turn
<1>12. Numbers(r)' = 1..(made'[r] - 1) /\ made'[r] > 0
  BY <1>1, <1>4, <1>5, <1>7
<1>13. \A q \in Receivers \ {r} :
          /\ Numbers(q)' = 1..(IF Holding(q)' THEN made'[q] - 1 ELSE made'[q])
          /\ Holding(q)' => made'[q] > 0
          /\ InOrder(got'[q])
          /\ q \notin Signals => Range(got'[q]) = 1..made'[q]
  BY <1>1, <1>5, <1>6, <1>7 DEF TapeInv
<1>14. \A s \in Signals :
          /\ Range(got'[s]) \subseteq 1..made'[s]
          /\ pc'["otlp"] = "sent" /\ Turn(s)' => made'[s] > 0 /\ made'[s] \notin Range(got'[s])
  BY <1>1, <1>2, <1>5, <1>11, Kinds DEF TapeInv
<1>15. \A q \in Receivers :
          /\ Numbers(q)' = 1..(IF Holding(q)' THEN made'[q] - 1 ELSE made'[q])
          /\ Holding(q)' => made'[q] > 0
          /\ InOrder(got'[q])
          /\ q \notin Signals => Range(got'[q]) = 1..made'[q]
  BY <1>6, <1>9, <1>10, <1>12, <1>13
<1> QED
  BY <1>7, <1>14, <1>15 DEF TapeInv, InOrder

LEMMA TapeCapture ==
    ASSUME LiveInv, NEW p \in Producers, Captured(p)
    PROVE  TapeInv'
<1> SUFFICES ASSUME whole PROVE TapeInv'
  BY DEF TapeInv, Captured
<1>0. PICK r \in Receivers : r = held[p]
  BY DEF LiveInv, LiveTypes, Captured
<1>1. LiveTypes /\ HoldInv /\ TapeInv /\ made[r] \in Nat
  BY DEF LiveInv, LiveTypes
<1>2. Serves(p, r) /\ r \notin Signals
  BY <1>0, <1>1, OneServer DEF HoldInv, Captured
<1>3. Holding(r)
  BY <1>0 DEF Holding
<1>4. made[r] > 0 /\ Numbers(r) = 1..(made[r] - 1) /\ TapeInOrder
  BY <1>1, <1>3 DEF TapeInv
<1>5. /\ Numbers(r)' = Numbers(r) \cup {made[r]}
      /\ \A q \in Receivers \ {r} : Numbers(q)' = Numbers(q)
      /\ TapeInOrder'
  <2>1. \A x \in Numbers(r) : x < made[r]
    BY <1>1, <1>4
  <2>2. Capture(r, made[r])
    BY <1>0 DEF Captured
  <2> QED
    BY <1>1, <1>4, <2>1, <2>2, CaptureNumbers
<1>6. /\ UNCHANGED <<made, got, whole, todo, pc>>
      /\ held'[p] = None /\ \A q \in Producers \ {p} : held'[q] = held[q]
  BY <1>1 DEF Captured, LiveTypes
<1>7. ~Holding(r)'
  <2> SUFFICES ASSUME NEW q \in Producers, held'[q] = r PROVE FALSE
    BY DEF Holding
  <2>1. q # p /\ held[q] = r
    BY <1>6, Kinds
  <2>2. Serves(q, r)
    BY <1>1, <2>1, Kinds DEF HoldInv
  <2> QED
    BY <1>0, <1>2, <2>1, <2>2, OneServer
<1>8. \A q \in Receivers \ {r} : Holding(q)' <=> Holding(q)
  BY <1>0, <1>6, Kinds DEF Holding
<1>9. Numbers(r)' = 1..made[r]
  BY <1>1, <1>4, <1>5, OneMore
<1>10. \A s \in Signals : Turn(s)' <=> Turn(s)
  BY <1>6 DEF Turn
<1>11. \A q \in Receivers :
          /\ Numbers(q)' = 1..(IF Holding(q)' THEN made[q] - 1 ELSE made[q])
          /\ Holding(q)' => made[q] > 0
          /\ InOrder(got[q])
  BY <1>1, <1>5, <1>7, <1>8, <1>9 DEF TapeInv
<1>12. /\ \A q \in Receivers \ Signals : Range(got[q]) = 1..made[q]
       /\ \A s \in Signals :
             /\ Range(got[s]) \subseteq 1..made[s]
             /\ pc["otlp"] = "sent" /\ Turn(s) => made[s] > 0 /\ made[s] \notin Range(got[s])
  BY <1>1 DEF TapeInv
<1> QED
  BY <1>5, <1>6, <1>10, <1>11, <1>12 DEF TapeInv, InOrder

LEMMA TapeSend ==
    ASSUME LiveInv, NEW s \in Signals, Send(s)
    PROVE  TapeInv'
<1> SUFFICES ASSUME whole PROVE TapeInv'
  BY DEF TapeInv, Send
<1>1. LiveTypes /\ HoldInv /\ TapeInv /\ s \in Receivers /\ made[s] \in Nat /\ made[s] + 1 \in Nat
  BY Kinds DEF LiveInv, LiveTypes
<1>2. \A u \in Signals : ~Holding(u)
  BY <1>1, OneServer, Kinds DEF HoldInv, Holding
<1>3. Numbers(s) = 1..made[s] /\ TapeInOrder
  BY <1>1, <1>2 DEF TapeInv
<1>4. /\ Numbers(s)' = Numbers(s) \cup {made[s] + 1}
      /\ \A q \in Receivers \ {s} : Numbers(q)' = Numbers(q)
      /\ TapeInOrder'
  <2>1. \A x \in Numbers(s) : x < made[s] + 1
    BY <1>1, <1>3
  <2>2. Capture(s, made[s] + 1)
    BY DEF Send
  <2> QED
    BY <1>1, <1>3, <2>1, <2>2, CaptureNumbers
<1>5. /\ made'[s] = made[s] + 1 /\ \A q \in Receivers \ {s} : made'[q] = made[q]
      /\ UNCHANGED <<got, held, whole, todo>>
  BY <1>1 DEF Send, LiveTypes
<1>6. \A q : Holding(q)' <=> Holding(q)
  BY <1>5 DEF Holding
<1>7. Numbers(s)' = 1..made'[s]
  BY <1>1, <1>3, <1>4, <1>5, OneMore
<1>8. \A q \in Receivers :
          /\ Numbers(q)' = 1..(IF Holding(q)' THEN made'[q] - 1 ELSE made'[q])
          /\ Holding(q)' => made'[q] > 0
          /\ InOrder(got[q])
  BY <1>1, <1>2, <1>4, <1>5, <1>6, <1>7 DEF TapeInv
<1>9. \A q \in Receivers \ Signals : Range(got[q]) = 1..made'[q]
  BY <1>1, <1>5 DEF TapeInv
<1>10. Range(got[s]) \subseteq 1..made'[s] /\ made'[s] > 0 /\ made'[s] \notin Range(got[s])
  <2>1. Range(got[s]) \subseteq 1..made[s]
    BY <1>1 DEF TapeInv
  <2> QED
    BY <1>1, <1>5, <2>1
<1>11. ASSUME NEW u \in Signals
       PROVE  /\ Range(got[u]) \subseteq 1..made'[u]
              /\ Turn(u)' => made'[u] > 0 /\ made'[u] \notin Range(got[u])
  <2>1. CASE u = s
    BY <1>10, <2>1
  <2>2. CASE u # s
    <3>1. ~Turn(u)'
      BY <1>1, <1>5, <2>2, OneTurn DEF Send, Turn
    <3> QED
      BY <1>1, <1>5, <2>2, <3>1, Kinds DEF TapeInv
  <2> QED
    BY <2>1, <2>2
<1> QED
  BY <1>4, <1>5, <1>8, <1>9, <1>11 DEF TapeInv, InOrder

LEMMA TapeAnswer ==
    ASSUME LiveInv, NEW s \in Signals, NEW o \in Outcomes, Answer(s, o)
    PROVE  TapeInv'
<1> SUFFICES ASSUME whole PROVE TapeInv'
  BY DEF TapeInv, Answer
<1>1. LiveTypes /\ TapeInv /\ s \in Receivers /\ made[s] \in Nat /\ got[s] \in Seq(Nat)
  BY Kinds DEF LiveInv, LiveTypes
<1>2. /\ made[s] > 0 /\ made[s] \notin Range(got[s]) /\ Range(got[s]) \subseteq 1..made[s]
      /\ InOrder(got[s]) /\ TapeInOrder
  BY <1>1 DEF TapeInv, Answer
<1>3. /\ pc'["otlp"] # "sent" /\ UNCHANGED <<tape, made, held, whole>>
      /\ got'[s] = Append(got[s], made[s]) \/ got'[s] = got[s]
      /\ \A q \in Receivers \ {s} : got'[q] = got[q]
  <2>1. got' = [got EXCEPT ![s] = Append(@, made[s])] \/ got' = got
    BY DEF Answer
  <2>2. got \in [Receivers -> Seq(Nat)] /\ pc \in [Producers -> {"run", "sent", "ended"}]
    BY <1>1 DEF LiveTypes
  <2>3. /\ got'[s] = Append(got[s], made[s]) \/ got'[s] = got[s]
        /\ \A q \in Receivers \ {s} : got'[q] = got[q]
    BY <1>1, <2>1, <2>2
  <2>4. pc' = [pc EXCEPT !["otlp"] = "run"] /\ UNCHANGED <<tape, made, held, whole>>
    BY DEF Answer
  <2>5. pc'["otlp"] # "sent"
    BY <2>2, <2>4 DEF Producers
  <2> QED
    BY <2>3, <2>4, <2>5
<1>4. InOrder(got'[s]) /\ Range(got'[s]) \subseteq 1..made[s]
  <2>1. \A x \in Range(got[s]) : x < made[s]
    BY <1>1, <1>2
  <2>2. InOrder(Append(got[s], made[s]))
    BY <1>1, <1>2, <2>1, AppendInOrder
  <2>3. Range(Append(got[s], made[s])) = Range(got[s]) \cup {made[s]} /\ made[s] \in 1..made[s]
    BY <1>1, <1>2, AppendRange
  <2> QED
    BY <1>2, <1>3, <2>2, <2>3
<1>5. TapeInOrder' /\ \A q : Numbers(q)' = Numbers(q) /\ (Holding(q)' <=> Holding(q))
  BY <1>2, <1>3 DEF TapeInOrder, Numbers, Positions, Holding
<1>6. \A q \in Receivers :
          /\ Numbers(q)' = 1..(IF Holding(q)' THEN made[q] - 1 ELSE made[q])
          /\ Holding(q)' => made[q] > 0
          /\ InOrder(got'[q])
  BY <1>1, <1>3, <1>4, <1>5 DEF TapeInv
<1>7. \A q \in Receivers \ Signals : Range(got'[q]) = 1..made[q]
  BY <1>1, <1>3 DEF TapeInv
<1>8. \A u \in Signals : Range(got'[u]) \subseteq 1..made[u]
  BY <1>1, <1>3, <1>4, Kinds DEF TapeInv
<1> QED
  BY <1>3, <1>5, <1>6, <1>7, <1>8 DEF TapeInv, InOrder

LEMMA TapeStep == ASSUME LiveInv, LiveNext PROVE TapeInv'
<1>1. TapeInv
  BY DEF LiveInv
<1>2. ASSUME NEW p \in Producers, Killed(p) \/ \E r \in Receivers : WriteFails(p, r) PROVE TapeInv'
  BY <1>2 DEF Killed, WriteFails, TapeInv
<1>3. CASE Silent \/ \E with \in SUBSET Signals : OtlpTick(with)
  <2>1. /\ UNCHANGED <<tape, made, got, held, whole>>
        /\ pc'["otlp"] = "sent" => pc["otlp"] = "sent" /\ todo' = todo
    <3>0. pc \in [Producers -> {"run", "sent", "ended"}]
      BY DEF LiveInv, LiveTypes
    <3>1. ASSUME NEW p \in Producers, pc' = [pc EXCEPT ![p] = "ended"]
          PROVE  pc'["otlp"] = "sent" => pc["otlp"] = "sent"
      BY <3>0, <3>1 DEF Producers
    <3>2. CASE \E p \in Producers : Ends(p)
      BY <3>1, <3>2 DEF Ends
    <3>3. CASE SeesDead
      BY <3>1, <3>3 DEF SeesDead, Producers
    <3>4. CASE Quiet \/ (\E r \in Files : ReceiverExits(r)) \/ Ask \/ Passes
      BY <3>4 DEF Quiet, ReceiverExits, Ask, Passes
    <3>5. CASE \E with \in SUBSET Signals : OtlpTick(with)
      BY <3>5 DEF OtlpTick
    <3> QED
      BY <1>3, <3>2, <3>3, <3>4, <3>5 DEF Silent
  <2> QED
    BY <1>1, <2>1, TapeStays DEF Turn
<1> QED
  BY <1>2, <1>3, TapeWrite, TapeCapture, TapeSend, TapeAnswer DEF LiveNext, Silent

-----------------------------------------------------------------------------
(* The signals. *)

\* Refusals, of a sequence of answers.
RefusedIn(a) ==
    {i \in 1..Len(a) : a[i] = "refused" /\ \A j \in i..Len(a) : a[j] # "ok"}

LEMMA RefusedAppend ==
    ASSUME NEW a \in Seq(Outcomes), NEW o \in Outcomes
    PROVE  /\ Cardinality(RefusedIn(a)) \in Nat
           /\ Cardinality(RefusedIn(Append(a, o))) =
                CASE o = "ok"      -> 0
                  [] o = "late"    -> Cardinality(RefusedIn(a))
                  [] o = "refused" -> Cardinality(RefusedIn(a)) + 1
<1> DEFINE b == Append(a, o)
           n == Len(a)
<1>1. /\ n \in Nat /\ Len(b) = n + 1
      /\ \A i \in 1..n : b[i] = a[i]
      /\ b[n + 1] = o
  BY AppendOne
<1> HIDE DEF b
<1>2. IsFiniteSet(RefusedIn(a)) /\ Cardinality(RefusedIn(a)) \in Nat
  <2>1. IsFiniteSet(1..n)
    BY <1>1, FS_Interval
  <2>2. RefusedIn(a) \subseteq 1..n
    BY DEF RefusedIn
  <2>3. IsFiniteSet(RefusedIn(a))
    BY <2>1, <2>2, FS_Subset
  <2> QED
    BY <2>3, FS_CardinalityType
<1>3. \A i \in 1..n : n + 1 \in i..Len(b) /\ \A j \in i..Len(b) : j \in i..n \/ j = n + 1
  BY <1>1
<1>4. CASE o = "ok"
  <2>1. RefusedIn(b) = {}
    BY <1>1, <1>3, <1>4 DEF RefusedIn
  <2> QED
    BY <1>2, <1>4, <2>1, FS_EmptySet DEF b
<1>5. CASE o = "late"
  <2>1. RefusedIn(b) = RefusedIn(a)
    BY <1>1, <1>5 DEF RefusedIn
  <2> QED
    BY <1>2, <1>5, <2>1 DEF b
<1>6. CASE o = "refused"
  <2>1. RefusedIn(b) = RefusedIn(a) \cup {n + 1} /\ n + 1 \notin RefusedIn(a)
    BY <1>1, <1>6 DEF RefusedIn
  <2> QED
    BY <1>2, <1>6, <2>1, FS_AddElement DEF b
<1> QED
  BY <1>4, <1>5, <1>6 DEF Outcomes

LEMMA SignalAnswer ==
    ASSUME LiveInv, NEW s \in Signals, NEW o \in Outcomes, Answer(s, o)
    PROVE  SignalInv'
<1> DEFINE n == CASE o = "ok" -> 0 [] o = "late" -> fails[s] [] o = "refused" -> fails[s] + 1
<1>1. LiveTypes /\ SignalInv
  BY DEF LiveInv
<1>2. /\ fails[s] = Cardinality(RefusedIn(answers[s])) /\ fails[s] \in Nat
      /\ answers[s] \in Seq(Outcomes) /\ s \notin givenUp
  BY <1>1 DEF LiveTypes, SignalInv, Refusals, RefusedIn, Answer, Turn
<1>3. /\ fails' = [fails EXCEPT ![s] = n]
      /\ givenUp' = IF n >= GiveUpAfter THEN givenUp \cup {s} ELSE givenUp
      /\ answers' = [answers EXCEPT ![s] = Append(@, o)]
      /\ todo' = todo \ {s}
  BY DEF Answer, Record
<1>4. n = Cardinality(RefusedIn(Append(answers[s], o)))
  BY <1>2, RefusedAppend DEF Outcomes
<1> HIDE DEF n
<1>5. /\ fails'[s] = n /\ \A u \in Signals \ {s} : fails'[u] = fails[u]
      /\ answers'[s] = Append(answers[s], o) /\ \A u \in Signals \ {s} : answers'[u] = answers[u]
  BY <1>1, <1>3 DEF LiveTypes
<1>6. \A u : Refusals(u)' = RefusedIn(answers'[u]) /\ Refusals(u) = RefusedIn(answers[u])
  BY DEF Refusals, RefusedIn
<1>7. \A u \in Signals : fails'[u] = Cardinality(Refusals(u)')
  BY <1>1, <1>4, <1>5, <1>6 DEF SignalInv
<1>8. \A u \in Signals : u \in givenUp' <=> fails'[u] >= GiveUpAfter
  BY <1>1, <1>2, <1>3, <1>5 DEF SignalInv
<1>9. \A u \in Signals : u \in todo' => u \notin givenUp'
  BY <1>1, <1>3 DEF SignalInv
<1> QED
  BY <1>7, <1>8, <1>9 DEF SignalInv

LEMMA SignalStep == ASSUME LiveInv, LiveNext PROVE SignalInv'
<1>0. ASSUME UNCHANGED signalVars, \A s \in todo' : s \in todo \/ s \notin givenUp PROVE SignalInv'
  <2>1. \A s : Refusals(s)' = Refusals(s)
    BY <1>0 DEF Refusals
  <2> QED
    BY <1>0, <2>1 DEF LiveInv, SignalInv
<1>1. ASSUME UNCHANGED signalVars, todo' \subseteq todo PROVE SignalInv'
  BY <1>0, <1>1
<1>2. ASSUME NEW with \in SUBSET Signals, OtlpTick(with) PROVE SignalInv'
  BY <1>0, <1>2 DEF OtlpTick
<1>3. ASSUME NEW p \in Producers,
             Captured(p) \/ Ends(p) \/ Killed(p) \/ \E r \in Receivers : Write(p, r) \/ WriteFails(p, r)
      PROVE  SignalInv'
  BY <1>1, <1>3 DEF Captured, Ends, Killed, Write, WriteFails
<1>4. CASE Silent \/ \E s \in Signals : Send(s)
  BY <1>1, <1>4 DEF Silent, Ends, Quiet, SeesDead, ReceiverExits, Ask, Passes, Send
<1> QED
  BY <1>2, <1>3, <1>4, SignalAnswer DEF LiveNext, Silent

LEMMA LiveStep == ASSUME LiveInv, LiveNext PROVE LiveInv'
BY LiveTypesStep, HoldStep, TapeStep, SignalStep DEF LiveInv

-----------------------------------------------------------------------------
(* The beginning: producers at work, or a recording that is finalized. *)

LEMMA NoSuch == ASSUME NEW S PROVE << >> \in Seq(S) /\ Len(<< >>) = 0 /\ Range(<< >>) = {} /\ 1..0 = {}
<1>1. << >> \in Seq(S) /\ Len(<< >>) = 0 /\ 1..0 = {}
  OBVIOUS
<1>2. Range(<< >>) = {}
  BY <1>1, RangeSeq
<1> QED
  BY <1>1, <1>2

\* The signals have nothing to answer for.
LEMMA SignalsAnew ==
    ASSUME fails = [s \in Signals |-> 0], answers = [s \in Signals |-> << >>], givenUp = {}
    PROVE  SignalInv
<1>1. \A s \in Signals : Refusals(s) = {}
  BY NoSuch DEF Refusals
<1> QED
  BY <1>1, FS_EmptySet, LiveBounds DEF SignalInv

LEMMA LiveStart == LiveInit => LiveInv
<1> SUFFICES ASSUME LiveInit PROVE LiveInv
  OBVIOUS
<1>1. LiveTypes
  <2>1. 1 \in 1..Len(Shards)
    BY Kinds
  <2> QED
    BY <2>1 DEF LiveInit, LiveTypes
<1>2. HoldInv /\ \A r \in Receivers : ~Holding(r)
  BY Kinds DEF LiveInit, HoldInv, Holding
<1>3. \A r : Numbers(r) = {}
  BY NoSuch DEF LiveInit, Numbers, Positions
<1>4. TapeInv
  <2>1. pc["otlp"] # "sent"
    BY DEF LiveInit, Producers
  <2>2. TapeInOrder
    BY NoSuch DEF LiveInit, TapeInOrder
  <2>3. \A r \in Receivers : InOrder(got[r]) /\ Range(got[r]) = {} /\ made[r] = 0
    BY NoSuch DEF LiveInit, InOrder
  <2> QED
    BY <1>2, <1>3, <2>1, <2>2, <2>3, NoSuch, Kinds DEF TapeInv
<1>5. SignalInv
  BY SignalsAnew DEF LiveInit
<1> QED
  BY <1>1, <1>2, <1>4, <1>5 DEF LiveInv

\* The numbers of a set of places, by what comes before each of them.
LEMMA Numbering ==
    ASSUME NEW n \in Nat, NEW P \in SUBSET (1..n)
    PROVE  /\ IsFiniteSet(P) /\ Cardinality(P) \in Nat
           /\ \A i \in P : Cardinality(P \cap 1..i) \in 1..Cardinality(P)
           /\ \A i, j \in P : i < j => Cardinality(P \cap 1..i) < Cardinality(P \cap 1..j)
           /\ {Cardinality(P \cap 1..i) : i \in P} = 1..Cardinality(P)
<1> DEFINE before(i) == P \cap 1..i
           f == [i \in P |-> Cardinality(before(i))]
<1>0. IsFiniteSet(P) /\ Cardinality(P) \in Nat
  <2>1. IsFiniteSet(1..n)
    BY FS_Interval
  <2>2. IsFiniteSet(P)
    BY <2>1, FS_Subset
  <2> QED
    BY <2>2, FS_CardinalityType
<1>1. ASSUME NEW i \in P PROVE Cardinality(before(i)) \in 1..Cardinality(P)
  <2>1. before(i) \subseteq P /\ i \in before(i)
    OBVIOUS
  <2>2. IsFiniteSet(before(i)) /\ Cardinality(before(i)) <= Cardinality(P)
    BY <1>0, <2>1, FS_Subset
  <2>3. Cardinality(before(i)) \in Nat
    BY <2>2, FS_CardinalityType
  <2>4. Cardinality(before(i)) # 0
    BY <2>1, <2>2, FS_EmptySet
  <2> QED
    BY <1>0, <2>2, <2>3, <2>4
<1>2. ASSUME NEW i \in P, NEW j \in P, i < j PROVE Cardinality(before(i)) < Cardinality(before(j))
  <2>1. before(i) \subseteq before(j) /\ j \in before(j) /\ j \notin before(i)
    BY <1>2
  <2>2. IsFiniteSet(before(j))
    <3>1. before(j) \subseteq P
      OBVIOUS
    <3> QED
      BY <1>0, <3>1, FS_Subset
  <2>3. Cardinality(before(i)) <= Cardinality(before(j)) /\ Cardinality(before(i)) # Cardinality(before(j))
    BY <2>1, <2>2, FS_Subset
  <2> QED
    BY <1>1, <2>3
<1>3. f \in Injection(P, 1..Cardinality(P))
  <2>1. f \in [P -> 1..Cardinality(P)]
    BY <1>1
  <2>2. ASSUME NEW i \in P, NEW j \in P, f[i] = f[j] PROVE i = j
    <3>1. ~(i < j) /\ ~(j < i)
      BY <1>1, <1>2, <2>2
    <3> QED
      BY <3>1
  <2> QED
    BY <2>1, <2>2 DEF Injection, IsInjective
<1>4. f \in Surjection(P, 1..Cardinality(P))
  <2>1. IsFiniteSet(1..Cardinality(P)) /\ Cardinality(1..Cardinality(P)) = Cardinality(P)
    BY <1>0, FS_Interval
  <2> QED
    BY <1>3, <2>1, FS_Injection
<1>5. {Cardinality(before(i)) : i \in P} = 1..Cardinality(P)
  <2>1. \A k \in 1..Cardinality(P) : \E i \in P : f[i] = k
    BY <1>4 DEF Surjection
  <2> QED
    BY <1>1, <2>1
<1> QED
  BY <1>0, <1>1, <1>2, <1>5

LEMMA CountingUp ==
    ASSUME NEW m \in Nat, NEW q, q = [i \in 1..m |-> i]
    PROVE  q \in Seq(Nat) /\ InOrder(q) /\ Range(q) = 1..m
<1>1. q \in [1..m -> Nat] /\ \A i \in 1..m : q[i] = i
  OBVIOUS
<1>2. q \in Seq(Nat) /\ Len(q) = m
  BY <1>1
<1>3. InOrder(q)
  BY <1>1, <1>2 DEF InOrder
<1>4. Range(q) = {q[i] : i \in 1..m}
  BY <1>2, RangeSeq
<1> QED
  BY <1>1, <1>2, <1>3, <1>4, SMTT(30)

LEMMA ArchiveStart == Archive => LiveInv
<1> SUFFICES ASSUME Archive PROVE LiveInv
  OBVIOUS
<1>1. PICK to \in BoundedSeq(Receivers, MaxFrames) :
        \E after \in 0..MaxFrames :
            tape = [i \in 1..Len(to) |->
                [to |-> to[i], n |-> Cardinality({j \in 1..i : to[j] = to[i]}),
                 at |-> IF i <= after THEN 0 ELSE MaxClock]]
  BY DEF Archive
<1>2. PICK after \in 0..MaxFrames :
        tape = [i \in 1..Len(to) |->
                [to |-> to[i], n |-> Cardinality({j \in 1..i : to[j] = to[i]}),
                 at |-> IF i <= after THEN 0 ELSE MaxClock]]
  BY <1>1
<1>3. PICK n \in Nat : to \in [1..n -> Receivers]
  <2>1. PICK n \in 0..MaxFrames : to \in [1..n -> Receivers]
    BY DEF BoundedSeq, SeqOf
  <2> QED
    BY <2>1, LiveBounds
<1>4. Len(to) = n
  BY <1>3
<1>5. tape = [i \in 1..n |->
                [to |-> to[i], n |-> Cardinality({j \in 1..i : to[j] = to[i]}),
                 at |-> IF i <= after THEN 0 ELSE MaxClock]]
  BY <1>2, <1>4
<1>6. Len(tape) = n /\ \A i \in 1..n : tape[i].to = to[i] /\ tape[i].to \in Receivers
  BY <1>3, <1>5
<1>7. \A r : Positions(r) = {i \in 1..n : to[i] = r}
  BY <1>6 DEF Positions
<1>8. \A i \in 1..n : tape[i].n = Cardinality(Positions(to[i]) \cap 1..i)
  <2> SUFFICES ASSUME NEW i \in 1..n PROVE tape[i].n = Cardinality(Positions(to[i]) \cap 1..i)
    OBVIOUS
  <2>1. {j \in 1..i : to[j] = to[i]} = Positions(to[i]) \cap 1..i
    BY <1>7
  <2> QED
    BY <1>5, <2>1
<1>9. \A r : Positions(r) \in SUBSET (1..n)
  BY <1>7
<1>10. ASSUME NEW r
       PROVE  /\ Cardinality(Positions(r)) \in Nat
              /\ Numbers(r) = 1..Cardinality(Positions(r))
              /\ \A i, j \in Positions(r) : i < j => tape[i].n < tape[j].n
              /\ \A i \in Positions(r) : tape[i].n \in Nat
  <2>1. \A i \in Positions(r) : tape[i].n = Cardinality(Positions(r) \cap 1..i)
    BY <1>7, <1>8
  <2>2. /\ Cardinality(Positions(r)) \in Nat
        /\ \A i \in Positions(r) : Cardinality(Positions(r) \cap 1..i) \in 1..Cardinality(Positions(r))
        /\ \A i, j \in Positions(r) :
              i < j => Cardinality(Positions(r) \cap 1..i) < Cardinality(Positions(r) \cap 1..j)
        /\ {Cardinality(Positions(r) \cap 1..i) : i \in Positions(r)} = 1..Cardinality(Positions(r))
    BY <1>9, Numbering
  <2>3. Numbers(r) = {Cardinality(Positions(r) \cap 1..i) : i \in Positions(r)}
    BY <2>1 DEF Numbers
  <2>4. ASSUME NEW i \in Positions(r) PROVE tape[i].n \in Nat
    <3>1. Cardinality(Positions(r) \cap 1..i) \in 1..Cardinality(Positions(r))
      BY <2>2
    <3>2. Cardinality(Positions(r) \cap 1..i) \in Nat
      BY <2>2, <3>1
    <3>3. tape[i].n = Cardinality(Positions(r) \cap 1..i)
      BY <2>1
    <3> QED
      BY <3>2, <3>3
  <2>5. ASSUME NEW i \in Positions(r), NEW j \in Positions(r), i < j PROVE tape[i].n < tape[j].n
    <3>1. Cardinality(Positions(r) \cap 1..i) < Cardinality(Positions(r) \cap 1..j)
      BY <2>2, <2>5
    <3>2. /\ tape[i].n = Cardinality(Positions(r) \cap 1..i)
          /\ tape[j].n = Cardinality(Positions(r) \cap 1..j)
      BY <2>1
    <3> QED
      BY <3>1, <3>2
  <2>6. Cardinality(Positions(r)) \in Nat /\ Numbers(r) = 1..Cardinality(Positions(r))
    BY <2>2, <2>3
  <2> QED
    BY <2>4, <2>5, <2>6
<1>11. TapeInOrder
  BY <1>6, <1>10 DEF TapeInOrder, Positions
<1>12. tape \in Seq(Frames)
  <2>1. \A i \in 1..n : tape[i] \in Frames
    <3> SUFFICES ASSUME NEW i \in 1..n PROVE tape[i] \in Frames
      OBVIOUS
    <3>1. tape[i].n \in Nat /\ tape[i].to \in Receivers
      BY <1>6, <1>10 DEF Positions
    <3>2. \E x, y, z : tape[i] = [to |-> x, n |-> y, at |-> z] /\ z \in Nat
      BY <1>5, LiveBounds
    <3> QED
      BY <3>1, <3>2 DEF Frames
  <2>2. tape \in [1..n -> Frames]
    BY <1>5, <2>1
  <2> QED
    BY <2>2
<1>13. \A r \in Receivers :
          /\ made[r] = Cardinality(Positions(r)) /\ made[r] \in Nat
          /\ got[r] = [i \in 1..made[r] |-> i]
  BY <1>10 DEF Archive
<1>14. \A r \in Receivers : got[r] \in Seq(Nat) /\ InOrder(got[r]) /\ Range(got[r]) = 1..made[r]
  <2> SUFFICES ASSUME NEW r \in Receivers
               PROVE  got[r] \in Seq(Nat) /\ InOrder(got[r]) /\ Range(got[r]) = 1..made[r]
    OBVIOUS
  <2>1. made[r] \in Nat /\ got[r] = [i \in 1..made[r] |-> i]
    BY <1>13
  <2> QED
    BY <2>1, CountingUp
<1>15. LiveTypes
  <2>1. made \in [Receivers -> Nat] /\ got \in [Receivers -> Seq(Nat)]
    BY <1>13, <1>14 DEF Archive
  <2>2. answers \in [Signals -> Seq(Outcomes)] /\ fails \in [Signals -> Nat]
    BY NoSuch DEF Archive
  <2>3. turn \in 1..Len(Shards) /\ clock \in Nat
    BY Kinds, LiveBounds DEF Archive
  <2> QED
    BY <1>12, <2>1, <2>2, <2>3 DEF Archive, LiveTypes
<1>16. HoldInv /\ \A r \in Receivers : ~Holding(r)
  BY Kinds DEF Archive, HoldInv, Holding
<1>17. TapeInv
  <2>1. pc["otlp"] # "sent"
    BY DEF Archive, Producers
  <2> QED
    BY <1>10, <1>11, <1>13, <1>14, <1>16, <2>1, Kinds DEF TapeInv
<1>18. SignalInv
  BY SignalsAnew DEF Archive
<1> QED
  BY <1>15, <1>16, <1>17, <1>18 DEF LiveInv

\* What a complete recording holds.
LEMMA LiveKept == LiveInv => Recorded /\ GaveUpAlone
<1> SUFFICES ASSUME LiveInv PROVE Recorded /\ GaveUpAlone
  OBVIOUS
<1>1. GaveUpAlone
  BY DEF LiveInv, SignalInv, GaveUpAlone
<1>2. ASSUME whole PROVE Recorded
  <2>1. TapeInv /\ HoldInv /\ LiveTypes
    BY DEF LiveInv
  <2>2. ASSUME NEW r \in Receivers \ Signals PROVE Range(got[r]) = Numbers(r) \cup Pending(r)
    <3>1. made[r] \in Nat /\ Range(got[r]) = 1..made[r]
      BY <1>2, <2>1 DEF TapeInv, LiveTypes
    <3>2. CASE Holding(r)
      <4>1. Pending(r) = {made[r]} /\ made[r] > 0 /\ Numbers(r) = 1..(made[r] - 1)
        BY <1>2, <2>1, <3>2 DEF TapeInv, Pending, Holding
      <4> QED
        BY <3>1, <4>1, OneMore
    <3>3. CASE ~Holding(r)
      BY <1>2, <2>1, <3>1, <3>3 DEF TapeInv, Pending, Holding
    <3> QED
      BY <3>2, <3>3
  <2>3. ASSUME NEW s \in Signals PROVE Range(got[s]) \subseteq Numbers(s)
    <3>1. s \in Receivers /\ ~Holding(s)
      BY <2>1, OneServer, Kinds DEF HoldInv, Holding
    <3> QED
      BY <1>2, <2>1, <3>1 DEF TapeInv
  <2> QED
    BY <1>2, <2>1, <2>2, <2>3 DEF Recorded, TapeInv
<1> QED
  BY <1>1, <1>2 DEF Recorded

-----------------------------------------------------------------------------
(* The replay. *)

Given(r) == Range(rgot[r])

ReplayTypes ==
    /\ pos \in Nat /\ up \subseteq Files
    /\ rgot \in [Receivers -> Seq(Nat)] /\ taken \in [Receivers -> Nat]
    /\ queue \in [Routes -> SUBSET Nat]

\* Nothing is replayed before the recording is opened.
Fresh ==
    rpc \in {"off", "archive"} =>
        /\ pos = 0 /\ up = {} /\ lost = {} /\ ~acked /\ ~early
        /\ \A r \in Receivers : rgot[r] = << >> /\ taken[r] = 0

\* Which mode can be where.
Course ==
    /\ rpc \in {"next", "retry", "drop", "failing"} => mode # "exporters"
    /\ rpc = "accept" => mode = "exporters"
    /\ rpc = "retry" => mode = "otlp"
    /\ rpc \in {"drop", "failing"} => mode = "journal"
    /\ mode # "journal" => up = {}

\* The frames of this mode before place x have been delivered.
AllBefore(x) ==
    \A i \in 1..Len(tape) :
        ModeOf(tape[i].to) = mode /\ i < x => i \in Given(tape[i].to) \cup lost

\* A mode that goes through the tape once has delivered what is behind it. The present
\* frame can have been delivered too if it is the first of an OTLP replay that has had
\* no acknowledgement yet.
Through ==
    mode # "exporters" =>
        /\ \A r \in Receivers : \A i \in Given(r) : i <= pos
        /\ rpc = "next" => AllBefore(pos + 1)
        /\ rpc \in {"pace", "retry"} =>
              /\ pos \in 1..Len(tape) /\ ModeOf(tape[pos].to) = mode
              /\ AllBefore(pos)
              /\ pos \in Given(tape[pos].to) => mode = "otlp" /\ ~acked
        /\ rpc \in {"drop", "ok"} => AllBefore(Len(tape) + 1)
        /\ mode = "otlp" /\ ~acked =>
              /\ rpc = "next" => pos = 0
              /\ rpc \in {"pace", "retry"} => \A j \in 1..(pos - 1) : tape[j].to \notin Signals

\* A journal receiver runs, or has been killed, or has read all that it was given.
Piped ==
    /\ \A r \in Files : r \in up \/ r \in gone \/ taken[r] = Len(rgot[r])
    /\ rpc = "pace" /\ mode = "journal" => tape[pos].to \in up
    /\ rpc = "ok" => up = {}

\* A route has been given, or a client that was gone has, what its queue no longer
\* holds, and all of that comes before what it holds.
Serving ==
    mode = "exporters" /\ rpc \notin {"off", "archive", "refused"} =>
        /\ \A r \in Routes :
              /\ queue[r] \subseteq Positions(r)
              /\ Positions(r) \ queue[r] \subseteq Given(r) \cup lost
              /\ \A i \in Given(r), j \in queue[r] : i < j
        /\ rpc = "pace" => client \in Routes /\ pos \in queue[client] /\ \A j \in queue[client] : pos <= j
        /\ rpc = "ok" => \A r \in Routes : queue[r] = {}

ReplayInv == ReplayTypes /\ Fresh /\ Course /\ Faithful /\ Through /\ Piped /\ Serving

LEMMA ModeKinds ==
    ASSUME NEW r \in Receivers
    PROVE  /\ ModeOf(r) = "metrics" => r = Netdata /\ r \notin Files
           /\ ModeOf(r) = "journal" <=> r \in Files
           /\ ModeOf(r) = "otlp" <=> r \in Signals
           /\ ModeOf(r) = "exporters" <=> r \in Routes
BY ReceiversAssumption DEF ModeOf, Receivers

\* What the tape is made of.
LEMMA OnTape ==
    ASSUME LiveInv
    PROVE  /\ Len(tape) \in Nat
           /\ \A i \in 1..Len(tape) : tape[i].to \in Receivers /\ i \in Positions(tape[i].to) /\ i \in Nat
           /\ \A r : \A i \in Positions(r) : i \in 1..Len(tape) /\ tape[i].to = r
<1>1. tape \in Seq(Frames)
  BY DEF LiveInv, LiveTypes
<1>2. Len(tape) \in Nat /\ \A i \in 1..Len(tape) : tape[i] \in Frames
  BY <1>1
<1> QED
  BY <1>2 DEF Positions, Frames

-----------------------------------------------------------------------------
(* Delivery. *)

LEMMA GivenMore ==
    ASSUME ReplayTypes, NEW r \in Receivers, NEW i \in Nat, Delivers(r, i)
    PROVE  /\ rgot' \in [Receivers -> Seq(Nat)]
           /\ rgot'[r] = Append(rgot[r], i) /\ \A q \in Receivers \ {r} : rgot'[q] = rgot[q]
           /\ Given(r)' = Given(r) \cup {i} /\ \A q \in Receivers \ {r} : Given(q)' = Given(q)
<1>1. rgot \in [Receivers -> Seq(Nat)] /\ rgot[r] \in Seq(Nat)
  BY DEF ReplayTypes
<1>2. Append(rgot[r], i) \in Seq(Nat)
  BY <1>1, AppendOne
<1>3. rgot' = [rgot EXCEPT ![r] = Append(@, i)]
  BY DEF Delivers
<1>4. /\ rgot' \in [Receivers -> Seq(Nat)]
      /\ rgot'[r] = Append(rgot[r], i) /\ \A q \in Receivers \ {r} : rgot'[q] = rgot[q]
  BY <1>1, <1>2, <1>3
<1>5. Range(Append(rgot[r], i)) = Range(rgot[r]) \cup {i}
  BY <1>1, AppendRange
<1> QED
  BY <1>4, <1>5 DEF Given

\* What Faithful says of one receiver.
FaithfulTo(r) ==
    LET want == Positions(r)
        first(i) == i # 0 /\ r \in Signals /\ \A j \in 1..(i - 1) : tape[j].to \notin Signals
        have == rgot[r]
    IN  /\ \A k \in 1..Len(have) :
            have[k] \in want /\ (k > 1 => have[k - 1] <= have[k])
        /\ \A k \in 2..Len(have) : have[k - 1] = have[k] => first(have[k])
        /\ \A i \in want :
            (\E k \in 1..Len(have) : have[k] > i) => i \in Range(have) \cup lost

LEMMA FaithfulParts == Faithful <=> ~early /\ \A r \in Receivers : FaithfulTo(r)
BY DEF Faithful, FaithfulTo

\* A frame that comes after all that its receiver was given, with nothing left out
\* between them, can be delivered; so can one again that may be repeated.
LEMMA Delivery ==
    ASSUME LiveInv, ReplayTypes, Faithful, UNCHANGED <<tape, lost>>,
           NEW r \in Receivers, NEW i \in Positions(r), Delivers(r, i), Due(i),
           \A j \in Given(r) : j <= i,
           \A j \in Positions(r) : j < i => j \in Given(r) \cup lost,
           i \in Given(r) => r \in Signals /\ \A j \in 1..(i - 1) : tape[j].to \notin Signals
    PROVE  Faithful'
<1> DEFINE q == rgot[r]
           q2 == Append(rgot[r], i)
           n == Len(q)
           first(k) == k # 0 /\ r \in Signals /\ \A j \in 1..(k - 1) : tape[j].to \notin Signals
<1>0. i \in Nat /\ i # 0
  BY OnTape
<1>1. /\ rgot'[r] = q2 /\ \A u \in Receivers \ {r} : rgot'[u] = rgot[u]
      /\ q \in Seq(Nat)
  BY <1>0, GivenMore DEF ReplayTypes
<1>2. /\ n \in Nat /\ Len(q2) = n + 1
      /\ \A k \in 1..n : q2[k] = q[k]
      /\ q2[n + 1] = i
  BY <1>0, <1>1, AppendOne
<1>3. Range(q2) = Range(q) \cup {i} /\ Range(q) = {q[k] : k \in 1..n}
  BY <1>0, <1>1, AppendRange, RangeSeq
<1>4. /\ \A k \in 1..n : q[k] \in Positions(r) /\ (k > 1 => q[k - 1] <= q[k])
      /\ \A k \in 2..n : q[k - 1] = q[k] => first(q[k])
      /\ \A j \in Positions(r) : (\E k \in 1..n : q[k] > j) => j \in Range(q) \cup lost
  BY FaithfulParts DEF FaithfulTo
<1>5. /\ \A k \in 1..n : q[k] <= i
      /\ \A j \in Positions(r) : j < i => j \in Range(q) \cup lost
      /\ (\E k \in 1..n : q[k] = i) => first(i)
  BY <1>0, <1>3 DEF Given
<1>6. \A u : Positions(u)' = Positions(u)
  BY DEF Positions
<1> HIDE DEF q, q2, n
<1>7. \A k \in 1..(n + 1) : q2[k] \in Positions(r) /\ (k > 1 => q2[k - 1] <= q2[k])
  <2> SUFFICES ASSUME NEW k \in 1..(n + 1)
               PROVE  q2[k] \in Positions(r) /\ (k > 1 => q2[k - 1] <= q2[k])
    OBVIOUS
  <2>1. CASE k \in 1..n
    <3>1. k > 1 => k - 1 \in 1..n
      BY <1>2, <2>1
    <3> QED
      BY <1>2, <1>4, <2>1, <3>1
  <2>2. CASE k = n + 1
    <3>1. k > 1 => k - 1 \in 1..n
      BY <1>2, <2>2
    <3> QED
      BY <1>2, <1>5, <2>2, <3>1
  <2> QED
    BY <1>2, <2>1, <2>2
<1>8. \A k \in 2..(n + 1) : q2[k - 1] = q2[k] => first(q2[k])
  <2> SUFFICES ASSUME NEW k \in 2..(n + 1), q2[k - 1] = q2[k] PROVE first(q2[k])
    OBVIOUS
  <2>1. k - 1 \in 1..n
    BY <1>2
  <2>2. CASE k \in 2..n
    <3>1. q[k - 1] = q[k] /\ q2[k] = q[k]
      BY <1>2, <2>1, <2>2
    <3> QED
      BY <1>4, <2>2, <3>1
  <2>3. CASE k = n + 1
    <3>1. q2[k] = i /\ q[k - 1] = i
      BY <1>2, <2>1, <2>3
    <3> QED
      BY <1>5, <2>1, <3>1
  <2> QED
    BY <1>2, <2>2, <2>3
<1>9. ASSUME NEW j \in Positions(r), NEW k \in 1..(n + 1), q2[k] > j PROVE j \in Range(q2) \cup lost
  <2>1. CASE k \in 1..n
    BY <1>2, <1>3, <1>4, <1>9, <2>1
  <2>2. CASE k = n + 1
    <3>1. j < i
      BY <1>2, <1>9, <2>2, OnTape
    <3> QED
      BY <1>3, <1>5, <3>1
  <2> QED
    BY <1>2, <2>1, <2>2
<1>10. FaithfulTo(r)'
  BY <1>1, <1>2, <1>6, <1>7, <1>8, <1>9 DEF FaithfulTo
<1>11. \A u \in Receivers \ {r} : FaithfulTo(u)'
  BY <1>1, <1>6, FaithfulParts DEF FaithfulTo
<1>12. ~early'
  BY FaithfulParts DEF Delivers, Due
<1> QED
  BY <1>10, <1>11, <1>12, FaithfulParts DEF Faithful, FaithfulTo

-----------------------------------------------------------------------------
(* The steps of the replay. *)

\* The recording is not touched.
LEMMA LiveStays == ASSUME LiveInv, UNCHANGED liveVars PROVE LiveInv'
<1>1. LiveTypes' /\ HoldInv'
  BY DEF LiveInv, LiveTypes, HoldInv, Serves
<1>2. TapeInv'
  <2>1. \A s \in Signals : pc'["otlp"] = "sent" /\ Turn(s)' => pc["otlp"] = "sent" /\ Turn(s)
    BY DEF Turn
  <2> QED
    BY <2>1, TapeStays DEF LiveInv
<1>3. SignalInv'
  <2>1. \A s : Refusals(s)' = Refusals(s)
    BY DEF Refusals
  <2> QED
    BY <2>1 DEF LiveInv, SignalInv
<1> QED
  BY <1>1, <1>2, <1>3 DEF LiveInv

\* Nor is what has been delivered.
LEMMA FaithfulStays ==
    ASSUME Faithful, UNCHANGED <<tape, rgot, early>>, lost \subseteq lost'
    PROVE  Faithful'
<1>1. \A r : Positions(r)' = Positions(r)
  BY DEF Positions
<1>2. \A r \in Receivers : FaithfulTo(r)'
  BY <1>1, FaithfulParts DEF FaithfulTo
<1> QED
  BY <1>2, FaithfulParts DEF Faithful, FaithfulTo

LEMMA NothingGiven ==
    ASSUME Fresh, rpc \in {"off", "archive"}
    PROVE  \A r \in Receivers : Given(r) = {}
BY NoSuch DEF Fresh, Given

LEMMA EmptyFaithful ==
    ASSUME Fresh, rpc \in {"off", "archive"}, UNCHANGED <<rgot, lost, early>>
    PROVE  Faithful'
<1>1. ~early' /\ \A r \in Receivers : rgot'[r] = << >>
  BY DEF Fresh
<1> QED
  BY <1>1, NoSuch DEF Faithful

LEMMA ReplayStart == ReplayIdle /\ rpc \in {"off", "archive"} => ReplayInv
<1> SUFFICES ASSUME ReplayIdle, rpc \in {"off", "archive"} PROVE ReplayInv
  OBVIOUS
<1>1. ReplayTypes /\ Fresh /\ Course
  BY NoSuch DEF ReplayIdle, ReplayTypes, Fresh, Course
<1>2. Faithful
  <2>1. ~early /\ \A r \in Receivers : rgot[r] = << >>
    BY DEF ReplayIdle
  <2> QED
    BY <2>1, NoSuch DEF Faithful
<1>3. Through
  BY <1>1, NothingGiven DEF Through
<1>4. Piped
  BY NoSuch, Kinds DEF ReplayIdle, Piped
<1> QED
  BY <1>1, <1>2, <1>3, <1>4 DEF ReplayInv, Serving

LEMMA OffStep ==
    ASSUME LiveInv, ReplayInv, rpc = "off", UNCHANGED replayVars
    PROVE  ReplayInv'
<1>1. Fresh' /\ Course' /\ ReplayTypes' /\ Faithful'
  BY EmptyFaithful DEF ReplayInv, Fresh, Course, ReplayTypes
<1>2. Through'
  BY NothingGiven DEF ReplayInv, Through, Given
<1>3. Piped' /\ Serving'
  BY DEF ReplayInv, Piped, Serving
<1> QED
  BY <1>1, <1>2, <1>3 DEF ReplayInv

LEMMA OpenStep ==
    ASSUME LiveInv, ReplayInv, NEW m \in Modes, NEW allow \in BOOLEAN, Open(m, allow)
    PROVE  ReplayInv'
<1>1. /\ rpc = "archive" /\ mode' = m
      /\ UNCHANGED <<liveVars, pos, pipeVars, otlpVars, client, lost, early, now, term>>
      /\ rpc' \in {"accept", "next", "refused"}
      /\ rpc' = "accept" => m = "exporters"
      /\ rpc' = "next" => m # "exporters"
      /\ queue' = queue \/ queue' = [r \in Routes |-> Positions(r)]
      /\ rpc' = "accept" => queue' = [r \in Routes |-> Positions(r)]
  BY DEF Open
<1>2. pos = 0 /\ up = {} /\ lost = {} /\ ~acked /\ \A r \in Receivers : Given(r) = {} /\ taken[r] = Len(rgot[r])
  BY <1>1, NothingGiven, NoSuch DEF ReplayInv, Fresh
<1>3. \A r : Positions(r) \subseteq Nat /\ Positions(r)' = Positions(r)
  BY <1>1, OnTape DEF Positions
<1>4. ReplayTypes'
  BY <1>1, <1>3 DEF ReplayInv, ReplayTypes
<1>5. Fresh' /\ Course' /\ Faithful'
  BY <1>1, <1>2, EmptyFaithful DEF ReplayInv, Fresh, Course
<1>6. \A r : Given(r)' = Given(r)
  BY <1>1 DEF Given
<1>7. Through'
  BY <1>1, <1>2, <1>6 DEF Through, AllBefore
<1>8. Piped'
  BY <1>1, <1>2, Kinds DEF Piped
<1>9. Serving'
  BY <1>1, <1>2, <1>3, <1>6, Kinds DEF Serving
<1> QED
  BY <1>4, <1>5, <1>7, <1>8, <1>9 DEF ReplayInv

\* The steps that move the replay on and deliver nothing.
Moves ==
    \/ Reads \/ AllRead \/ Interrupted \/ Broken \/ Dropped \/ Repeats \/ AllServed
    \/ \E r \in Routes : Accepts(r)
    \/ \E r \in Files : Drops(r)
    \/ \E r \in Receivers : Takes(r) \/ Leaves(r)
    \/ HangsUp \/ Elapses \/ Term

LEMMA MovesKeep ==
    ASSUME ReplayInv, Moves
    PROVE  /\ UNCHANGED <<liveVars, mode, rgot, acked, queue, lost, early>>
           /\ rpc \notin {"off", "archive"} \/ (rpc' = rpc /\ UNCHANGED <<pos, up, taken>>)
           /\ rpc' \in {"off", "archive"} => rpc' = rpc
           /\ rpc = "refused" => rpc' = "refused"
           /\ \A r : Given(r)' = Given(r) /\ Positions(r)' = Positions(r)
<1>1. /\ UNCHANGED <<liveVars, mode, rgot, acked, queue, lost, early>>
      /\ rpc' \in {"off", "archive"} => rpc' = rpc
      /\ rpc = "refused" => rpc' = "refused"
  BY DEF Moves, Reads, AllRead, Interrupted, Broken, Dropped, Repeats, AllServed, Accepts, Drops, Takes,
         Leaves, HangsUp, Elapses, Term, Finish, Pipe, Ready
<1>2. ASSUME rpc \in {"off", "archive"} PROVE rpc' = rpc /\ UNCHANGED <<pos, up, taken>>
  <2>1. up = {} /\ \A r \in Receivers : taken[r] = 0 /\ Len(rgot[r]) = 0
    BY <1>2, NoSuch DEF ReplayInv, Fresh
  <2> QED
    BY <1>2, <2>1 DEF Moves, Reads, AllRead, Interrupted, Broken, Dropped, Repeats, AllServed, Accepts, Drops,
         Takes, Leaves, HangsUp, Elapses, Term, Pipe, Ready, Done
<1> QED
  BY <1>1, <1>2 DEF Given, Positions

LEMMA MovesTypes == ASSUME LiveInv, ReplayInv, Moves PROVE ReplayTypes' /\ Fresh' /\ Course' /\ Faithful'
<1>1. Fresh' /\ Faithful'
  BY MovesKeep, FaithfulStays DEF ReplayInv, Fresh
<1>2. ReplayTypes /\ Course
  BY DEF ReplayInv
<1>3. queue' = queue /\ rgot' = rgot /\ mode' = mode
  BY MovesKeep
<1>4. CASE Reads
  <2>1. PICK i \in Later : Next1(i) /\ pos' = i /\ up' \in {up, up \cup {tape[i].to}} /\ (mode # "journal" => up' = up)
    BY <1>4 DEF Reads
  <2>2. i \in 1..Len(tape) /\ i \in Nat /\ ModeOf(tape[i].to) = mode /\ tape[i].to \in Receivers
    BY <1>2, <2>1, OnTape DEF Later, ReplayTypes
  <2>3. up' \subseteq Files
    <3>1. CASE mode # "journal"
      BY <1>2, <2>1, <3>1 DEF ReplayTypes
    <3>2. CASE mode = "journal"
      <4>1. tape[i].to \in Files
        BY <2>2, <3>2, ModeKinds
      <4> QED
        BY <1>2, <2>1, <4>1 DEF ReplayTypes
    <3> QED
      BY <3>1, <3>2
  <2>4. rpc' \in {"pace", "failing"} /\ (rpc' = "failing" => mode = "journal") /\ taken' = taken
    BY <1>4 DEF Reads
  <2>5. ReplayTypes'
    BY <1>2, <1>3, <2>1, <2>2, <2>3, <2>4 DEF ReplayTypes
  <2>6. Course'
    BY <1>2, <1>3, <2>1, <2>4 DEF Course
  <2> QED
    BY <1>1, <2>5, <2>6
<1>5. CASE \E r \in Routes : Accepts(r)
  <2>1. pos' \in Nat /\ UNCHANGED <<up, taken>> /\ rpc' = "pace"
    BY <1>2, <1>5 DEF Accepts, ReplayTypes
  <2> QED
    BY <1>1, <1>2, <1>3, <2>1 DEF ReplayTypes, Course
<1>6. CASE \E r \in Receivers : Takes(r) \/ Leaves(r)
  BY <1>1, <1>2, <1>3, <1>6 DEF Takes, Leaves, ReplayTypes, Course
<1>7. CASE \E r \in Files : Drops(r)
  BY <1>1, <1>2, <1>3, <1>7 DEF Drops, ReplayTypes, Course
<1>8. CASE AllRead \/ Interrupted \/ Broken \/ Dropped \/ Repeats \/ AllServed \/ HangsUp \/ Elapses \/ Term
  <2>1. UNCHANGED <<pos, up, taken>>
    BY <1>8 DEF AllRead, Interrupted, Broken, Dropped, Repeats, AllServed, HangsUp, Elapses, Term
  <2>2. /\ rpc' \in {"next", "retry", "accept"} => rpc' = rpc
        /\ rpc' \in {"drop", "failing"} => rpc' = rpc \/ mode = "journal"
    BY <1>8 DEF AllRead, Interrupted, Broken, Dropped, Repeats, AllServed, HangsUp, Elapses, Term, Finish
  <2> QED
    BY <1>1, <1>2, <1>3, <2>1, <2>2 DEF ReplayTypes, Course
<1> QED
  BY <1>4, <1>5, <1>6, <1>7, <1>8 DEF Moves

LEMMA MovesThrough == ASSUME LiveInv, ReplayInv, Moves PROVE Through'
<1> SUFFICES ASSUME mode # "exporters" PROVE Through'
  BY MovesKeep DEF Through
<1>1. ReplayTypes /\ Course /\ Through
  BY DEF ReplayInv
<1>2. UNCHANGED <<tape, mode, acked, lost>> /\ \A r : Given(r)' = Given(r)
  BY MovesKeep
<1>3. \A x : AllBefore(x)' <=> AllBefore(x)
  BY <1>2 DEF AllBefore
<1>4. pos \in Nat /\ Len(tape) \in Nat /\ \A r \in Receivers : \A i \in Given(r) : i <= pos /\ i \in Nat
  <2>1. \A r \in Receivers : Given(r) \subseteq Nat
    BY <1>1, RangeSeq DEF ReplayTypes, Given
  <2> QED
    BY <1>1, <2>1, OnTape DEF Through, ReplayTypes
<1>5. CASE Reads
  <2>1. PICK i \in Later : Next1(i) /\ pos' = i
    BY <1>5 DEF Reads
  <2>2. rpc = "next" /\ rpc' \in {"pace", "failing"}
    BY <1>5 DEF Reads
  <2>3. i \in 1..Len(tape) /\ i \in Nat /\ i > pos /\ ModeOf(tape[i].to) = mode /\ tape[i].to \in Receivers
    BY <1>4, <2>1, OnTape DEF Later
  <2>4. \A j \in 1..Len(tape) : j < i /\ ModeOf(tape[j].to) = mode => j < pos + 1
    BY <1>4, <2>1, <2>3 DEF Later, Next1
  <2>5. AllBefore(i)
    BY <1>1, <2>2, <2>4 DEF Through, AllBefore
  <2>6. \A r \in Receivers : \A j \in Given(r) : j < i
    BY <1>4, <2>3
  <2>7. ASSUME mode = "otlp", ~acked, NEW j \in 1..(i - 1) PROVE tape[j].to \notin Signals
    <3>1. pos = 0 /\ j \in 1..Len(tape) /\ j < i
      BY <1>1, <2>2, <2>3, <2>7 DEF Through
    <3>2. ModeOf(tape[j].to) # "otlp"
      BY <2>4, <2>7, <3>1
    <3> QED
      BY <3>1, <3>2, ModeKinds, OnTape
  <2>8. i \notin Given(tape[i].to)
    BY <2>3, <2>6
  <2>9. (\A r \in Receivers : \A j \in Given(r)' : j <= i) /\ i \notin Given(tape[i].to)'
    BY <1>2, <1>4, <2>3, <2>6, <2>8
  <2>10. AllBefore(pos)'
    BY <1>2, <2>1, <2>5 DEF AllBefore
  <2> QED
    BY <1>2, <2>1, <2>2, <2>3, <2>7, <2>9, <2>10 DEF Through
<1>6. CASE AllRead
  <2>1. rpc = "next" /\ Later = {} /\ rpc' \in {"ok", "drop"} /\ pos' = pos
    BY <1>6 DEF AllRead, Finish
  <2>2. AllBefore(Len(tape) + 1)
    <3>1. \A j \in 1..Len(tape) : ModeOf(tape[j].to) = mode => j < pos + 1
      BY <1>4, <2>1 DEF Later
    <3> QED
      BY <1>1, <2>1, <3>1 DEF Through, AllBefore
  <2> QED
    BY <1>2, <1>4, <2>1, <2>2 DEF Through, AllBefore
<1>7. CASE Interrupted \/ Broken
  <2>1. rpc' \in {"failed", "failing"} /\ pos' = pos
    BY <1>7 DEF Interrupted, Broken, Finish
  <2> QED
    BY <1>2, <1>4, <2>1 DEF Through
<1>8. CASE Dropped \/ Repeats
  <2>1. pos' = pos /\ \/ rpc = "drop" /\ rpc' = "ok"
                      \/ rpc = "retry" /\ rpc' = "pace"
                      \/ rpc' = "failed"
    BY <1>8 DEF Dropped, Repeats
  <2> QED
    BY <1>1, <1>2, <2>1 DEF Through, AllBefore
<1>9. CASE AllServed \/ HangsUp \/ \E r \in Routes : Accepts(r)
  BY <1>1, <1>9 DEF AllServed, HangsUp, Accepts, Course
<1>10. CASE (\E r \in Files : Drops(r)) \/ (\E r \in Receivers : Takes(r) \/ Leaves(r)) \/ Elapses \/ Term
  <2>1. pos' = pos /\ rpc' = rpc
    BY <1>10 DEF Drops, Takes, Leaves, Elapses, Term
  <2> QED
    BY <1>1, <1>2, <2>1 DEF Through, AllBefore
<1> QED
  BY <1>5, <1>6, <1>7, <1>8, <1>9, <1>10 DEF Moves

LEMMA MovesPiped == ASSUME LiveInv, ReplayInv, Moves PROVE Piped'
<1>1. ReplayTypes /\ Course /\ Piped
  BY DEF ReplayInv
<1>2. UNCHANGED <<tape, mode, rgot>>
  BY MovesKeep
<1>3. CASE Reads
  <2>1. PICK i \in Later : pos' = i /\ (mode = "journal" /\ rpc' = "pace" => tape[i].to \in up')
    BY <1>3 DEF Reads
  <2>2. rpc' # "ok" /\ up \subseteq up' /\ UNCHANGED <<gone, taken>>
    BY <1>3 DEF Reads
  <2> QED
    BY <1>1, <1>2, <2>1, <2>2 DEF Piped
<1>4. CASE AllRead \/ Interrupted \/ Broken \/ Repeats \/ AllServed \/ HangsUp \/ Elapses \/ Term
  <2>1. UNCHANGED <<up, taken, pos>> /\ gone \subseteq gone'
    BY <1>4 DEF AllRead, Interrupted, Broken, Repeats, AllServed, HangsUp, Elapses, Term
  <2>2. /\ rpc' = "ok" => rpc = "ok" \/ mode # "journal"
        /\ rpc' = "pace" => rpc = "pace" \/ mode # "journal"
    BY <1>1, <1>4 DEF AllRead, Interrupted, Broken, Repeats, AllServed, HangsUp, Elapses, Term, Finish, Course
  <2> QED
    BY <1>1, <1>2, <2>1, <2>2 DEF Piped, Course
<1>5. CASE Dropped
  BY <1>1, <1>2, <1>5 DEF Dropped, Piped
<1>6. CASE \E r \in Routes : Accepts(r)
  BY <1>1, <1>2, <1>6 DEF Accepts, Piped, Course
<1>7. ASSUME NEW r \in Files, Drops(r) PROVE Piped'
  BY <1>1, <1>2, <1>7 DEF Drops, Piped
<1>8. ASSUME NEW r \in Receivers, Takes(r) PROVE Piped'
  <2>1. UNCHANGED <<rpc, pos, up, gone>> /\ taken' = [taken EXCEPT ![r] = @ + 1] /\ taken[r] < Len(rgot[r]) /\ r \notin gone
    BY <1>8 DEF Takes
  <2>2. ASSUME NEW q \in Files PROVE q \in up' \/ q \in gone' \/ taken'[q] = Len(rgot'[q])
    <3>1. CASE q = r
      <4>1. taken[r] # Len(rgot[r])
        BY <1>1, <2>1, AppendOne DEF ReplayTypes
      <4> QED
        BY <1>1, <2>1, <3>1, <4>1 DEF Piped
    <3>2. CASE q # r
      BY <1>1, <1>2, <2>1, <3>2, Kinds DEF Piped, ReplayTypes
    <3> QED
      BY <3>1, <3>2
  <2> QED
    BY <1>1, <1>2, <2>1, <2>2 DEF Piped
<1>9. ASSUME NEW r \in Receivers, Leaves(r) PROVE Piped'
  BY <1>1, <1>2, <1>9 DEF Leaves, Piped
<1> QED
  BY <1>3, <1>4, <1>5, <1>6, <1>7, <1>8, <1>9 DEF Moves

LEMMA MovesServing == ASSUME LiveInv, ReplayInv, Moves PROVE Serving'
<1> SUFFICES ASSUME mode = "exporters", rpc' \notin {"off", "archive", "refused"} PROVE Serving'
  BY MovesKeep DEF Serving
<1>1. ReplayTypes /\ Course /\ Serving
  BY DEF ReplayInv
<1>2. /\ UNCHANGED <<mode, queue, lost>> /\ rpc \notin {"off", "archive", "refused"}
      /\ \A r : Given(r)' = Given(r) /\ Positions(r)' = Positions(r)
  BY MovesKeep
<1>3. \A r \in Routes :
        /\ queue'[r] \subseteq Positions(r)'
        /\ Positions(r)' \ queue'[r] \subseteq Given(r)' \cup lost'
        /\ \A i \in Given(r)', j \in queue'[r] : i < j
  BY <1>1, <1>2 DEF Serving
<1>4. CASE AllServed
  BY <1>2, <1>3, <1>4 DEF AllServed, Served, Serving
<1>5. CASE \E r \in Routes : Accepts(r)
  BY <1>2, <1>3, <1>5 DEF Accepts, Serving
<1>6. CASE Reads \/ AllRead \/ Broken \/ Dropped \/ Repeats \/ \E r \in Files : Drops(r)
  BY <1>1, <1>6 DEF Reads, AllRead, Broken, Pipe, Dropped, Repeats, Drops, Course
<1>7. CASE Interrupted
  BY <1>2, <1>3, <1>7 DEF Interrupted, Finish, Serving
<1>8. CASE (\E r \in Receivers : Takes(r) \/ Leaves(r)) \/ HangsUp \/ Elapses \/ Term
  <2>1. UNCHANGED <<rpc, pos, client>>
    BY <1>8 DEF Takes, Leaves, HangsUp, Elapses, Term
  <2> QED
    BY <1>1, <1>2, <1>3, <2>1 DEF Serving
<1> QED
  BY <1>4, <1>5, <1>6, <1>7, <1>8 DEF Moves

-----------------------------------------------------------------------------
(* The steps that deliver. *)

LEMMA PutsStep == ASSUME LiveInv, ReplayInv, Puts PROVE ReplayInv'
<1>0. PICK r \in Receivers : r = tape[pos].to
  BY OnTape DEF Puts, Pipe, Ready, ReplayInv, Through
<1>1. /\ mode \in {"metrics", "journal"} /\ rpc = "pace" /\ rpc' = "next" /\ Delivers(r, pos) /\ Due(pos)
      /\ UNCHANGED <<liveVars, mode, pos, up, taken, gone, otlpVars, routeVars, now, term>>
  BY <1>0 DEF Puts, Pipe, Ready
<1>2. ReplayTypes /\ Course /\ Faithful /\ Through /\ Piped
  BY DEF ReplayInv
<1>3. /\ pos \in 1..Len(tape) /\ pos \in Nat /\ ModeOf(r) = mode /\ r \in Receivers /\ pos \in Positions(r)
      /\ AllBefore(pos) /\ pos \notin Given(r) /\ \A q \in Receivers : \A j \in Given(q) : j <= pos
  BY <1>0, <1>1, <1>2, OnTape DEF Through
<1>4. /\ rgot' \in [Receivers -> Seq(Nat)] /\ \A q \in Receivers \ {r} : rgot'[q] = rgot[q]
      /\ Given(r)' = Given(r) \cup {pos} /\ \A q \in Receivers \ {r} : Given(q)' = Given(q)
  BY <1>1, <1>2, <1>3, GivenMore
<1>5. ReplayTypes' /\ Fresh' /\ Course' /\ Serving'
  BY <1>1, <1>2, <1>4 DEF ReplayTypes, Fresh, Course, Serving
<1>6. Faithful'
  <2>1. \A j \in Positions(r) : j < pos => j \in Given(r) \cup lost
    BY <1>3, OnTape DEF AllBefore
  <2> QED
    BY <1>1, <1>2, <1>3, <2>1, Delivery
<1>7. Through'
  <2>1. \A q \in Receivers : \A j \in Given(q)' : j <= pos
    BY <1>3, <1>4
  <2>2. ASSUME NEW i \in 1..Len(tape), ModeOf(tape[i].to) = mode, i < pos + 1
        PROVE  \E q \in Receivers : q = tape[i].to /\ i \in Given(q)' \cup lost
    <3>1. PICK q \in Receivers : q = tape[i].to
      BY OnTape
    <3>2. i = pos \/ i < pos
      BY <1>3, <2>2, OnTape
    <3>3. i \in Given(q) \cup lost \/ (q = r /\ i = pos)
      BY <1>0, <1>3, <2>2, <3>1, <3>2 DEF AllBefore
    <3> QED
      BY <1>4, <3>1, <3>3
  <2>3. AllBefore(pos + 1)'
    BY <1>1, <2>2 DEF AllBefore, Given
  <2> QED
    BY <1>1, <2>1, <2>3 DEF Through
<1>8. Piped'
  <2>1. r \in Files => r \in up
    BY <1>0, <1>1, <1>2, <1>3, ModeKinds DEF Piped
  <2> QED
    BY <1>1, <1>2, <1>4, <2>1, Kinds DEF Piped
<1> QED
  BY <1>5, <1>6, <1>7, <1>8 DEF ReplayInv

LEMMA RequestsStep == ASSUME LiveInv, ReplayInv, Requests PROVE ReplayInv'
<1>0. PICK r \in Receivers : r = tape[pos].to
  BY OnTape DEF Requests, Ready, ReplayInv, Through
<1>1. PICK arrives \in BOOLEAN : \E answer \in {"ok", "partial", "unavailable", "error"} :
            /\ answer \in {"ok", "partial"} => arrives
            /\ IF arrives THEN Delivers(r, pos) ELSE UNCHANGED <<rgot, early>>
            /\ acked' = (acked \/ answer \in {"ok", "partial"})
            /\ rpc' = CASE answer = "ok" -> "next"
                        [] answer = "unavailable" /\ MayRepeat -> "retry"
                        [] OTHER -> "failed"
  BY <1>0 DEF Requests
<1>2. /\ mode = "otlp" /\ rpc = "pace" /\ Due(pos)
      /\ UNCHANGED <<liveVars, mode, pos, up, taken, gone, routeVars, now, term>>
  BY DEF Requests, Ready
<1>3. /\ rpc' \in {"next", "retry", "failed"}
      /\ rpc' = "next" => arrives /\ acked'
      /\ rpc' = "retry" => ~acked'
      /\ arrives => Delivers(r, pos)
      /\ ~arrives => UNCHANGED <<rgot, early>>
      /\ ~acked' => ~acked
  BY <1>1 DEF MayRepeat
<1>4. ReplayTypes /\ Course /\ Faithful /\ Through /\ Piped
  BY DEF ReplayInv
<1>5. /\ pos \in 1..Len(tape) /\ pos \in Nat /\ ModeOf(r) = mode /\ r \in Receivers /\ pos \in Positions(r)
      /\ AllBefore(pos) /\ (pos \in Given(r) => ~acked) /\ \A q \in Receivers : \A j \in Given(q) : j <= pos
      /\ ~acked => \A j \in 1..(pos - 1) : tape[j].to \notin Signals
  BY <1>0, <1>2, <1>4, OnTape DEF Through
<1>6. r \in Signals /\ r \notin Files
  BY <1>2, <1>5, ModeKinds
<1>7. /\ rgot' \in [Receivers -> Seq(Nat)] /\ \A q \in Receivers \ {r} : rgot'[q] = rgot[q]
      /\ Given(r)' \in {Given(r), Given(r) \cup {pos}}
      /\ rpc' = "next" => Given(r)' = Given(r) \cup {pos}
      /\ \A q \in Receivers \ {r} : Given(q)' = Given(q)
  <2>1. CASE arrives
    BY <1>3, <1>4, <1>5, <2>1, GivenMore
  <2>2. CASE ~arrives
    BY <1>3, <1>4, <2>2 DEF Given, ReplayTypes
  <2> QED
    BY <2>1, <2>2
<1>8. ReplayTypes' /\ Fresh' /\ Course' /\ Serving'
  BY <1>2, <1>3, <1>4, <1>7 DEF ReplayTypes, Fresh, Course, Serving
<1>9. Faithful'
  <2>1. CASE arrives
    <3>1. \A j \in Positions(r) : j < pos => j \in Given(r) \cup lost
      BY <1>5, OnTape DEF AllBefore
    <3>2. pos \in Given(r) => r \in Signals /\ \A j \in 1..(pos - 1) : tape[j].to \notin Signals
      BY <1>5, <1>6
    <3>3. \A j \in Given(r) : j <= pos
      BY <1>5
    <3> QED
      BY <1>2, <1>3, <1>4, <1>5, <2>1, <3>1, <3>2, <3>3, Delivery
  <2>2. CASE ~arrives
    BY <1>2, <1>3, <1>4, <2>2, FaithfulStays
  <2> QED
    BY <2>1, <2>2
<1>10. Through'
  <2>1. \A q \in Receivers : \A j \in Given(q)' : j <= pos
    BY <1>5, <1>7
  <2>2. ASSUME NEW i \in 1..Len(tape), ModeOf(tape[i].to) = mode, i < pos \/ (i = pos /\ rpc' = "next")
        PROVE  \E q \in Receivers : q = tape[i].to /\ i \in Given(q)' \cup lost
    <3>1. PICK q \in Receivers : q = tape[i].to
      BY OnTape
    <3>2. i \in Given(q) \cup lost \/ (q = r /\ i = pos /\ rpc' = "next")
      BY <1>0, <1>5, <2>2, <3>1 DEF AllBefore
    <3>3. Given(q) \subseteq Given(q)' /\ (rpc' = "next" => pos \in Given(r)')
      BY <1>7
    <3> QED
      BY <3>1, <3>2, <3>3
  <2>3. AllBefore(pos)'
    BY <1>2, <2>2 DEF AllBefore, Given
  <2>4. rpc' = "next" => AllBefore(pos + 1)'
    <3>1. \A i \in 1..Len(tape) : i < pos + 1 => i < pos \/ i = pos
      BY <1>5, OnTape
    <3> QED
      BY <1>2, <2>2, <3>1 DEF AllBefore, Given
  <2> QED
    BY <1>0, <1>2, <1>3, <1>5, <2>1, <2>3, <2>4 DEF Through
<1>11. Piped'
  BY <1>2, <1>3, <1>4, <1>6, <1>7, Kinds DEF Piped
<1> QED
  BY <1>8, <1>9, <1>10, <1>11 DEF ReplayInv

\* What the scrape endpoint's two answers have in common.
LEMMA Unqueued ==
    ASSUME LiveInv, ReplayInv, mode = "exporters", rpc = "pace",
           NEW c, c = client, queue' = [queue EXCEPT ![c] = @ \ {pos}]
    PROVE  /\ c \in Routes /\ c \in Receivers /\ c \notin Files
           /\ pos \in Positions(c) /\ pos \in Nat
           /\ queue' \in [Routes -> SUBSET Nat]
           /\ queue'[c] = queue[c] \ {pos}
           /\ \A r \in Routes \ {c} : queue'[r] = queue[r]
           /\ \A j \in queue'[c] : pos < j
           /\ \A r \in Routes :
                 /\ queue[r] \subseteq Positions(r)
                 /\ Positions(r) \ queue[r] \subseteq Given(r) \cup lost
                 /\ \A i \in Given(r), j \in queue[r] : i < j
           /\ pos \in queue[c] /\ \A j \in queue[c] : pos <= j
<1>1. ReplayTypes /\ Serving
  BY DEF ReplayInv
<1>2. /\ c \in Routes
      /\ pos \in queue[c] /\ \A j \in queue[c] : pos <= j
      /\ \A r \in Routes :
            /\ queue[r] \subseteq Positions(r)
            /\ Positions(r) \ queue[r] \subseteq Given(r) \cup lost
            /\ \A i \in Given(r), j \in queue[r] : i < j
  BY <1>1 DEF Serving
<1>3. c \in Receivers /\ c \notin Files
  BY <1>2, Kinds, ReceiversAssumption
<1>4. queue \in [Routes -> SUBSET Nat]
  BY <1>1 DEF ReplayTypes
<1>5. queue' \in [Routes -> SUBSET Nat]
  BY <1>2, <1>4
<1>6. queue'[c] = queue[c] \ {pos} /\ \A r \in Routes \ {c} : queue'[r] = queue[r]
  BY <1>2, <1>4
<1>7. \A j \in queue'[c] : pos < j
  BY <1>2, <1>4, <1>6
<1>8. pos \in Nat
  BY <1>1 DEF ReplayTypes
<1> QED
  BY <1>2, <1>3, <1>5, <1>6, <1>7, <1>8

LEMMA AnswersStep == ASSUME LiveInv, ReplayInv, Answers PROVE ReplayInv'
<1>0. PICK c : c = client
  OBVIOUS
<1>1. /\ mode = "exporters" /\ rpc = "pace" /\ rpc' = "accept" /\ Due(pos) /\ Delivers(c, pos)
      /\ queue' = [queue EXCEPT ![c] = @ \ {pos}]
      /\ UNCHANGED <<liveVars, mode, pos, up, taken, gone, otlpVars, lost, now, term>>
  BY <1>0 DEF Answers, Ready
<1>2. ReplayTypes /\ Course /\ Faithful /\ Piped
  BY DEF ReplayInv
<1>3. /\ c \in Routes /\ c \in Receivers /\ c \notin Files
      /\ pos \in Positions(c) /\ pos \in Nat
      /\ queue' \in [Routes -> SUBSET Nat]
      /\ queue'[c] = queue[c] \ {pos}
      /\ \A r \in Routes \ {c} : queue'[r] = queue[r]
      /\ \A j \in queue'[c] : pos < j
      /\ \A r \in Routes :
            /\ queue[r] \subseteq Positions(r)
            /\ Positions(r) \ queue[r] \subseteq Given(r) \cup lost
            /\ \A i \in Given(r), j \in queue[r] : i < j
      /\ pos \in queue[c] /\ \A j \in queue[c] : pos <= j
  BY <1>0, <1>1, Unqueued
<1>4. /\ rgot' \in [Receivers -> Seq(Nat)] /\ \A q \in Receivers \ {c} : rgot'[q] = rgot[q]
      /\ Given(c)' = Given(c) \cup {pos} /\ \A q \in Receivers \ {c} : Given(q)' = Given(q)
  BY <1>1, <1>2, <1>3, GivenMore
<1>5. ReplayTypes' /\ Fresh' /\ Course' /\ Through'
  BY <1>1, <1>2, <1>3, <1>4 DEF ReplayTypes, Fresh, Course, Through
<1>6. Faithful'
  <2>1. \A j \in Given(c) : j < pos
    BY <1>3
  <2>2. \A j \in Positions(c) : j < pos => j \in Given(c) \cup lost
    <3> SUFFICES ASSUME NEW j \in Positions(c), j < pos PROVE j \in Given(c) \cup lost
      OBVIOUS
    <3>1. j \in Nat
      BY OnTape
    <3>2. j \notin queue[c]
      BY <1>3, <3>1
    <3> QED
      BY <1>3, <3>2
  <2>3. pos \notin Given(c) /\ \A j \in Given(c) : j <= pos
    <3>1. Given(c) \subseteq Nat
      BY <1>2, <1>3, RangeSeq DEF ReplayTypes, Given
    <3> QED
      BY <1>3, <2>1, <3>1
  <2> QED
    BY <1>1, <1>2, <1>3, <2>2, <2>3, Delivery
<1>7. Piped'
  BY <1>1, <1>2, <1>3, <1>4, Kinds DEF Piped
<1>8. Serving'
  <2>1. \A r : Positions(r)' = Positions(r)
    BY <1>1 DEF Positions
  <2>2. ASSUME NEW r \in Routes
        PROVE  /\ queue'[r] \subseteq Positions(r)
               /\ Positions(r) \ queue'[r] \subseteq Given(r)' \cup lost
               /\ \A i \in Given(r)', j \in queue'[r] : i < j
    <3>1. CASE r = c
      <4>1. queue'[c] \subseteq queue[c]
        BY <1>3
      <4>2. Positions(c) \ queue'[c] \subseteq Given(c)' \cup lost
        BY <1>3, <1>4
      <4>3. \A i \in Given(c)', j \in queue'[c] : i < j
        BY <1>3, <1>4, <4>1
      <4> QED
        BY <1>3, <3>1, <4>1, <4>2, <4>3
    <3>2. CASE r # c
      BY <1>3, <1>4, <3>2, Kinds
    <3> QED
      BY <3>1, <3>2
  <2> QED
    BY <1>1, <2>1, <2>2 DEF Serving
<1> QED
  BY <1>5, <1>6, <1>7, <1>8 DEF ReplayInv

LEMMA AnswersNobodyStep == ASSUME LiveInv, ReplayInv, AnswersNobody PROVE ReplayInv'
<1>1. /\ mode = "exporters" /\ rpc = "pace" /\ gone' = gone \ {client}
      /\ UNCHANGED <<liveVars, mode, pos, up, rgot, taken, otlpVars, early, now, term>>
  BY DEF AnswersNobody, Ready
<1>2. ReplayTypes /\ Course /\ Faithful /\ Piped /\ Serving
  BY DEF ReplayInv
<1>3. client \in Routes /\ client \notin Files
  BY <1>1, <1>2, ReceiversAssumption DEF Serving
<1>4. \A r : Positions(r)' = Positions(r) /\ Given(r)' = Given(r)
  BY <1>1 DEF Positions, Given
<1>5. CASE rpc' = "failed" /\ UNCHANGED routeVars
  <2>1. ReplayTypes' /\ Fresh' /\ Course' /\ Through'
    BY <1>1, <1>2, <1>5 DEF ReplayTypes, Fresh, Course, Through
  <2>2. Faithful'
    BY <1>1, <1>2, <1>5, FaithfulStays
  <2>3. Piped' /\ Serving'
    BY <1>1, <1>2, <1>3, <1>4, <1>5 DEF Piped, Serving
  <2> QED
    BY <2>1, <2>2, <2>3 DEF ReplayInv
<1>6. CASE rpc' = "accept" /\ queue' = [queue EXCEPT ![client] = @ \ {pos}] /\ lost' = lost \cup {pos}
  <2>1. /\ queue' \in [Routes -> SUBSET Nat]
        /\ queue'[client] = queue[client] \ {pos}
        /\ \A r \in Routes \ {client} : queue'[r] = queue[r]
        /\ \A r \in Routes :
              /\ queue[r] \subseteq Positions(r)
              /\ Positions(r) \ queue[r] \subseteq Given(r) \cup lost
              /\ \A i \in Given(r), j \in queue[r] : i < j
    BY <1>1, <1>6, Unqueued
  <2>2. ReplayTypes' /\ Fresh' /\ Course' /\ Through'
    BY <1>1, <1>2, <1>6, <2>1 DEF ReplayTypes, Fresh, Course, Through
  <2>3. Faithful'
    BY <1>1, <1>2, <1>6, FaithfulStays
  <2>4. Piped'
    BY <1>1, <1>2, <1>3, <1>6 DEF Piped
  <2>5. \A r \in Routes : queue'[r] \subseteq queue[r] /\ queue[r] \subseteq queue'[r] \cup {pos}
    BY <1>3, <2>1
  <2>6. Serving'
    BY <1>1, <1>4, <1>6, <2>1, <2>5 DEF Serving
  <2> QED
    BY <2>2, <2>3, <2>4, <2>6 DEF ReplayInv
<1> QED
  BY <1>5, <1>6 DEF AnswersNobody

-----------------------------------------------------------------------------
(* The theorems. *)

LEMMA ReplayStep == ASSUME LiveInv, ReplayInv, [Next]_vars PROVE LiveInv' /\ ReplayInv'
<1>1. CASE rpc = "off" /\ LiveNext /\ UNCHANGED replayVars
  BY <1>1, LiveStep, OffStep
<1>2. CASE Moves
  <2>1. LiveInv'
    BY <1>2, MovesKeep, LiveStays
  <2> QED
    BY <1>2, <2>1, MovesTypes, MovesThrough, MovesPiped, MovesServing DEF ReplayInv
<1>3. CASE Puts \/ Requests \/ Answers \/ AnswersNobody
  <2>1. UNCHANGED liveVars
    BY <1>3 DEF Puts, Requests, Answers, AnswersNobody
  <2> QED
    BY <1>3, <2>1, LiveStays, PutsStep, RequestsStep, AnswersStep, AnswersNobodyStep
<1>4. ASSUME NEW m \in Modes, NEW allow \in BOOLEAN, Open(m, allow) PROVE LiveInv' /\ ReplayInv'
  <2>1. UNCHANGED liveVars
    BY <1>4 DEF Open
  <2> QED
    BY <1>4, <2>1, LiveStays, OpenStep
<1>5. CASE UNCHANGED vars
  <2>1. LiveInv'
    BY <1>5, LiveStays
  <2>2. Faithful'
    BY <1>5, FaithfulStays DEF ReplayInv
  <2>3. \A r : Given(r)' = Given(r) /\ Positions(r)' = Positions(r)
    BY <1>5 DEF Given, Positions
  <2>4. ReplayTypes' /\ Fresh' /\ Course' /\ Piped' /\ Serving'
    BY <1>5, <2>3 DEF ReplayInv, ReplayTypes, Fresh, Course, Piped, Serving
  <2>5. Through'
    BY <1>5, <2>3 DEF ReplayInv, Through, AllBefore
  <2> QED
    BY <2>1, <2>2, <2>4, <2>5 DEF ReplayInv
<1> QED
  BY <1>1, <1>2, <1>3, <1>4, <1>5 DEF Next, ReplayNext, Works, Moves

LEMMA ReplayAlways == Spec => [](LiveInv /\ ReplayInv)
<1>1. Init => LiveInv /\ ReplayInv
  BY LiveStart, ArchiveStart, ReplayStart DEF Init
<1> QED
  BY <1>1, ReplayStep, PTL DEF Spec

\* From the receiver of the live run to the receiver of the replay: a complete recording
\* holds what every receiver was given, in that order, each signal is given up for its own
\* refusals alone, and the replay gives every receiver its own frames again in that order,
\* none early, none twice but the first of an OTLP replay, and none left out but those
\* whose client had hung up (RecordedWriter, otlp_runtime.rs and replay.rs).
THEOREM LiveToReplay == Spec => []FromEndToEnd
<1>1. LiveInv /\ ReplayInv => FromEndToEnd
  BY LiveKept DEF ReplayInv, FromEndToEnd
<1> QED
  BY <1>1, ReplayAlways, PTL

\* A replay that reports success has delivered every frame of its mode (replay.rs, the
\* loops of metrics, journals, otlp and exporters, and the drop of Journal).
THEOREM SuccessMeansAll == Spec => []OkMeansAll
<1>1. LiveInv /\ ReplayInv => OkMeansAll
  <2> SUFFICES ASSUME LiveInv, ReplayInv, rpc = "ok", NEW i \in 1..Len(tape), ModeOf(tape[i].to) = mode
               PROVE  /\ i \in Range(rgot[tape[i].to]) \cup lost
                      /\ tape[i].to \in Files =>
                            taken[tape[i].to] = Len(rgot[tape[i].to]) \/ tape[i].to \in gone
    BY DEF OkMeansAll
  <2>1. tape[i].to \in Receivers /\ i \in Positions(tape[i].to) /\ i < Len(tape) + 1
    BY OnTape
  <2>2. i \in Given(tape[i].to) \cup lost
    <3>1. CASE mode # "exporters"
      BY <2>1, <3>1 DEF ReplayInv, Through, AllBefore
    <3>2. CASE mode = "exporters"
      <4>1. tape[i].to \in Routes
        BY <2>1, <3>2, ModeKinds
      <4> QED
        BY <2>1, <3>2, <4>1 DEF ReplayInv, Serving
    <3> QED
      BY <3>1, <3>2
  <2> QED
    BY <2>2 DEF ReplayInv, Piped, Given
<1> QED
  BY <1>1, ReplayAlways, PTL
=============================================================================
