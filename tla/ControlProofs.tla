---------------------------- MODULE ControlProofs ----------------------------
(***************************************************************************)
(* The control file and those who read it, for any number of scenarios,    *)
(* writers and plugin processes.                                           *)
(*                                                                         *)
(* NextTick holds however the writers overlap and however coarse the       *)
(* mtime is: a process that remembers the mtime of the file remembers one  *)
(* taken before its read, so what it read was complete if the file is      *)
(* whole now and was not written again under that mtime (InStep).          *)
(* Undisturbed and Unwinds rest on Prepared: what a writer is about to     *)
(* write was made from the entries that the file still spells, as nobody   *)
(* else has begun since.                                                   *)
(***************************************************************************)
EXTENDS Control, FiniteSetTheorems, TLAPS

USE DEF vars, fileVars, clientVars, pollVars

Operations == {"trigger", "resolve", "resolve-all", "advance"}

-----------------------------------------------------------------------------
(* Entries and files. *)

\* A text has a length, and an empty one spells nothing.
LEMMA SizeType == ASSUME NEW b PROVE Size(b) \in Nat /\ Size(b) > 0
<1>1. /\ IsFiniteSet(Listed(b))
      /\ IsFiniteSet({s \in Listed(b) : b[s].rec # Absent})
      /\ IsFiniteSet({s \in Listed(b) : Recovering(b[s])})
  BY ScenarioAssumption, FS_Subset DEF Listed
<1>2. /\ Cardinality(Listed(b)) \in Nat
      /\ Cardinality({s \in Listed(b) : b[s].rec # Absent}) \in Nat
      /\ Cardinality({s \in Listed(b) : Recovering(b[s])}) \in Nat
  BY <1>1, FS_CardinalityType
<1> QED
  BY <1>2 DEF Size

LEMMA NothingType == Nothing \in Bodies
BY DEF Nothing, Bodies

\* An entry of a file is a record or absent.
LEMMA EntryType ==
    ASSUME NEW b \in Bodies, NEW s \in Scenarios, b[s] # Absent
    PROVE  b[s] \in Entry /\ b[s] = [start |-> b[s].start, rec |-> b[s].rec]
BY DEF Bodies, Entry

LEMMA MadeEntry ==
    ASSUME NEW x \in Int \cup {Absent}, NEW r \in Int \cup {Null, Absent}
    PROVE  [start |-> x, rec |-> r] \in Entry /\ [start |-> x, rec |-> r] # Absent
BY FieldAssumption DEF Entry

LEMMA TimesSay == \A t \in Int : t # Absent
BY FieldAssumption

LEMMA PruneType == ASSUME NEW b \in Bodies PROVE Prune(b) \in Bodies
BY DEF Prune, Bodies

LEMMA SpelledType == ASSUME NEW b \in Bodies PROVE Spelled(b) \in Bodies
<1> SUFFICES ASSUME NEW s \in Scenarios, b[s] # Absent, b[s].rec = Absent
             PROVE  [b[s] EXCEPT !.rec = Null] \in Entry
  BY DEF Spelled, Bodies
<1> QED
  BY EntryType, ZenonT(40) DEF Entry

LEMMA WithType ==
    ASSUME NEW b \in Bodies, NEW s \in Scenarios, NEW e \in Entry \cup {Absent}
    PROVE  With(b, s, e) \in Bodies
BY DEF With, Bodies

\* An entry with one field replaced.
LEMMA ExceptEntry ==
    ASSUME NEW e \in Entry, NEW x \in Int \cup {Absent}, NEW r \in Int \cup {Null, Absent}
    PROVE  /\ [e EXCEPT !.rec = r] = [start |-> e.start, rec |-> r]
           /\ [e EXCEPT !.start = x] = [start |-> x, rec |-> e.rec]
           /\ [e EXCEPT !.rec = r] \in Entry /\ [e EXCEPT !.rec = r] # Absent
           /\ [e EXCEPT !.start = x] \in Entry /\ [e EXCEPT !.start = x] # Absent
<1>1. /\ [e EXCEPT !.rec = r] = [start |-> e.start, rec |-> r]
      /\ [e EXCEPT !.start = x] = [start |-> x, rec |-> e.rec]
  BY DEF Entry
<1>2. e.start \in Int \cup {Absent} /\ e.rec \in Int \cup {Null, Absent}
  BY DEF Entry
<1> QED
  BY <1>1, <1>2, MadeEntry

-----------------------------------------------------------------------------
(* What a request makes of an entry. *)

\* Two entries that mean the same, and spell the same time of recovery.
Alike(q, w) ==
    /\ w = Absent <=> q = Absent
    /\ q # Absent =>
          /\ w.start = q.start
          /\ Recovering(w) <=> Recovering(q)
          /\ Recovering(q) => w.rec = q.rec

\* What request rq of a writer, other than scenario.sh, may make of entry e of scenario s.
Mends(kind, rq, s, e, f) ==
    /\ \/ Same(e, f)
       \/ f = Absent /\ Finished(e)
       \/ rq.scenario = s
       \/ rq.op = "resolve-all"
    /\ e # Absent /\ ~Finished(e) /\ f # Absent /\ e.start # f.start =>
          rq = [op |-> "advance", scenario |-> s]
    /\ e # Absent /\ Recovering(e) /\ f # Absent /\ f.rec # e.rec =>
          rq = [op |-> "trigger", scenario |-> s] /\ ~Recovering(f)
    /\ e # Absent /\ f = Absent => Finished(e) \/ kind = "editor"

LEMMA SpelledAlike ==
    ASSUME NEW b \in Bodies, NEW s \in Scenarios
    PROVE  Alike(b[s], Spelled(b)[s])
<1>1. CASE b[s] # Absent /\ b[s].rec = Absent
  <2>1. Spelled(b)[s] = [start |-> b[s].start, rec |-> Null] /\ Spelled(b)[s] # Absent
    <3>1. b[s] \in Entry /\ b[s].start \in Int \cup {Absent} /\ Null \in Int \cup {Null, Absent}
      BY <1>1, EntryType DEF Entry
    <3>2. Spelled(b)[s] = [b[s] EXCEPT !.rec = Null]
      BY <1>1 DEF Spelled
    <3>3. /\ [b[s] EXCEPT !.rec = Null] = [start |-> b[s].start, rec |-> Null]
          /\ [b[s] EXCEPT !.rec = Null] # Absent
      <4> DEFINE e == b[s]
      <4>1. e \in Entry
        BY <3>1
      <4> HIDE DEF e
      <4>2. /\ [e EXCEPT !.rec = Null] = [start |-> e.start, rec |-> Null]
            /\ [e EXCEPT !.rec = Null] # Absent
        BY <4>1, ExceptEntry, FieldAssumption
      <4> QED
        BY <4>2 DEF e
    <3> QED
      BY <3>2, <3>3
  <2> QED
    BY <1>1, <2>1 DEF Alike, Recovering
<1>2. CASE ~(b[s] # Absent /\ b[s].rec = Absent)
  BY <1>2 DEF Alike, Spelled
<1> QED
  BY <1>1, <1>2

LEMMA MendsAlike ==
    ASSUME NEW kind, NEW rq, NEW s, NEW e, NEW q, NEW w, Mends(kind, rq, s, e, q), Alike(q, w)
    PROVE  Mends(kind, rq, s, e, w)
BY DEF Mends, Alike, Same, Recovering

\* Pruning first makes no difference to what a request may do.
LEMMA MendsPruned ==
    ASSUME NEW b \in Bodies, NEW s \in Scenarios, NEW kind, NEW rq, NEW f,
           Mends(kind, rq, s, Prune(b)[s], f),
           Prune(b)[s] = Absent /\ f # Absent => rq = [op |-> "trigger", scenario |-> s] /\ ~Recovering(f)
    PROVE  Mends(kind, rq, s, b[s], f)
<1>1. CASE b[s] # Absent /\ Finished(b[s])
  <2>1. Prune(b)[s] = Absent
    BY <1>1 DEF Prune
  <2> QED
    BY <1>1, <2>1 DEF Mends
<1>2. CASE ~(b[s] # Absent /\ Finished(b[s]))
  BY <1>2 DEF Prune
<1> QED
  BY <1>1, <1>2

\* What the entries are after each operation of the console, before they are spelled.
ConsoleEdit(live, op, r, q) ==
    \/ op = "trigger" /\ q = Triggered(live, r)
    \/ op = "resolve" /\ q = Resolved(live, r)
    \/ op = "resolve-all" /\ q = ResolvedAll(live)
    \/ op = "advance" /\ live[r] # Absent /\ \E n \in {-1, 1} : q = Advanced(live, r, n)

LEMMA ConsoleEdits ==
    ASSUME NEW b, NEW op \in Operations, NEW r \in Scenarios, NEW w \in ConsoleWrites(b, op, r)
    PROVE  \E q : ConsoleEdit(Prune(b), op, r, q) /\ w = Spelled(q)
BY DEF ConsoleWrites, ConsoleEdit, Operations

LEMMA TriggeredEntry ==
    ASSUME TypeOK, NEW b \in Bodies, NEW r \in Scenarios
    PROVE  /\ Triggered(b, r) \in Bodies
           /\ \A s \in Scenarios \ {r} : Triggered(b, r)[s] = b[s]
           /\ Triggered(b, r)[r] # Absent /\ ~Recovering(Triggered(b, r)[r])
           /\ b[r] # Absent => Triggered(b, r)[r].start = b[r].start
<1> DEFINE e == IF b[r] = Absent THEN [start |-> now, rec |-> Null] ELSE [b[r] EXCEPT !.rec = Null]
<1>1. now \in Int
  BY TimeAssumption DEF TypeOK
<1>2. Triggered(b, r) = With(b, r, e)
  BY DEF Triggered
<1>3. CASE b[r] = Absent
  <2>1. e = [start |-> now, rec |-> Null]
    BY <1>3
  <2>2. e \in Entry /\ e # Absent /\ ~Recovering(e)
    BY <1>1, <2>1, MadeEntry DEF Recovering
  <2> HIDE DEF e
  <2> QED
    BY <1>2, <1>3, <2>2, WithType DEF With, Bodies
<1>4. CASE b[r] # Absent
  <2>1. b[r] \in Entry /\ b[r].start \in Int \cup {Absent}
    BY <1>4, EntryType DEF Entry
  <2>2. e = [start |-> b[r].start, rec |-> Null]
    BY <1>4, <2>1, ExceptEntry
  <2>3. e \in Entry /\ e # Absent /\ ~Recovering(e) /\ e.start = b[r].start
    BY <2>1, <2>2, MadeEntry DEF Recovering
  <2> HIDE DEF e
  <2> QED
    BY <1>2, <1>4, <2>3, WithType DEF With, Bodies
<1> QED
  BY <1>3, <1>4

LEMMA ResolvedEntry ==
    ASSUME TypeOK, NEW b \in Bodies, NEW r \in Scenarios
    PROVE  /\ Resolved(b, r) \in Bodies
           /\ \A s \in Scenarios \ {r} : Resolved(b, r)[s] = b[s]
           /\ b[r] = Absent <=> Resolved(b, r)[r] = Absent
           /\ b[r] # Absent => /\ Resolved(b, r)[r].start = b[r].start
                               /\ Recovering(b[r]) => Resolved(b, r)[r].rec = b[r].rec
                               /\ ~Recovering(b[r]) => Resolved(b, r)[r].rec = now
<1> DEFINE e == [b[r] EXCEPT !.rec = now]
<1>1. now \in Int
  BY TimeAssumption DEF TypeOK
<1>2. CASE b[r] = Absent \/ Recovering(b[r])
  BY <1>2 DEF Resolved
<1>3. CASE ~(b[r] = Absent \/ Recovering(b[r]))
  <2>1. b[r] \in Entry /\ b[r].start \in Int \cup {Absent}
    BY <1>3, EntryType DEF Entry
  <2>2. e = [start |-> b[r].start, rec |-> now] /\ e \in Entry /\ e # Absent
    BY <1>1, <2>1, ExceptEntry
  <2>3. Resolved(b, r) = With(b, r, e)
    BY <1>3 DEF Resolved
  <2>4. e.start = b[r].start /\ e.rec = now
    BY <2>2
  <2> HIDE DEF e
  <2> QED
    BY <1>3, <2>2, <2>3, <2>4, WithType DEF With, Bodies
<1> QED
  BY <1>2, <1>3

LEMMA AdvancedEntry ==
    ASSUME NEW b \in Bodies, NEW r \in Scenarios, NEW n \in Int, b[r] # Absent
    PROVE  /\ Advanced(b, r, n) \in Bodies
           /\ \A s \in Scenarios \ {r} : Advanced(b, r, n)[s] = b[s]
           /\ Advanced(b, r, n)[r] # Absent
           /\ Advanced(b, r, n)[r].rec = b[r].rec
<1> DEFINE e == [b[r] EXCEPT !.start = @ - n]
<1>1. CASE b[r].start = Absent
  BY <1>1 DEF Advanced
<1>2. CASE b[r].start # Absent
  <2>1. b[r] \in Entry /\ b[r].start \in Int
    BY <1>2, EntryType DEF Entry
  <2>2. e = [b[r] EXCEPT !.start = b[r].start - n] /\ b[r].start - n \in Int
    BY <2>1
  <2>3. e = [start |-> b[r].start - n, rec |-> b[r].rec] /\ e \in Entry /\ e # Absent
    <3> HIDE DEF e
    <3> QED
      BY <2>1, <2>2, ExceptEntry
  <2>4. e.rec = b[r].rec
    BY <2>3
  <2>5. Advanced(b, r, n) = With(b, r, e)
    BY <1>2 DEF Advanced
  <2> HIDE DEF e
  <2> QED
    BY <2>3, <2>4, <2>5, WithType DEF With, Bodies
<1> QED
  BY <1>1, <1>2

\* A recovery that is spelled began now, or at the moment spelled before.
Dates(e, f) == f # Absent /\ Recovering(f) => f.rec = now \/ (e # Absent /\ f.rec = e.rec)

\* What an operation of the console makes of each entry that it found live.
LEMMA ConsoleEditMends ==
    ASSUME TypeOK, NEW b \in Bodies, NEW op \in Operations, NEW r \in Scenarios, NEW q,
           ConsoleEdit(b, op, r, q), NEW s \in Scenarios
    PROVE  /\ q \in Bodies
           /\ Mends("console", [op |-> op, scenario |-> r], s, b[s], q[s])
           /\ b[s] = Absent /\ q[s] # Absent =>
                 [op |-> op, scenario |-> r] = [op |-> "trigger", scenario |-> s] /\ ~Recovering(q[s])
           /\ Dates(b[s], q[s])
<1>1. CASE op = "trigger" /\ q = Triggered(b, r)
  <2>1. CASE s = r
    BY <1>1, <2>1, TriggeredEntry DEF Mends, Same, Dates
  <2>2. CASE s # r
    BY <1>1, <2>2, TriggeredEntry DEF Mends, Same, Dates
  <2> QED
    BY <2>1, <2>2
<1>2. CASE op = "resolve" /\ q = Resolved(b, r)
  <2>1. CASE s = r
    BY <1>2, <2>1, ResolvedEntry DEF Mends, Same, Dates
  <2>2. CASE s # r
    BY <1>2, <2>2, ResolvedEntry DEF Mends, Same, Dates
  <2> QED
    BY <2>1, <2>2
<1>3. CASE op = "resolve-all" /\ q = ResolvedAll(b)
  <2>1. q \in Bodies
    <3> SUFFICES ASSUME NEW t \in Scenarios PROVE Resolved(b, t)[t] \in Entry \cup {Absent}
      BY <1>3 DEF ResolvedAll, Bodies
    <3> QED
      BY ResolvedEntry DEF Bodies
  <2>2. q[s] = Resolved(b, s)[s]
    BY <1>3 DEF ResolvedAll
  <2> QED
    BY <1>3, <2>1, <2>2, ResolvedEntry DEF Mends, Same, Dates
<1>4. CASE op = "advance" /\ b[r] # Absent /\ \E n \in {-1, 1} : q = Advanced(b, r, n)
  <2>1. PICK n \in {-1, 1} : q = Advanced(b, r, n)
    BY <1>4
  <2>2. n \in Int
    OBVIOUS
  <2>3. CASE s = r
    BY <1>4, <2>1, <2>2, <2>3, AdvancedEntry DEF Mends, Same, Dates
  <2>4. CASE s # r
    BY <1>4, <2>1, <2>2, <2>4, AdvancedEntry DEF Mends, Same, Dates
  <2> QED
    BY <2>3, <2>4
<1> QED
  BY <1>1, <1>2, <1>3, <1>4 DEF ConsoleEdit

LEMMA ConsoleMends ==
    ASSUME TypeOK, NEW b \in Bodies, NEW op \in Operations, NEW r \in Scenarios,
           NEW w \in ConsoleWrites(b, op, r), NEW s \in Scenarios
    PROVE  /\ w \in Bodies
           /\ Mends("console", [op |-> op, scenario |-> r], s, b[s], w[s])
           /\ Dates(b[s], w[s])
<1> DEFINE rq == [op |-> op, scenario |-> r]
<1>1. PICK q : ConsoleEdit(Prune(b), op, r, q) /\ w = Spelled(q)
  BY ConsoleEdits
<1>2. Prune(b) \in Bodies
  BY PruneType
<1>3. /\ q \in Bodies
      /\ Mends("console", rq, s, Prune(b)[s], q[s])
      /\ Prune(b)[s] = Absent /\ q[s] # Absent => rq = [op |-> "trigger", scenario |-> s] /\ ~Recovering(q[s])
      /\ Dates(Prune(b)[s], q[s])
  BY <1>1, <1>2, ConsoleEditMends
<1>4. w \in Bodies /\ Alike(q[s], w[s])
  BY <1>1, <1>3, SpelledType, SpelledAlike
<1>5. Mends("console", rq, s, b[s], q[s])
  <2> HIDE DEF rq
  <2> QED
    BY <1>3, MendsPruned
<1>6. Mends("console", rq, s, b[s], w[s])
  BY <1>4, <1>5, MendsAlike
<1>7. Prune(b)[s] # Absent => Prune(b)[s] = b[s]
  BY DEF Prune
<1>8. Dates(b[s], w[s])
  BY <1>3, <1>4, <1>7 DEF Dates, Alike
<1> QED
  BY <1>4, <1>6, <1>8

\* What control_file.py, which reads block style, makes of each entry.
LEMMA CliMends ==
    ASSUME TypeOK, NEW b \in Bodies, NEW op \in Operations, NEW r \in Scenarios,
           NEW w \in CliWrites(b, op, r), NEW s \in Scenarios
    PROVE  /\ w \in Bodies
           /\ Mends("cli", [op |-> op, scenario |-> r], s, b[s], w[s])
           /\ Dates(b[s], w[s])
<1>1. now \in Int
  BY TimeAssumption DEF TypeOK
<1>2. CASE op = "trigger"
  <2> DEFINE e == IF b[r] = Absent THEN [start |-> now, rec |-> Absent] ELSE [b[r] EXCEPT !.rec = Absent]
  <2>1. w = With(b, r, e)
    BY <1>2 DEF CliWrites
  <2>2. /\ e \in Entry /\ e # Absent /\ ~Recovering(e)
        /\ b[r] # Absent => e.start = b[r].start
    <3>1. CASE b[r] = Absent
      BY <1>1, <3>1, MadeEntry DEF Recovering
    <3>2. CASE b[r] # Absent
      <4>1. b[r] \in Entry /\ b[r].start \in Int \cup {Absent}
        BY <3>2, EntryType DEF Entry
      <4>2. e = [start |-> b[r].start, rec |-> Absent] /\ e \in Entry /\ e # Absent
        BY <3>2, <4>1, ExceptEntry
      <4> HIDE DEF e
      <4> QED
        BY <4>2 DEF Recovering
    <3> QED
      BY <3>1, <3>2
  <2> HIDE DEF e
  <2>3. w \in Bodies
    BY <2>1, <2>2, WithType
  <2>4. CASE s = r
    BY <1>2, <2>1, <2>2, <2>3, <2>4 DEF With, Bodies, Mends, Dates
  <2>5. CASE s # r
    BY <1>2, <2>1, <2>3, <2>5 DEF With, Bodies, Mends, Same, Dates
  <2> QED
    BY <2>3, <2>4, <2>5
<1>3. CASE op = "resolve" /\ b[r] # Absent /\ b[r].rec = Absent
  <2> DEFINE e == [b[r] EXCEPT !.rec = now]
  <2>1. w = With(b, r, e)
    BY <1>3 DEF CliWrites
  <2>2. b[r] \in Entry /\ b[r].start \in Int \cup {Absent}
    BY <1>3, EntryType DEF Entry
  <2>3. e = [start |-> b[r].start, rec |-> now] /\ e \in Entry /\ e # Absent
    BY <1>1, <2>2, ExceptEntry
  <2>4. e.start = b[r].start /\ e.rec = now
    BY <2>3
  <2> HIDE DEF e
  <2>5. w \in Bodies
    BY <2>1, <2>3, WithType
  <2>6. ~Recovering(b[r])
    BY <1>3 DEF Recovering
  <2>7. CASE s = r
    BY <1>3, <2>1, <2>3, <2>4, <2>5, <2>6, <2>7 DEF With, Bodies, Mends, Dates
  <2>8. CASE s # r
    BY <1>3, <2>1, <2>5, <2>8 DEF With, Bodies, Mends, Same, Dates
  <2> QED
    BY <2>5, <2>7, <2>8
<1>4. CASE ~(op = "trigger") /\ ~(op = "resolve" /\ b[r] # Absent /\ b[r].rec = Absent)
  <2>1. w = b
    BY <1>4 DEF CliWrites, Operations
  <2> QED
    BY <2>1 DEF Mends, Same, Dates
<1> QED
  BY <1>2, <1>3, <1>4

\* What an operator makes of each entry.
LEMMA EditorMends ==
    ASSUME TypeOK, NEW b \in Bodies, NEW op \in Operations, NEW r \in Scenarios,
           NEW w \in EditorWrites(b, op, r), NEW s \in Scenarios
    PROVE  /\ w \in Bodies
           /\ Mends("editor", [op |-> op, scenario |-> r], s, b[s], w[s])
           /\ Dates(b[s], w[s])
<1>1. CASE op = "trigger" /\ b[r] = Absent
  <2> DEFINE e == [start |-> Absent, rec |-> Absent]
  <2>1. w = With(b, r, e)
    BY <1>1 DEF EditorWrites
  <2>2. e \in Entry /\ e # Absent /\ ~Recovering(e)
    BY MadeEntry DEF Recovering
  <2> HIDE DEF e
  <2>3. w \in Bodies
    BY <2>1, <2>2, WithType
  <2>4. CASE s = r
    BY <1>1, <2>1, <2>2, <2>3, <2>4 DEF With, Bodies, Mends, Dates
  <2>5. CASE s # r
    BY <1>1, <2>1, <2>3, <2>5 DEF With, Bodies, Mends, Same, Dates
  <2> QED
    BY <2>3, <2>4, <2>5
<1>2. CASE op = "resolve"
  <2>1. w = With(b, r, Absent)
    BY <1>2 DEF EditorWrites
  <2>2. w \in Bodies
    BY <2>1, WithType
  <2>3. CASE s = r
    BY <1>2, <2>1, <2>2, <2>3 DEF With, Bodies, Mends, Dates
  <2>4. CASE s # r
    BY <1>2, <2>1, <2>2, <2>4 DEF With, Bodies, Mends, Same, Dates
  <2> QED
    BY <2>2, <2>3, <2>4
<1> QED
  BY <1>1, <1>2 DEF EditorWrites, Operations

\* scenario.sh keeps no recovery.
LEMMA ShellType ==
    ASSUME TypeOK, NEW b \in Bodies, NEW op \in Operations, NEW r \in Scenarios,
           NEW w \in ShellWrites(b, op, r), NEW s \in Scenarios
    PROVE  w \in Bodies /\ Dates(b[s], w[s])
<1>1. now \in Int
  BY TimeAssumption DEF TypeOK
<1>2. ShellKeeps(b) \in Bodies /\ \A t \in Scenarios : ShellKeeps(b)[t] # Absent => ~Recovering(ShellKeeps(b)[t])
  <2>1. ASSUME NEW t \in Scenarios, b[t] # Absent
        PROVE  ShellKeeps(b)[t] \in Entry /\ ~Recovering(ShellKeeps(b)[t])
    <3>1. b[t].start \in Int \cup {Absent}
      BY <2>1, EntryType DEF Entry
    <3>2. PICK x \in Int \cup {Absent} : ShellKeeps(b)[t] = [start |-> x, rec |-> Absent]
      BY <1>1, <2>1, <3>1 DEF ShellKeeps
    <3>3. [start |-> x, rec |-> Absent] \in Entry
      BY MadeEntry
    <3> QED
      BY <3>2, <3>3 DEF Recovering
  <2>2. ASSUME NEW t \in Scenarios, b[t] = Absent PROVE ShellKeeps(b)[t] = Absent
    BY <2>2 DEF ShellKeeps
  <2>3. ShellKeeps(b) = [t \in Scenarios |-> ShellKeeps(b)[t]]
    BY DEF ShellKeeps
  <2> QED
    BY <2>1, <2>2, <2>3 DEF Bodies
<1>3. CASE op = "trigger"
  <2> DEFINE e == [start |-> now, rec |-> Absent]
  <2>1. w = With(ShellKeeps(b), r, e)
    BY <1>3 DEF ShellWrites
  <2>2. e \in Entry /\ e # Absent /\ ~Recovering(e)
    BY <1>1, MadeEntry DEF Recovering
  <2> HIDE DEF e
  <2>3. w \in Bodies
    BY <1>2, <2>1, <2>2, WithType
  <2> QED
    BY <1>2, <2>1, <2>2, <2>3 DEF With, Bodies, Dates
<1>4. CASE op = "resolve"
  <2>1. w = With(ShellKeeps(b), r, Absent)
    BY <1>4 DEF ShellWrites
  <2>2. w \in Bodies
    BY <1>2, <2>1, WithType
  <2> QED
    BY <1>2, <2>1, <2>2 DEF With, Bodies, Dates
<1>5. CASE op = "resolve-all"
  <2>1. w = Nothing
    BY <1>5 DEF ShellWrites
  <2>2. w[s] = Absent
    BY <2>1 DEF Nothing
  <2> QED
    BY <2>1, <2>2, NothingType DEF Dates
<1> QED
  BY <1>3, <1>4, <1>5 DEF ShellWrites, Operations

LEMMA RewriteType ==
    ASSUME TypeOK, NEW kind \in {"console", "cli", "shell", "editor"}, NEW b \in Bodies,
           NEW op \in Operations, NEW r \in Scenarios, NEW w \in Rewrites(kind, b, op, r)
    PROVE  w \in Bodies /\ \A s \in Scenarios : Dates(b[s], w[s])
<1>0. \E s : s \in Scenarios
  BY ScenarioAssumption
<1>1. CASE kind = "console"
  BY <1>0, <1>1, ConsoleMends DEF Rewrites
<1>2. CASE kind = "cli"
  BY <1>0, <1>2, CliMends DEF Rewrites
<1>3. CASE kind = "shell"
  BY <1>0, <1>3, ShellType DEF Rewrites
<1>4. CASE kind = "editor"
  BY <1>0, <1>4, EditorMends DEF Rewrites
<1> QED
  BY <1>1, <1>2, <1>3, <1>4

LEMMA RewriteMends ==
    ASSUME TypeOK, NEW kind \in {"console", "cli", "editor"}, NEW b \in Bodies,
           NEW op \in Operations, NEW r \in Scenarios, NEW w \in Rewrites(kind, b, op, r)
    PROVE  \A s \in Scenarios : Mends(kind, [op |-> op, scenario |-> r], s, b[s], w[s])
<1>1. CASE kind = "console"
  BY <1>1, ConsoleMends DEF Rewrites
<1>2. CASE kind = "cli"
  BY <1>2, CliMends DEF Rewrites
<1>3. CASE kind = "editor"
  BY <1>3, EditorMends DEF Rewrites
<1> QED
  BY <1>1, <1>2, <1>3

-----------------------------------------------------------------------------
(* Types. *)

\* No recovery of b begins in the future.
Timed(b) == \A s \in Scenarios : b[s] # Absent /\ Recovering(b[s]) => b[s].rec \in 0..now

TypeInv == TypeOK /\ \A c \in Clients : Timed(copy[c])

LEMMA TimedNothing == Timed(Nothing)
BY DEF Timed, Nothing

LEMMA ReadsType ==
    ASSUME TypeOK, NEW kind, NEW b \in Reads(kind)
    PROVE  b \in Bodies /\ Timed(b)
<1>1. body \in Bodies /\ Timed(body) /\ Nothing \in Bodies /\ Timed(Nothing)
  BY TimedNothing, NothingType DEF TypeOK, Timed, Listed
<1>2. b = Nothing \/ b = body
  BY DEF Reads, Parsed, CliReads
<1> QED
  BY <1>1, <1>2

LEMMA UnaskedType ==
    Unasked \in [op : {"trigger", "resolve", "resolve-all", "advance"}, scenario : Scenarios]
<1> DEFINE s0 == CHOOSE s \in Scenarios : TRUE
<1>1. s0 \in Scenarios
  BY ScenarioAssumption
<1>2. Unasked = [op |-> "resolve-all", scenario |-> s0]
  BY DEF Unasked
<1> HIDE DEF s0
<1> QED
  BY <1>1, <1>2

LEMMA TypeInit == Init => TypeInv
<1> SUFFICES ASSUME Init PROVE TypeInv
  OBVIOUS
<1>2. Size(Nothing) \in Nat /\ Nothing \in Bodies
  BY SizeType, NothingType
<1>3. Listed(Nothing) = {}
  BY DEF Listed, Nothing
<1>4. request \in [Clients -> [op : {"trigger", "resolve", "resolve-all", "advance"}, scenario : Scenarios]]
  BY UnaskedType DEF Init
<1>5. TypeOK
  BY <1>2, <1>3, <1>4, TimeAssumption DEF Init, TypeOK
<1> QED
  BY <1>5, TimedNothing DEF Init, TypeInv

LEMMA RequestType == ASSUME TypeInv, NEW c \in Clients, Request(c) PROVE TypeInv'
<1>1. PICK op \in Operations, r \in Scenarios :
        \E b \in Reads(KindOf[c]) : \E w \in Rewrites(KindOf[c], b, op, r) :
             /\ copy' = [copy EXCEPT ![c] = w]
             /\ request' = [request EXCEPT ![c] = [op |-> op, scenario |-> r]]
  BY DEF Request, Operations
<1>b. PICK b \in Reads(KindOf[c]) : \E w \in Rewrites(KindOf[c], b, op, r) :
             /\ copy' = [copy EXCEPT ![c] = w]
             /\ request' = [request EXCEPT ![c] = [op |-> op, scenario |-> r]]
  BY <1>1
<1>2. PICK w \in Rewrites(KindOf[c], b, op, r) :
             /\ copy' = [copy EXCEPT ![c] = w]
             /\ request' = [request EXCEPT ![c] = [op |-> op, scenario |-> r]]
  BY <1>b
<1>3. TypeOK /\ b \in Bodies /\ Timed(b)
  BY ReadsType DEF TypeInv
<1>4. w \in Bodies /\ \A s \in Scenarios : Dates(b[s], w[s])
  BY <1>3, KindAssumption, RewriteType
<1>5. now \in 0..now
  BY <1>3, TimeAssumption DEF TypeOK
<1>6. Timed(w)
  <2> SUFFICES ASSUME NEW s \in Scenarios, w[s] # Absent, Recovering(w[s]) PROVE w[s].rec \in 0..now
    BY DEF Timed
  <2>1. CASE w[s].rec = now
    BY <1>5, <2>1
  <2>2. CASE b[s] # Absent /\ w[s].rec = b[s].rec
    <3>1. Recovering(b[s])
      BY <2>2 DEF Recovering
    <3> QED
      BY <1>3, <2>2, <3>1 DEF Timed
  <2> QED
    BY <1>4, <2>1, <2>2 DEF Dates
<1>7. \A d \in Clients : copy'[d] = IF d = c THEN w ELSE copy[d]
  BY <1>2, <1>3 DEF TypeOK
<1>8. \A d \in Clients : Timed(copy'[d])
  BY <1>6, <1>7 DEF TypeInv
<1>9. \A d \in Clients : Timed(copy[d])'
  BY <1>8 DEF Timed, Request
<1>10. /\ copy' \in [Clients -> Bodies]
       /\ request' \in [Clients -> [op : {"trigger", "resolve", "resolve-all", "advance"}, scenario : Scenarios]]
  BY <1>2, <1>3, <1>4 DEF TypeOK, Operations
<1>11. /\ requests' \in 0..MaxRequests
       /\ cpc' \in [Clients -> {"idle", "truncate", "write", "cut"}]
  BY <1>3, TimeAssumption DEF Request, TypeOK
<1>12. TypeOK'
  BY <1>3, <1>10, <1>11 DEF TypeOK, Request, Listed
<1> QED
  BY <1>9, <1>12 DEF TypeInv

LEMMA WriterType ==
    ASSUME TypeInv, NEW c \in Clients, Truncate(c) \/ Write(c) \/ Cut(c) \/ Abandon(c)
    PROVE  TypeInv'
<1>1. /\ Size(copy[c]) \in Nat /\ Timed(copy[c]) /\ copy[c] \in Bodies
      /\ Nothing \in Bodies /\ Timed(Nothing) /\ TypeOK /\ Timed(body)
  BY SizeType, NothingType, TimedNothing DEF TypeInv, TypeOK, Timed, Listed
<1>2. mtime' \in Nat /\ now' = now /\ raced' \in SUBSET Consumers
  BY <1>1 DEF Truncate, Write, Cut, Abandon, Stamp, TypeOK
<1>a. \/ UNCHANGED <<request, copy>> /\ cpc' \in {[cpc EXCEPT ![c] = "write"], [cpc EXCEPT ![c] = "cut"]}
      \/ Ends(c)
  BY DEF Truncate, Write, Cut, Abandon
<1>b. /\ copy' \in [Clients -> Bodies]
      /\ request' \in [Clients -> [op : {"trigger", "resolve", "resolve-all", "advance"}, scenario : Scenarios]]
      /\ \A d \in Clients : copy'[d] \in {copy[d], Nothing}
  BY <1>1, <1>a, UnaskedType DEF Ends, TypeOK
<1>3. body' \in Bodies /\ Timed(body')
  BY <1>1 DEF Truncate, Write, Cut, Abandon, TypeOK
<1>4. \A s \in Listed(body)' : Recovering(body'[s]) => body'[s].rec \in 0..now'
  BY <1>2, <1>3 DEF Timed, Listed
<1>5. exists' \in BOOLEAN /\ style' \in {"block", "flow"} /\ length' \in Nat
  <2>1. CASE Truncate(c) \/ Cut(c) \/ Abandon(c)
    <3>1. style' = style /\ length' \in {0, length, Size(copy[c])} /\ (exists' = TRUE \/ exists' = exists)
      BY <2>1 DEF Truncate, Cut, Abandon
    <3>2. exists' \in BOOLEAN
      BY <1>1, <3>1 DEF TypeOK
    <3> QED
      BY <1>1, <3>1, <3>2 DEF TypeOK
  <2>2. CASE Write(c)
    BY <1>1, <2>2, KindAssumption DEF Write, TypeOK, Style
  <2> QED
    BY <2>1, <2>2
<1>6. cpc' \in [Clients -> {"idle", "truncate", "write", "cut"}]
  BY <1>1, <1>a DEF Ends, TypeOK
<1>7. UNCHANGED <<requests, pollVars>>
  BY DEF Truncate, Write, Cut, Abandon
<1>8. TypeOK'
  BY <1>1, <1>2, <1>3, <1>4, <1>5, <1>6, <1>7, <1>b DEF TypeOK
<1>9. \A d \in Clients : Timed(copy[d])'
  BY <1>1, <1>2, <1>b DEF TypeInv, Timed
<1> QED
  BY <1>8, <1>9 DEF TypeInv

\* What a poll reads is entries that a consumer can keep.
LEMMA ResumesType ==
    ASSUME TypeOK, NEW k \in Consumers, NEW b \in Bodies, NEW s \in Scenarios, b[s] # Absent
    PROVE  ResumesAt(k, s, b[s]) \in Int \cup {Absent}
<1>1. b[s].start \in Int \cup {Absent}
  BY EntryType DEF Entry
<1>2. started[k][s] \in Int \cup {Absent} /\ now \in Int
  BY TimeAssumption DEF TypeOK
<1> QED
  BY <1>1, <1>2 DEF ResumesAt

LEMMA PollType == ASSUME TypeInv, NEW k \in Consumers, Poll(k) \/ Load(k) \/ Restart(k) PROVE TypeInv'
<1>1. TypeOK /\ UNCHANGED <<now, fileVars, clientVars>>
  BY DEF TypeInv, Poll, Load, Restart
<1>2. requests' \in 0..MaxRequests
  BY <1>1, TimeAssumption DEF Poll, Load, Restart, TypeOK
<1>3. kpc' \in [Consumers -> {"idle", "load"}] /\ seen' \in [Consumers -> Nat \cup {Absent}]
  BY <1>1, ZenonT(40) DEF Poll, Load, Restart, TypeOK
<1>4. [s \in Scenarios |-> Absent] \in [Scenarios -> Int \cup {Absent}] /\ Nothing \in Bodies
  BY NothingType
<1>5. /\ started' \in [Consumers -> [Scenarios -> Int \cup {Absent}]]
      /\ current' \in [Consumers -> Bodies]
  <2>1. CASE Poll(k) \/ Restart(k)
    <3>1. /\ started' \in {started, [started EXCEPT ![k] = [s \in Scenarios |-> Absent]]}
          /\ current' \in {current, [current EXCEPT ![k] = Nothing]}
      BY <2>1 DEF Poll, Restart
    <3> QED
      BY <1>1, <1>4, <3>1, ZenonT(40) DEF TypeOK
  <2>2. CASE Load(k)
    <3>1. CASE UNCHANGED <<started, current>>
      BY <1>1, <3>1 DEF TypeOK
    <3>2. ASSUME NEW b \in Parsed, b # Absent,
                 started' = [started EXCEPT ![k] =
                     [s \in Scenarios |-> IF s \in Listed(b) \cap Library THEN ResumesAt(k, s, b[s]) ELSE Absent]],
                 current' = [current EXCEPT ![k] =
                     [s \in Scenarios |->
                        IF s \in Listed(b) \cap Library
                        THEN [start |-> ResumesAt(k, s, b[s]), rec |-> b[s].rec] ELSE Absent]]
          PROVE  /\ started' \in [Consumers -> [Scenarios -> Int \cup {Absent}]]
                 /\ current' \in [Consumers -> Bodies]
      <4>1. b \in Bodies
        BY <1>1, <3>2, NothingType DEF Parsed, TypeOK
      <4>2. ASSUME NEW s \in Scenarios, s \in Listed(b)
            PROVE  /\ ResumesAt(k, s, b[s]) \in Int \cup {Absent}
                   /\ [start |-> ResumesAt(k, s, b[s]), rec |-> b[s].rec] \in Entry
        <5>1. ResumesAt(k, s, b[s]) \in Int \cup {Absent} /\ b[s].rec \in Int \cup {Null, Absent}
          BY <1>1, <4>1, <4>2, ResumesType, EntryType DEF Listed, Entry
        <5> QED
          BY <5>1 DEF Entry
      <4>3. [s \in Scenarios |-> IF s \in Listed(b) \cap Library THEN ResumesAt(k, s, b[s]) ELSE Absent]
               \in [Scenarios -> Int \cup {Absent}]
        BY <4>2
      <4>4. [s \in Scenarios |->
                IF s \in Listed(b) \cap Library
                THEN [start |-> ResumesAt(k, s, b[s]), rec |-> b[s].rec] ELSE Absent] \in Bodies
        BY <4>2 DEF Bodies
      <4> QED
        BY <1>1, <3>2, <4>3, <4>4 DEF TypeOK
    <3> QED
      BY <2>2, <3>1, <3>2 DEF Load
  <2> QED
    BY <2>1, <2>2
<1>8. raced' \in SUBSET Consumers
  BY <1>1 DEF Poll, Load, Restart, TypeOK
<1>6. TypeOK'
  BY <1>1, <1>2, <1>3, <1>5, <1>8 DEF TypeOK, Listed
<1>7. \A d \in Clients : Timed(copy[d])'
  BY <1>1 DEF TypeInv, Timed
<1> QED
  BY <1>6, <1>7 DEF TypeInv

LEMMA TypeStep == TypeInv /\ [Next]_vars => TypeInv'
<1> SUFFICES ASSUME TypeInv, [Next]_vars PROVE TypeInv'
  OBVIOUS
<1>1. TypeOK
  BY DEF TypeInv
<1>2. ASSUME NEW c \in Clients, Client(c) PROVE TypeInv'
  BY <1>2, RequestType, WriterType DEF Client
<1>3. ASSUME NEW k \in Consumers, Consumer(k) \/ Restart(k) PROVE TypeInv'
  BY <1>3, PollType DEF Consumer
<1>4. CASE Tick
  <2>1. now' \in 0..MaxTime /\ \A x \in 0..now : x \in 0..now'
    BY <1>1, <1>4, TimeAssumption DEF Tick, TypeOK
  <2>2. TypeOK'
    BY <1>1, <1>4, <2>1 DEF Tick, TypeOK, Listed
  <2>3. \A d \in Clients : Timed(copy[d])'
    BY <1>4, <2>1 DEF Tick, TypeInv, Timed
  <2> QED
    BY <2>2, <2>3 DEF TypeInv
<1>5. CASE Remove
  <2>1. Size(Nothing) \in Nat /\ Nothing \in Bodies /\ Listed(Nothing) = {}
    BY SizeType, NothingType DEF Listed, Nothing
  <2>2. requests' \in 0..MaxRequests
    BY <1>1, <1>5, TimeAssumption DEF Remove, TypeOK
  <2>3. TypeOK'
    BY <1>1, <1>5, <2>1, <2>2 DEF Remove, TypeOK, Listed
  <2>4. \A d \in Clients : Timed(copy[d])'
    BY <1>5 DEF Remove, TypeInv, Timed
  <2> QED
    BY <2>3, <2>4 DEF TypeInv
<1>6. CASE UNCHANGED vars
  <2>1. TypeOK'
    BY <1>1, <1>6 DEF TypeOK, Listed
  <2>2. \A d \in Clients : Timed(copy[d])'
    BY <1>6 DEF TypeInv, Timed
  <2> QED
    BY <2>1, <2>2 DEF TypeInv
<1> QED
  BY <1>2, <1>3, <1>4, <1>5, <1>6 DEF Next

\* The state keeps its types, and no recovery in the file begins in the future, whoever writes.
THEOREM ControlTypes == Spec => []TypeOK
<1>1. TypeInv => TypeOK
  BY DEF TypeInv
<1> QED
  BY TypeInit, TypeStep, <1>1, PTL DEF Spec

-----------------------------------------------------------------------------
(* What the plugin runs. *)

\* A consumer remembers an mtime that the file has had, and one that remembers none runs
\* nothing.  If it remembers the mtime of a file that is whole, it runs what that file says, or
\* the file was written again under this mtime.
InStep(k) ==
    /\ seen[k] # Absent => seen[k] <= mtime
    /\ seen[k] = Absent => kpc[k] = "idle" /\ current[k] = Nothing
    /\ exists /\ Whole /\ kpc[k] = "idle" /\ seen[k] = mtime => InForce(k) \/ k \in raced

StepInv == TypeInv /\ \A k \in Consumers : InStep(k)

LEMMA StepInit == Init => StepInv
<1> SUFFICES ASSUME Init PROVE StepInv
  OBVIOUS
<1>1. TypeInv
  BY TypeInit
<1>2. ASSUME NEW k \in Consumers PROVE InStep(k)
  <2>1. seen[k] = Absent /\ kpc[k] = "idle" /\ current[k] = Nothing /\ mtime = 0
    BY DEF Init
  <2>2. Absent # mtime
    BY <2>1, FieldAssumption
  <2> QED
    BY <2>1, <2>2 DEF InStep
<1> QED
  BY <1>1, <1>2 DEF StepInv

\* A write moves the mtime past everything that a consumer remembers, or is noted.
LEMMA WriterStep ==
    ASSUME StepInv, NEW c \in Clients, Truncate(c) \/ Write(c) \/ Cut(c), NEW k \in Consumers
    PROVE  InStep(k)'
<1>1. mtime \in Nat /\ (seen[k] # Absent => seen[k] \in Nat) /\ InStep(k)
  BY DEF StepInv, TypeInv, TypeOK
<1>2. Stamp /\ UNCHANGED pollVars
  BY DEF Truncate, Write, Cut
<1>3. CASE mtime' = mtime
  <2>1. seen'[k] = mtime' => k \in raced'
    BY <1>2, <1>3 DEF Stamp
  <2> QED
    BY <1>1, <1>2, <1>3, <2>1 DEF InStep
<1>4. CASE mtime' = mtime + 1
  <2>1. seen'[k] # Absent => seen'[k] <= mtime' /\ seen'[k] # mtime'
    BY <1>1, <1>2, <1>4 DEF InStep
  <2>2. Absent # mtime'
    BY <1>1, <1>4, FieldAssumption
  <2> QED
    BY <1>1, <1>2, <2>1, <2>2 DEF InStep
<1> QED
  BY <1>2, <1>3, <1>4 DEF Stamp

\* A whole file says more than nothing at all.
LEMMA WholeLength == Whole => length # 0
BY SizeType DEF Whole

LEMMA QuietStep ==
    ASSUME StepInv, NEW k \in Consumers, UNCHANGED <<mtime, kpc, seen, current, raced>>,
           exists' /\ Whole' => exists /\ Whole /\ body' = body
    PROVE  InStep(k)'
<1>1. InStep(k)
  BY DEF StepInv
<1>2. exists' /\ Whole' /\ kpc'[k] = "idle" /\ seen'[k] = mtime' => InForce(k)' \/ k \in raced'
  BY <1>1 DEF InStep, InForce
<1> QED
  BY <1>1, <1>2 DEF InStep

LEMMA PollStep ==
    ASSUME StepInv, NEW k \in Consumers, NEW j \in Consumers, Poll(j) \/ Load(j) \/ Restart(j)
    PROVE  InStep(k)'
<1>1. TypeOK /\ InStep(k) /\ UNCHANGED <<now, fileVars>>
  BY DEF StepInv, TypeInv, Poll, Load, Restart
<1>2. CASE j # k
  <2>1. /\ kpc'[k] = kpc[k] /\ seen'[k] = seen[k] /\ current'[k] = current[k]
        /\ k \in raced => k \in raced'
    BY <1>1, <1>2 DEF Poll, Load, Restart, TypeOK
  <2> QED
    BY <1>1, <2>1 DEF InStep, InForce, Whole
<1>3. CASE j = k /\ Restart(k)
  <2>1. kpc'[k] = "idle" /\ seen'[k] = Absent /\ current'[k] = Nothing
    BY <1>1, <1>3 DEF Restart, TypeOK
  <2>3. mtime' \in Nat
    BY <1>1 DEF TypeOK
  <2>2. seen'[k] # mtime'
    BY <2>1, <2>3, FieldAssumption
  <2> QED
    BY <2>1, <2>2 DEF InStep
<1>4. CASE j = k /\ Poll(k)
  <2>1. CASE exists /\ kpc' = [kpc EXCEPT ![k] = "load"] /\ seen' = [seen EXCEPT ![k] = mtime]
             /\ current' = current
    <3>1. kpc'[k] = "load" /\ seen'[k] = mtime /\ mtime \in Nat
      BY <1>1, <2>1 DEF TypeOK
    <3> QED
      BY <1>1, <2>1, <3>1, FieldAssumption DEF InStep
  <2>2. CASE ~exists /\ kpc' = kpc /\ seen' = [seen EXCEPT ![k] = Absent]
             /\ current' = [current EXCEPT ![k] = Nothing]
    <3>1. kpc'[k] = "idle" /\ seen'[k] = Absent /\ current'[k] = Nothing
      BY <1>1, <1>4, <2>2 DEF Poll, TypeOK
    <3> QED
      BY <1>1, <2>2, <3>1 DEF InStep
  <2> QED
    BY <1>4, <2>1, <2>2 DEF Poll
<1>5. CASE j = k /\ Load(k)
  <2>1. kpc[k] = "load" /\ seen' = seen /\ kpc'[k] = "idle" /\ seen[k] # Absent
    BY <1>1, <1>5 DEF Load, InStep, TypeOK
  <2>2. ASSUME exists, Whole PROVE InForce(k)'
    <3>1. Parsed = {body} /\ body # Absent
      BY <1>1, <2>2, FieldAssumption DEF Parsed, TypeOK
    <3>2. current' = [current EXCEPT ![k] =
                     [s \in Scenarios |->
                        IF s \in Listed(body) \cap Library
                        THEN [start |-> ResumesAt(k, s, body[s]), rec |-> body[s].rec] ELSE Absent]]
      BY <1>5, <3>1 DEF Load
    <3>3. \A s \in Scenarios : current'[k][s] =
                        IF s \in Listed(body) \cap Library
                        THEN [start |-> ResumesAt(k, s, body[s]), rec |-> body[s].rec] ELSE Absent
      BY <1>1, <3>2 DEF TypeOK
    <3>4. ASSUME NEW s \in Scenarios, body[s] # Absent, s \in Library
          PROVE  /\ current'[k][s] # Absent
                 /\ current'[k][s].rec = body[s].rec
                 /\ body[s].start # Absent => current'[k][s].start = body[s].start
      <4>1. current'[k][s] = [start |-> ResumesAt(k, s, body[s]), rec |-> body[s].rec]
        BY <3>3, <3>4 DEF Listed
      <4>2. body \in Bodies /\ ResumesAt(k, s, body[s]) \in Int \cup {Absent}
        BY <1>1, <3>4, ResumesType DEF TypeOK
      <4>3. body[s].rec \in Int \cup {Null, Absent}
        BY <3>4, <4>2, EntryType DEF Entry
      <4>4. current'[k][s] # Absent
        BY <4>1, <4>2, <4>3, MadeEntry
      <4>5. body[s].start # Absent => ResumesAt(k, s, body[s]) = body[s].start
        BY DEF ResumesAt
      <4> QED
        BY <4>1, <4>4, <4>5
    <3>5. ASSUME NEW s \in Scenarios, body[s] = Absent \/ s \notin Library
          PROVE  current'[k][s] = Absent
      BY <3>3, <3>5 DEF Listed
    <3> QED
      BY <1>1, <2>2, <3>4, <3>5 DEF InForce
  <2> QED
    BY <1>1, <2>1, <2>2 DEF InStep, Whole
<1> QED
  BY <1>2, <1>3, <1>4, <1>5

LEMMA StepStep == StepInv /\ [Next]_vars => StepInv'
<1> SUFFICES ASSUME StepInv, [Next]_vars PROVE StepInv'
  OBVIOUS
<1>1. TypeInv'
  BY TypeStep DEF StepInv
<1> SUFFICES ASSUME NEW k \in Consumers PROVE InStep(k)'
  BY <1>1 DEF StepInv
<1>2. ASSUME NEW c \in Clients, Client(c) PROVE InStep(k)'
  <2>1. CASE Request(c)
    BY <2>1, QuietStep DEF Request, Whole
  <2>2. CASE Abandon(c)
    <3>1. exists' /\ Whole' => exists /\ Whole /\ body' = body
      <4>1. Whole' => length' # 0
        BY WholeLength, SizeType DEF Whole
      <4> QED
        BY <2>2, <4>1 DEF Abandon, Whole
    <3> QED
      BY <2>2, <3>1, QuietStep DEF Abandon
  <2> QED
    BY <1>2, <2>1, <2>2, WriterStep DEF Client
<1>3. ASSUME NEW j \in Consumers, Consumer(j) \/ Restart(j) PROVE InStep(k)'
  BY <1>3, PollStep DEF Consumer
<1>4. CASE Tick
  BY <1>4, QuietStep DEF Tick, Whole
<1>5. CASE Remove
  BY <1>5, QuietStep DEF Remove, Whole
<1>6. CASE UNCHANGED vars
  BY <1>6, QuietStep DEF Whole
<1> QED
  BY <1>2, <1>3, <1>4, <1>5, <1>6 DEF Next

\* "the plugin watches a control file and re-reads it when its mtime changes" (control.rs:3): a
\* consumer with nothing new to read runs what the file says, however the writers overlap, unless
\* the file was written again under the mtime that it remembers.
THEOREM NextTickHolds == Spec => []NextTick
<1>1. StepInv => NextTick
  <2> SUFFICES ASSUME StepInv, NEW k \in Consumers, ~exists, seen[k] = Absent PROVE InForce(k)
    BY DEF StepInv, InStep, NextTick
  <2>1. current[k] = Nothing
    BY DEF StepInv, InStep
  <2> QED
    BY <2>1 DEF InForce, Nothing
<1>2. StepInv /\ [Next]_vars => StepInv'
  BY StepStep
<1> QED
  BY StepInit, <1>1, <1>2, PTL DEF Spec

-----------------------------------------------------------------------------
(* What a request leaves alone. *)

\* One request at a time, and no scenario.sh, which loses start times and takes faults away at once (MCControlHost.cfg).
Orderly == OneAtATime /\ \A c \in Clients : KindOf[c] # "shell"

\* What a writer is about to write was made from the entries that the file still spells.
Prepared(c) == \A s \in Scenarios : Mends(KindOf[c], request[c], s, body[s], copy[c][s])

AloneInv ==
    /\ TypeInv
    /\ style = "block"
    /\ ~exists => body = Nothing /\ length # 0
    /\ \A c \in Clients : cpc[c] = "idle" \/ \A d \in Clients \ {c} : cpc[d] = "idle"
    /\ \A c \in Clients : cpc[c] \in {"write", "cut"} => exists
    /\ (\A c \in Clients : cpc[c] = "idle") /\ length = 0 => body = Nothing
    /\ \A c \in Clients : cpc[c] \in {"truncate", "write"} => Prepared(c)

\* A consumer remembers start times of scenarios that it knows alone, and a file that is not
\* there spells nothing.
MemoryInv ==
    /\ TypeInv
    /\ ~exists => body = Nothing
    /\ \A k \in Consumers, s \in Scenarios : started[k][s] # Absent => s \in Library

LEMMA AloneInit == Init => AloneInv
<1> SUFFICES ASSUME Init PROVE AloneInv
  OBVIOUS
<1>1. TypeInv /\ length # 0
  BY TypeInit, SizeType DEF Init
<1> QED
  BY <1>1 DEF Init, AloneInv

\* While nobody else writes, a writer reads what the file spells.
LEMMA ReadsBody ==
    ASSUME AloneInv, NEW kind, \A c \in Clients : cpc[c] = "idle", NEW b \in Reads(kind)
    PROVE  b = body /\ (kind = "cli" => exists)
BY DEF AloneInv, Reads, Parsed, CliReads

LEMMA AloneRequest ==
    ASSUME Orderly, AloneInv, NEW c \in Clients, Request(c)
    PROVE  AloneInv'
<1>0. TypeInv' /\ TypeInv /\ TypeOK
  BY RequestType DEF AloneInv, TypeInv
<1>1. PICK op \in Operations, r \in Scenarios :
        \E b \in Reads(KindOf[c]) : \E w \in Rewrites(KindOf[c], b, op, r) :
             /\ copy' = [copy EXCEPT ![c] = w]
             /\ request' = [request EXCEPT ![c] = [op |-> op, scenario |-> r]]
  BY DEF Request, Operations
<1>2. PICK b \in Reads(KindOf[c]) : \E w \in Rewrites(KindOf[c], b, op, r) :
             /\ copy' = [copy EXCEPT ![c] = w]
             /\ request' = [request EXCEPT ![c] = [op |-> op, scenario |-> r]]
  BY <1>1
<1>3. PICK w \in Rewrites(KindOf[c], b, op, r) :
             /\ copy' = [copy EXCEPT ![c] = w]
             /\ request' = [request EXCEPT ![c] = [op |-> op, scenario |-> r]]
  BY <1>2
<1>4. \A d \in Clients : cpc[d] = "idle"
  BY DEF Request, Orderly
<1>5. b = body /\ (KindOf[c] = "cli" => exists)
  BY <1>4, ReadsBody
<1>6. body \in Bodies /\ KindOf[c] \in {"console", "cli", "editor"}
  BY <1>0, KindAssumption DEF TypeOK, Orderly
<1>7. \A s \in Scenarios : Mends(KindOf[c], [op |-> op, scenario |-> r], s, body[s], w[s])
  BY <1>0, <1>5, <1>6, RewriteMends
<1>8. copy'[c] = w /\ request'[c] = [op |-> op, scenario |-> r]
  BY <1>0, <1>3 DEF TypeOK
<1>9. UNCHANGED <<now, fileVars>>
  BY DEF Request
<1>10. Prepared(c)'
  BY <1>7, <1>8, <1>9 DEF Prepared, Mends, Finished
<1>11. /\ cpc'[c] \in {"write", "truncate"} /\ (cpc'[c] = "write" => exists)
       /\ \A d \in Clients \ {c} : cpc'[d] = "idle"
  BY <1>0, <1>4, <1>5 DEF Request, TypeOK
<1> QED
  BY <1>0, <1>9, <1>10, <1>11 DEF AloneInv

LEMMA AloneWriter ==
    ASSUME Orderly, AloneInv, NEW c \in Clients, Truncate(c) \/ Write(c) \/ Cut(c) \/ Abandon(c)
    PROVE  AloneInv'
<1>0. TypeInv' /\ TypeInv /\ TypeOK
  BY WriterType DEF AloneInv, TypeInv
<1>1. \A d \in Clients \ {c} : cpc[d] = "idle" /\ cpc'[d] = "idle"
  BY <1>0 DEF AloneInv, TypeOK, Truncate, Write, Cut, Abandon, Ends
<1>2. CASE Truncate(c)
  <2>1. cpc'[c] = "write" /\ exists' /\ UNCHANGED <<now, body, style, request, copy>>
    BY <1>0, <1>2 DEF Truncate, TypeOK
  <2>2. Prepared(c)'
    <3>1. Prepared(c)
      BY <1>2 DEF Truncate, AloneInv
    <3> QED
      BY <2>1, <3>1 DEF Prepared, Mends, Finished
  <2> QED
    BY <1>0, <1>1, <2>1, <2>2 DEF AloneInv
<1>3. CASE Write(c)
  <2>1. cpc'[c] \in {"cut", "idle"} /\ exists /\ exists' = exists
    BY <1>0, <1>3 DEF Write, Ends, TypeOK
  <2>2. style' = "block"
    BY <1>3, KindAssumption DEF Write, Style, AloneInv, Orderly
  <2>3. Size(copy[c]) \in Nat /\ Size(copy[c]) > 0 /\ length \in Nat
    BY <1>0, SizeType DEF TypeOK
  <2>4. length' # 0
    BY <1>3, <2>3 DEF Write
  <2> QED
    BY <1>0, <1>1, <2>1, <2>2, <2>4 DEF AloneInv
<1>4. CASE Cut(c)
  <2>1. cpc'[c] = "idle" /\ UNCHANGED <<exists, style, body>> /\ cpc[c] = "cut"
    BY <1>0, <1>4 DEF Cut, Ends, TypeOK
  <2>2. length' # 0
    BY <1>4, SizeType DEF Cut
  <2> QED
    BY <1>0, <1>1, <2>1, <2>2 DEF AloneInv
<1>5. CASE Abandon(c)
  <2>1. cpc'[c] = "idle" /\ UNCHANGED <<exists, style, length>>
    BY <1>0, <1>5 DEF Abandon, Ends, TypeOK
  <2>2. body' = IF length = 0 THEN Nothing ELSE body
    BY <1>5 DEF Abandon
  <2> QED
    BY <1>0, <1>1, <2>1, <2>2 DEF AloneInv
<1> QED
  BY <1>2, <1>3, <1>4, <1>5

\* What has recovered stays recovered.
LEMMA StaysFinished ==
    ASSUME TypeInv, Tick, NEW s \in Scenarios, body[s] # Absent, Finished(body[s])
    PROVE  Finished(body[s])'
<1>1. body[s].rec \in 0..now /\ now \in Nat /\ now' = now + 1 /\ body' = body
  BY TimeAssumption DEF TypeInv, TypeOK, Tick, Listed, Finished
<1> QED
  BY <1>1, TimeAssumption DEF Finished

LEMMA AloneTick == ASSUME AloneInv, Tick PROVE AloneInv'
<1>1. TypeInv' /\ TypeInv
  BY TypeStep DEF AloneInv, Next
<1>2. UNCHANGED <<fileVars, clientVars>>
  BY DEF Tick
<1>3. ASSUME NEW c \in Clients, Prepared(c) PROVE Prepared(c)'
  <2> SUFFICES ASSUME NEW s \in Scenarios PROVE Mends(KindOf[c], request[c], s, body[s], copy[c][s])'
    BY DEF Prepared
  <2>1. Mends(KindOf[c], request[c], s, body[s], copy[c][s])
    BY <1>3 DEF Prepared
  <2>2. body[s] # Absent /\ Finished(body[s]) => Finished(body[s])'
    BY <1>1, StaysFinished
  <2> QED
    BY <1>2, <2>1, <2>2 DEF Mends, Same
<1> QED
  BY <1>1, <1>2, <1>3 DEF AloneInv

LEMMA AloneStep == ASSUME Orderly PROVE AloneInv /\ [Next]_vars => AloneInv'
<1> SUFFICES ASSUME AloneInv, [Next]_vars PROVE AloneInv'
  OBVIOUS
<1>1. TypeInv'
  BY TypeStep DEF AloneInv
<1>2. ASSUME NEW c \in Clients, Client(c) PROVE AloneInv'
  BY <1>2, AloneRequest, AloneWriter DEF Client
<1>3. ASSUME UNCHANGED <<now, fileVars, clientVars>> PROVE AloneInv'
  BY <1>1, <1>3 DEF AloneInv, Prepared, Mends, Finished
<1>4. ASSUME NEW k \in Consumers, Consumer(k) \/ Restart(k) PROVE AloneInv'
  BY <1>3, <1>4 DEF Consumer, Poll, Load, Restart
<1>5. CASE Remove
  <2>1. body' = Nothing /\ style' = "block" /\ UNCHANGED clientVars /\ \A c \in Clients : cpc'[c] = "idle"
    BY <1>5 DEF Remove
  <2>2. length' # 0
    BY <1>5, SizeType DEF Remove
  <2> QED
    BY <1>1, <2>1, <2>2 DEF AloneInv
<1>6. CASE UNCHANGED vars
  BY <1>3, <1>6
<1> QED
  BY <1>2, <1>4, <1>5, <1>6, AloneTick DEF Next

\* Every change of the file is a removal, the end of a writer that has emptied it, or a write
\* of what was prepared from the entries that it replaces.
LEMMA Changes ==
    ASSUME Orderly, AloneInv, [Next]_vars
    PROVE  \/ body' = body
           \/ Removed /\ body' = Nothing
           \/ \E c \in Clients : Writes(c) /\ Prepared(c)
<1>1. TypeOK
  BY DEF AloneInv, TypeInv, TypeOK
<1>2. ASSUME NEW c \in Clients, Client(c)
      PROVE  \/ body' = body
             \/ Removed /\ body' = Nothing
             \/ Writes(c) /\ Prepared(c)
  <2>1. CASE Write(c)
    <3>1. cpc[c] = "write" /\ cpc'[c] # "write" /\ body' = copy[c] /\ length' # 0
      BY <1>1, <2>1, SizeType DEF Write, Ends, TypeOK
    <3>2. Prepared(c)
      BY <3>1 DEF AloneInv
    <3> QED
      BY <1>1, <3>1, <3>2 DEF Writes
  <2>2. CASE Abandon(c)
    BY <2>2 DEF Abandon, AloneInv, Removed
  <2>3. CASE Request(c) \/ Truncate(c) \/ Cut(c)
    BY <2>3 DEF Request, Truncate, Cut
  <2> QED
    BY <1>2, <2>1, <2>2, <2>3 DEF Client
<1>3. CASE Remove
  BY <1>3 DEF Remove, Removed
<1>4. ASSUME NEW k \in Consumers, Consumer(k) \/ Restart(k) PROVE body' = body
  BY <1>4 DEF Consumer, Poll, Load, Restart
<1>5. CASE Tick \/ UNCHANGED vars
  BY <1>5 DEF Tick
<1> QED
  BY <1>2, <1>3, <1>4, <1>5 DEF Next

LEMMA SameEntry == ASSUME NEW e PROVE Same(e, e)
BY DEF Same

LEMMA NothingSays == \A s \in Scenarios : Nothing[s] = Absent
BY DEF Nothing

\* The four parts of Undisturbed, and Unwinds, step by step.
OthersStep ==
    \A s \in Scenarios :
       \/ Same(body[s], body'[s])
       \/ Removed
       \/ body'[s] = Absent /\ Finished(body[s])
       \/ \E c \in Clients : /\ Writes(c)
                              /\ \/ request[c].scenario = s
                                 \/ request[c].op = "resolve-all"

StartStep ==
    \A s \in Scenarios :
       body[s] # Absent /\ ~Finished(body[s]) /\ body'[s] # Absent
          /\ body[s].start # body'[s].start =>
          \E c \in Clients : Writes(c) /\ request[c] = [op |-> "advance", scenario |-> s]

RecoveryStep ==
    \A s \in Scenarios :
       body[s] # Absent /\ Recovering(body[s]) /\ body'[s] # Absent
          /\ body'[s].rec # body[s].rec =>
             \/ Removed
             \/ \E c \in Clients : /\ Writes(c)
                                    /\ request[c] = [op |-> "trigger", scenario |-> s]
                                    /\ ~Recovering(body'[s])

UnwindStep ==
    \A s \in Scenarios :
       body[s] # Absent /\ body'[s] = Absent =>
          \/ Removed
          \/ Finished(body[s])
          \/ \E c \in Clients : Writes(c) /\ KindOf[c] \in {"shell", "editor"}

MemoryStep ==
    \A k \in Consumers, s \in Scenarios :
       Forgets(k, s) => Accounted(k, s) \/ (exists /\ length = 0)

LEMMA FileSteps ==
    ASSUME Orderly, AloneInv, [Next]_vars
    PROVE  OthersStep /\ StartStep /\ RecoveryStep /\ UnwindStep
<1>1. CASE body' = body
  BY <1>1, SameEntry DEF OthersStep, StartStep, RecoveryStep, UnwindStep
<1>2. CASE Removed /\ body' = Nothing
  BY <1>2, NothingSays DEF OthersStep, StartStep, RecoveryStep, UnwindStep
<1>3. ASSUME NEW c \in Clients, Writes(c), Prepared(c)
      PROVE  OthersStep /\ StartStep /\ RecoveryStep /\ UnwindStep
  <2>1. ASSUME NEW s \in Scenarios PROVE Mends(KindOf[c], request[c], s, body[s], body'[s])
    BY <1>3 DEF Prepared, Writes
  <2> QED
    BY <1>3, <2>1 DEF OthersStep, StartStep, RecoveryStep, UnwindStep, Mends
<1> QED
  BY <1>1, <1>2, <1>3, Changes

LEMMA MemoryInit == Init => MemoryInv
<1> SUFFICES ASSUME Init PROVE MemoryInv
  OBVIOUS
<1>1. TypeInv
  BY TypeInit
<1>2. \A k \in Consumers, s \in Scenarios : started[k][s] = Absent
  BY DEF Init
<1>3. ~exists => body = Nothing
  BY DEF Init
<1> QED
  BY <1>1, <1>2, <1>3 DEF MemoryInv

\* A read keeps the start time of an entry that spells none.
LEMMA MemoryLoad ==
    ASSUME MemoryInv, NEW k \in Consumers, Load(k), NEW s \in Scenarios
    PROVE  /\ started'[k][s] # Absent => s \in Library
           /\ Forgets(k, s) => Accounted(k, s) \/ (exists /\ length = 0)
<1>1. TypeOK
  BY DEF MemoryInv, TypeInv
<1>2. CASE UNCHANGED <<started, current>>
  BY <1>2 DEF MemoryInv, Forgets
<1>3. ASSUME NEW b \in Parsed, b # Absent,
             started' = [started EXCEPT ![k] =
                 [r \in Scenarios |-> IF r \in Listed(b) \cap Library THEN ResumesAt(k, r, b[r]) ELSE Absent]]
      PROVE  /\ started'[k][s] # Absent => s \in Library
             /\ Forgets(k, s) => Accounted(k, s) \/ (exists /\ length = 0)
  <2>1. started'[k][s] = IF s \in Listed(b) \cap Library THEN ResumesAt(k, s, b[s]) ELSE Absent
    BY <1>1, <1>3 DEF TypeOK
  <2>2. b = body \/ (exists /\ length = 0)
    BY <1>3 DEF Parsed, MemoryInv
  <2>3. ASSUME b = body, Forgets(k, s) PROVE Accounted(k, s)
    <3>1. s \in Library
      BY <2>3 DEF Forgets, MemoryInv
    <3>2. body[s] # Absent /\ body[s].start = Absent => started'[k][s] = started[k][s]
      BY <2>1, <2>3, <3>1 DEF Listed, ResumesAt, Forgets
    <3> QED
      BY <2>3, <3>2 DEF Accounted, Forgets
  <2> QED
    BY <2>1, <2>2, <2>3
<1> QED
  BY <1>2, <1>3 DEF Load

LEMMA MemoryNext == MemoryInv /\ [Next]_vars => MemoryInv' /\ MemoryStep
<1> SUFFICES ASSUME MemoryInv, [Next]_vars PROVE MemoryInv' /\ MemoryStep
  OBVIOUS
<1> DEFINE Kept(k, s) ==
      /\ started'[k][s] # Absent => s \in Library
      /\ Forgets(k, s) => Accounted(k, s) \/ (exists /\ length = 0)
<1>1. TypeInv' /\ TypeOK
  BY TypeStep DEF MemoryInv, TypeInv
<1>2. ASSUME NEW k \in Consumers, NEW s \in Scenarios PROVE Kept(k, s)
  <2>1. ASSUME started'[k] = started[k] PROVE Kept(k, s)
    BY <2>1 DEF MemoryInv, Forgets
  <2>2. ASSUME NEW j \in Consumers, Consumer(j) \/ Restart(j) PROVE Kept(k, s)
    <3>1. CASE j # k
      <4>1. started'[k] = started[k]
        BY <1>1, <2>2, <3>1 DEF Consumer, Poll, Load, Restart, TypeOK
      <4> QED
        BY <2>1, <4>1
    <3>2. CASE j = k /\ Load(k)
      BY <3>2, MemoryLoad
    <3>3. CASE j = k /\ (Poll(k) \/ Restart(k))
      <4>1. CASE started' = started
        BY <2>1, <4>1
      <4>2. CASE /\ started' = [started EXCEPT ![k] = [r \in Scenarios |-> Absent]]
                 /\ seen' = [seen EXCEPT ![k] = Absent]
        <5>1. started'[k][s] = Absent /\ seen'[k] = Absent
          BY <1>1, <4>2 DEF TypeOK
        <5> QED
          BY <5>1 DEF Accounted
      <4> QED
        BY <3>3, <4>1, <4>2 DEF Poll, Restart
    <3> QED
      BY <2>2, <3>1, <3>2, <3>3 DEF Consumer
  <2>3. ASSUME NEW c \in Clients, Client(c) PROVE Kept(k, s)
    BY <2>1, <2>3 DEF Client, Request, Truncate, Write, Cut, Abandon
  <2>4. CASE Tick \/ Remove \/ UNCHANGED vars
    BY <2>1, <2>4 DEF Tick, Remove
  <2> QED
    BY <2>2, <2>3, <2>4 DEF Next
<1>3. ~exists' => body' = Nothing
  <2>1. ASSUME NEW c \in Clients, Client(c) PROVE ~exists' => body' = Nothing
    BY <2>1 DEF Client, Request, Truncate, Write, Cut, Abandon, MemoryInv
  <2>2. ASSUME NEW k \in Consumers, Consumer(k) \/ Restart(k) PROVE ~exists' => body' = Nothing
    BY <2>2 DEF Consumer, Poll, Load, Restart, MemoryInv
  <2>3. CASE Tick \/ Remove \/ UNCHANGED vars
    BY <2>3 DEF Tick, Remove, MemoryInv
  <2> QED
    BY <2>1, <2>2, <2>3 DEF Next
<1> QED
  BY <1>1, <1>2, <1>3 DEF MemoryInv, MemoryStep

\* "an unrelated edit must not restart it mid-demo" (control.rs:131): for an entry without a start
\* time this holds, whoever writes and however the requests overlap, of every read but one that
\* falls between the two halves of a save.
THEOREM StartsRemembered == Spec => EditKeepsStart
<1>1. Spec => [][MemoryStep]_vars
  BY MemoryInit, MemoryNext, PTL DEF Spec
<1> QED
  BY <1>1 DEF EditKeepsStart, MemoryStep

\* A request disturbs nothing that it is not about: no other entry, no start time in the file,
\* none in a plugin process that does not read in the middle of a save, and no recovery that has
\* begun (ControlFile, control_file.py).
THEOREM NothingDisturbed == Orderly => (Spec => Undisturbed)
<1> SUFFICES ASSUME Orderly PROVE Spec => Undisturbed
  OBVIOUS
<1>1. AloneInv /\ [Next]_vars => AloneInv'
  BY AloneStep
<1>2. AloneInv /\ [Next]_vars => OthersStep /\ StartStep /\ RecoveryStep
  BY FileSteps
<1>3. Spec => [][OthersStep]_vars /\ [][StartStep]_vars /\ [][RecoveryStep]_vars
  BY AloneInit, <1>1, <1>2, PTL DEF Spec
<1>4. Spec => EditKeepsStart
  BY StartsRemembered
<1> QED
  BY <1>3, <1>4 DEF Undisturbed, OthersKept, StartKept, RecoveryOnce, OthersStep, StartStep, RecoveryStep

\* "the fault unwinds over RECOVERY_SECONDS instead of vanishing between two samples"
\* (control_file.rs:38): neither the console nor control_file.py takes a fault away before it
\* has been recovering for the whole recovery window.
THEOREM FaultsUnwind == Orderly => (Spec => Unwinds)
<1> SUFFICES ASSUME Orderly PROVE Spec => Unwinds
  OBVIOUS
<1>1. AloneInv /\ [Next]_vars => AloneInv'
  BY AloneStep
<1>2. AloneInv /\ [Next]_vars => UnwindStep
  BY FileSteps
<1>3. Spec => [][UnwindStep]_vars
  BY AloneInit, <1>1, <1>2, PTL DEF Spec
<1> QED
  BY <1>3 DEF Unwinds, UnwindStep

=============================================================================
