---------------------------- MODULE EngineProofs ----------------------------
(***************************************************************************)
(* The plugin's loop on its host, and the engine that the loop ticks.      *)
(*                                                                         *)
(* The engine. For any files, profiles, faults and noise: a composition    *)
(* that is accepted is what each of its authors wrote (AuthoredHolds), and *)
(* the order of a node's services decides nothing (ComposedHolds); charts  *)
(* of one scope show one value of a signal in a tick (OneValueHolds), and  *)
(* the lines of the log name the number of the engine that they are made   *)
(* from and the capacity that the charts show, though those are of another *)
(* one (CoherentHolds); and the lint finds nothing in what it should not   *)
(* (NeverBackHolds, AddsUpHolds, InRangeHolds, LintQuietHolds). What files *)
(* must satisfy for it beyond their validation stands as a hypothesis with *)
(* each. Three facts carry it: what the set-up leaves is a function of the *)
(* files (SetUp), what is shown is of the values that the last tick drew   *)
(* (Sampled), and the lint remembers the counters of the last tick without *)
(* their fractions (Counted). A composition and a sum are recursive        *)
(* functions: RunExists gives the values on their way, and Inductively     *)
(* what holds along it. That an order does not matter is shown of one      *)
(* field at a time, which one file alone gives or all alike. Sums are as   *)
(* close as their terms (AddedClose), and a rounded part is half a unit    *)
(* off at the most (Nearest): three parts are within the lint's tolerance, *)
(* and so are four of a whole total that are not all halves (CloseHolds).  *)
(*                                                                         *)
(* The host.  For any number of creates and teardowns: what a teardown     *)
(* reports is so, and what it deletes is kept elsewhere, as long as no     *)
(* create runs beside it (Apart); an operator's go.d file, and the         *)
(* registry of nodes beside one, is safe whatever runs beside what.        *)
(***************************************************************************)
EXTENDS Engine, Host, SequenceTheorems, FiniteSetTheorems, WellFoundedInduction, TLAPS

-----------------------------------------------------------------------------
(* Functions that are defined along a sequence. *)

\* A set of natural numbers has a least.
LEMMA NatLeast ==
    ASSUME NEW T, T \subseteq Nat, T # {}
    PROVE  \E x \in T : \A y \in T : x <= y
<1>1. \E x \in T : \A y \in T : ~(<<y, x>> \in OpToRel(<, Nat))
  BY NatLessThanWellFounded, WFMin
<1>2. PICK x \in T : \A y \in T : ~(<<y, x>> \in OpToRel(<, Nat))
  BY <1>1
<1>3. \A y \in T : ~(y < x)
  BY <1>2 DEF OpToRel
<1> QED
  BY <1>3

\* What holds at zero and goes from each place to the next holds up to n.
LEMMA Inductively ==
    ASSUME NEW n \in Nat, NEW S, 0 \in S, \A i \in 0..n : i \in S /\ i # n => i + 1 \in S
    PROVE  0..n \subseteq S
<1> DEFINE T == {i \in 0..n : i \notin S}
<1> SUFFICES ASSUME T # {} PROVE FALSE
  OBVIOUS
<1>0. T \subseteq Nat
  OBVIOUS
<1>1. PICK x \in T : \A y \in T : x <= y
  <2> HIDE DEF T
  <2> QED
    BY <1>0, NatLeast
<1>2. x # 0 /\ x \in 0..n
  OBVIOUS
<1>3. x - 1 \in 0..n /\ x - 1 \notin T
  BY <1>1, <1>2
<1> QED
  BY <1>2, <1>3

\* Values that stay in a set from each place to the next are all in it.
LEMMA StaysIn ==
    ASSUME NEW n \in Nat, NEW g, NEW T, g[0] \in T, \A i \in 1..n : g[i - 1] \in T => g[i] \in T
    PROVE  \A i \in 0..n : g[i] \in T
<1> DEFINE S == {i \in 0..n : g[i] \in T}
<1>1. 0 \in S
  OBVIOUS
<1>2. ASSUME NEW i \in 0..n, i \in S, i # n PROVE i + 1 \in S
  <2>1. i + 1 \in 1..n /\ (i + 1) - 1 = i
    BY <1>2
  <2>2. g[i + 1] \in T
    BY <2>1, <1>2
  <2> QED
    BY <2>1, <2>2
<1> HIDE DEF S
<1>3. 0..n \subseteq S
  BY <1>1, <1>2, Inductively
<1> QED
  BY <1>3 DEF S

\* A run of n steps from b in the set A.
Run(f, A, n, b, step) ==
    f \in [0..n -> A] /\ f[0] = b /\ \A i \in 1..n : f[i] = step[i][f[i - 1]]

\* A run exists, and stays in its set.
LEMMA RunExists ==
    ASSUME NEW A, NEW n \in Nat, NEW b \in A, NEW step \in [1..n -> [A -> A]]
    PROVE  \E f : Run(f, A, n, b, step)
<1> DEFINE Upto(k) == {f \in [0..k -> A] : f[0] = b /\ \A i \in 1..k : f[i] = step[i][f[i - 1]]}
           S == {k \in 0..n : Upto(k) # {}}
<1>1. 0 \in S
  <2>1. [i \in 0..0 |-> b] \in Upto(0)
    OBVIOUS
  <2> QED
    BY <2>1
<1>2. ASSUME NEW k \in 0..n, k \in S, k # n PROVE k + 1 \in S
  <2>0. Upto(k) # {}
    BY <1>2
  <2>1. k + 1 \in 1..n /\ k \in Nat /\ k + 1 \in 0..n
    BY <1>2
  <2>2. PICK f \in Upto(k) : TRUE
    BY <2>0
  <2> DEFINE g == [i \in 0..k + 1 |-> IF i = k + 1 THEN step[k + 1][f[k]] ELSE f[i]]
  <2>3. step[k + 1] \in [A -> A]
    BY <2>1
  <2>4. \A i \in 0..k : f[i] \in A
    BY <2>2
  <2>5. step[k + 1][f[k]] \in A
    BY <2>1, <2>3, <2>4
  <2>6. g \in [0..k + 1 -> A]
    BY <2>1, <2>4, <2>5
  <2>7. g[0] = b
    BY <2>1, <2>2
  <2>8. ASSUME NEW i \in 1..k + 1 PROVE g[i] = step[i][g[i - 1]]
    <3>1. CASE i = k + 1
      <4>1. k \in 0..k + 1 /\ k + 1 \in 0..k + 1 /\ k # k + 1 /\ (k + 1) - 1 = k
        BY <2>1
      <4>2. g[k + 1] = step[k + 1][f[k]] /\ g[k] = f[k]
        BY <4>1
      <4> QED
        BY <3>1, <4>1, <4>2
    <3>2. CASE i # k + 1
      <4>1. i \in 1..k /\ i - 1 \in 0..k /\ i \in 0..k + 1 /\ i - 1 \in 0..k + 1 /\ i - 1 # k + 1
        BY <3>2, <2>1
      <4>2. f[i] = step[i][f[i - 1]]
        BY <4>1, <2>2
      <4> QED
        BY <3>2, <4>1, <4>2
    <3> QED
      BY <3>1, <3>2
  <2>9. g \in Upto(k + 1)
    BY <2>6, <2>7, <2>8
  <2> QED
    BY <2>1, <2>9
<1>3. n \in S
  <2> HIDE DEF S
  <2>1. 0..n \subseteq S
    BY <1>1, <1>2, Inductively
  <2> QED
    BY <2>1
<1>4. Upto(n) # {}
  BY <1>3
<1> QED
  BY <1>4 DEF Run

-----------------------------------------------------------------------------
(* What specifications are made of. *)

\* Maps from names into V.
MapsTo(V) == UNION {[S -> V] : S \in SUBSET STRING}

Patches == UNION {[S -> Int] : S \in SUBSET {"base", "min", "max", "rest"}}

\* What the files extend, or nothing.
Bases == {Files[p].extends : p \in DOMAIN Files} \cup {<<>>}

AllSpecs ==
    [signals : MapsTo(Signals), contexts : Seq(Contexts), roles : MapsTo(MapsTo(Patches)), extends : Bases]

\* A map into V is one whose values are in V.
LEMMA MapsToIs ==
    ASSUME NEW V, NEW m
    PROVE  m \in MapsTo(V) <=> IsMap(m) /\ \A k \in DOMAIN m : m[k] \in V
<1>1. ASSUME m \in MapsTo(V) PROVE IsMap(m) /\ \A k \in DOMAIN m : m[k] \in V
  <2>1. PICK S \in SUBSET STRING : m \in [S -> V]
    BY <1>1 DEF MapsTo
  <2> QED
    BY <2>1 DEF IsMap
<1>2. ASSUME IsMap(m), \A k \in DOMAIN m : m[k] \in V PROVE m \in MapsTo(V)
  <2>1. DOMAIN m \in SUBSET STRING /\ m \in [DOMAIN m -> V]
    BY <1>2 DEF IsMap
  <2> QED
    BY <2>1 DEF MapsTo
<1> QED
  BY <1>1, <1>2

\* The upper map wins.
LEMMA OverIs ==
    ASSUME NEW u, NEW l
    PROVE  /\ DOMAIN Over(u, l) = DOMAIN u \cup DOMAIN l
           /\ \A k \in DOMAIN u : Over(u, l)[k] = u[k]
           /\ \A k \in DOMAIN l : k \notin DOMAIN u => Over(u, l)[k] = l[k]
           /\ Over(u, l) = [k \in DOMAIN Over(u, l) |-> Over(u, l)[k]]
  BY DEF Over

\* Maps over maps are maps.
LEMMA OverMaps ==
    ASSUME NEW V, NEW u \in MapsTo(V), NEW l \in MapsTo(V)
    PROVE  Over(u, l) \in MapsTo(V)
<1>1. /\ DOMAIN Over(u, l) = DOMAIN u \cup DOMAIN l
      /\ \A k \in DOMAIN u : Over(u, l)[k] = u[k]
      /\ \A k \in DOMAIN l : k \notin DOMAIN u => Over(u, l)[k] = l[k]
      /\ Over(u, l) = [k \in DOMAIN Over(u, l) |-> Over(u, l)[k]]
  BY OverIs
<1>2. /\ DOMAIN u \subseteq STRING /\ \A k \in DOMAIN u : u[k] \in V
      /\ DOMAIN l \subseteq STRING /\ \A k \in DOMAIN l : l[k] \in V
  BY MapsToIs DEF IsMap
<1> DEFINE o == Over(u, l)
<1> HIDE DEF o
<1>3. IsMap(o) /\ \A k \in DOMAIN o : o[k] \in V
  BY <1>1, <1>2 DEF o, IsMap
<1>4. o \in MapsTo(V)
  BY <1>3, MapsToIs
<1> QED
  BY <1>4 DEF o

\* Nothing is a map into anything, and a patch.
LEMMA NothingIs == DOMAIN Nothing = {} /\ (\A V : Nothing \in MapsTo(V)) /\ Nothing \in Patches
<1>1. DOMAIN Nothing = {} /\ Nothing = [k \in {} |-> Nothing[k]]
  BY DEF Nothing
<1>2. ASSUME NEW V PROVE Nothing \in MapsTo(V)
  BY <1>1, MapsToIs DEF IsMap
<1>3. Nothing \in [{} -> Int]
  BY <1>1
<1> QED
  BY <1>1, <1>2, <1>3 DEF Patches

\* A patch sets numbers.
LEMMA PatchIs ==
    ASSUME NEW p
    PROVE  p \in Patches <=> IsPatch(p)
<1>1. ASSUME p \in Patches PROVE IsPatch(p)
  <2>1. PICK S \in SUBSET {"base", "min", "max", "rest"} : p \in [S -> Int]
    BY <1>1 DEF Patches
  <2>2. DOMAIN p = S
    BY <2>1
  <2> QED
    BY <2>1, <2>2 DEF IsPatch
<1>2. ASSUME IsPatch(p) PROVE p \in Patches
  BY <1>2 DEF IsPatch, Patches
<1> QED
  BY <1>1, <1>2

\* One patch over another is a patch.
LEMMA OverPatches ==
    ASSUME NEW p \in Patches, NEW q \in Patches
    PROVE  Over(p, q) \in Patches
<1>1. /\ DOMAIN Over(p, q) = DOMAIN p \cup DOMAIN q
      /\ \A k \in DOMAIN p : Over(p, q)[k] = p[k]
      /\ \A k \in DOMAIN q : k \notin DOMAIN p => Over(p, q)[k] = q[k]
      /\ Over(p, q) = [k \in DOMAIN Over(p, q) |-> Over(p, q)[k]]
  BY OverIs
<1>2. IsPatch(p) /\ IsPatch(q)
  BY PatchIs
<1> DEFINE o == Over(p, q)
<1> HIDE DEF o
<1>3. IsPatch(o)
  BY <1>1, <1>2 DEF o, IsPatch
<1>4. o \in Patches
  BY <1>3, PatchIs
<1> QED
  BY <1>4 DEF o

\* The files are specifications.
LEMMA FileIs ==
    ASSUME NEW path \in DOMAIN Files
    PROVE  Files[path] \in AllSpecs
<1> DEFINE s == Files[path]
<1>0. s.extends \in Bases
  BY DEF Bases
<1> HIDE DEF s
<1>1. IsSpec(s)
  BY FilesAssumption DEF s
<1>2. s.signals \in MapsTo(Signals)
  BY <1>1, MapsToIs DEF IsSpec
<1>3. \A r \in DOMAIN s.roles : s.roles[r] \in MapsTo(Patches)
  BY <1>1, MapsToIs, PatchIs DEF IsSpec
<1>4. s.roles \in MapsTo(MapsTo(Patches))
  BY <1>1, <1>3, MapsToIs DEF IsSpec
<1>5. s \in AllSpecs
  BY <1>0, <1>1, <1>2, <1>4 DEF IsSpec, AllSpecs
<1> QED
  BY <1>5 DEF s

\* A refusal is one without contents.
LEMMA RefusedIs == Refused \in AllSpecs
<1>1. <<>> \in Seq(Contexts) /\ <<>> \in Bases
  BY DEF Bases
<1> QED
  BY <1>1, NothingIs DEF Refused, AllSpecs

\* What is read is a specification that is valid, or refused.
LEMMA ReadIs ==
    ASSUME NEW path
    PROVE  Read(path) \in AllSpecs /\ (Read(path) # Refused => Valid(Read(path)))
  BY FileIs, RefusedIs DEF Read

-----------------------------------------------------------------------------
(* Composing specifications. *)

\* What a specification has a role set of a signal.
Patch(a, r, s) ==
    IF r \in DOMAIN a.roles /\ s \in DOMAIN a.roles[r] THEN a.roles[r][s] ELSE Nothing

\* One patch is a part of the other.
Within(p, q) == DOMAIN p \subseteq DOMAIN q /\ \A f \in DOMAIN p : q[f] = p[f]

\* The parts of a specification.
LEMMA SpecIs ==
    ASSUME NEW a \in AllSpecs
    PROVE  /\ a.signals \in MapsTo(Signals) /\ a.contexts \in Seq(Contexts) /\ a.extends \in Bases
           /\ a.roles \in MapsTo(MapsTo(Patches))
           /\ DOMAIN a.signals \subseteq STRING /\ \A s \in DOMAIN a.signals : a.signals[s] \in Signals
           /\ DOMAIN a.roles \subseteq STRING
           /\ \A r \in DOMAIN a.roles :
                /\ a.roles[r] \in MapsTo(Patches) /\ DOMAIN a.roles[r] \subseteq STRING
                /\ \A s \in DOMAIN a.roles[r] : a.roles[r][s] \in Patches
           /\ \A r, s : Patch(a, r, s) \in Patches
<1>1. a.signals \in MapsTo(Signals) /\ a.contexts \in Seq(Contexts) /\ a.extends \in Bases
      /\ a.roles \in MapsTo(MapsTo(Patches))
  BY DEF AllSpecs
<1>2. DOMAIN a.signals \subseteq STRING /\ \A s \in DOMAIN a.signals : a.signals[s] \in Signals
  BY <1>1, MapsToIs DEF IsMap
<1>3. DOMAIN a.roles \subseteq STRING /\ \A r \in DOMAIN a.roles : a.roles[r] \in MapsTo(Patches)
  BY <1>1, MapsToIs DEF IsMap
<1>4. \A r \in DOMAIN a.roles :
        DOMAIN a.roles[r] \subseteq STRING /\ \A s \in DOMAIN a.roles[r] : a.roles[r][s] \in Patches
  BY <1>3, MapsToIs DEF IsMap
<1>5. \A r, s : Patch(a, r, s) \in Patches
  BY <1>3, <1>4, NothingIs DEF Patch
<1> QED
  BY <1>1, <1>2, <1>3, <1>4, <1>5

\* Nothing laid over a map, or under it, is the map.
LEMMA OverNothing ==
    ASSUME NEW p \in Patches
    PROVE  Over(p, Nothing) = p /\ Over(Nothing, p) = p
<1> DEFINE o == Over(p, Nothing)
           w == Over(Nothing, p)
<1>1. /\ DOMAIN o = DOMAIN p \cup DOMAIN Nothing /\ \A k \in DOMAIN p : o[k] = p[k]
      /\ o = [k \in DOMAIN o |-> o[k]]
  BY DEF Over
<1>2. /\ DOMAIN w = DOMAIN Nothing \cup DOMAIN p
      /\ \A k \in DOMAIN p : k \notin DOMAIN Nothing => w[k] = p[k]
      /\ w = [k \in DOMAIN w |-> w[k]]
  BY DEF Over
<1>3. p = [k \in DOMAIN p |-> p[k]] /\ DOMAIN Nothing = {}
  BY NothingIs DEF Patches
<1> HIDE DEF o, w
<1>4. o = p /\ w = p
  BY <1>1, <1>2, <1>3
<1> QED
  BY <1>4 DEF o, w

\* What two specifications have together.
JoinOf(j, a, b) ==
    /\ j.signals = Over(b.signals, a.signals)
    /\ j.contexts = a.contexts \o b.contexts
    /\ DOMAIN j.roles = DOMAIN a.roles \cup DOMAIN b.roles
    /\ \A r \in DOMAIN j.roles :
         DOMAIN j.roles[r] = (IF r \in DOMAIN a.roles THEN DOMAIN a.roles[r] ELSE {}) \cup
                             (IF r \in DOMAIN b.roles THEN DOMAIN b.roles[r] ELSE {})
    /\ \A r, s : Patch(j, r, s) = Over(Patch(b, r, s), Patch(a, r, s))

LEMMA JoinedIs ==
    ASSUME NEW a \in AllSpecs, NEW b \in AllSpecs
    PROVE  Joined(a, b) \in AllSpecs /\ JoinOf(Joined(a, b), a, b)
<1> DEFINE R(x, r) == IF r \in DOMAIN x.roles THEN x.roles[r] ELSE Nothing
           roles == [r \in DOMAIN a.roles \cup DOMAIN b.roles |-> BothPatches(R(a, r), R(b, r))]
           signals0 == Over(b.signals, a.signals)
           contexts0 == a.contexts \o b.contexts
           j == [signals |-> signals0, contexts |-> contexts0, roles |-> roles, extends |-> a.extends]
<1>1. Joined(a, b) = j
  <2>1. a = [signals |-> a.signals, contexts |-> a.contexts, roles |-> a.roles, extends |-> a.extends]
    BY DEF AllSpecs
  <2>2. Joined(a, b) = [a EXCEPT !.signals = signals0, !.contexts = contexts0, !.roles = roles]
    BY DEF Joined
  <2> HIDE DEF signals0, contexts0, roles
  <2> QED
    BY <2>1, <2>2
<1>2. \A x \in AllSpecs : \A r : R(x, r) \in MapsTo(Patches) /\ \A s \in DOMAIN R(x, r) : R(x, r)[s] = Patch(x, r, s)
  BY SpecIs, NothingIs DEF Patch
<1>3. \A x \in AllSpecs : \A r, s : s \notin DOMAIN R(x, r) => Patch(x, r, s) = Nothing
  BY NothingIs DEF Patch
<1>4. \A r, s : Over(Patch(b, r, s), Patch(a, r, s)) \in Patches
  BY SpecIs, OverPatches
<1>5. ASSUME NEW r PROVE /\ DOMAIN BothPatches(R(a, r), R(b, r)) = DOMAIN R(a, r) \cup DOMAIN R(b, r)
                         /\ \A s \in DOMAIN BothPatches(R(a, r), R(b, r)) :
                                BothPatches(R(a, r), R(b, r))[s] = Over(Patch(b, r, s), Patch(a, r, s))
                         /\ BothPatches(R(a, r), R(b, r)) \in MapsTo(Patches)
  <2> DEFINE p == R(a, r)
             q == R(b, r)
             both == BothPatches(p, q)
  <2>1. /\ p \in MapsTo(Patches) /\ q \in MapsTo(Patches)
        /\ \A s \in DOMAIN p : p[s] = Patch(a, r, s)
        /\ \A s \in DOMAIN q : q[s] = Patch(b, r, s)
        /\ \A s : s \notin DOMAIN p => Patch(a, r, s) = Nothing
        /\ \A s : s \notin DOMAIN q => Patch(b, r, s) = Nothing
    BY <1>2, <1>3
  <2> HIDE DEF p, q
  <2>2. DOMAIN both = DOMAIN p \cup DOMAIN q /\ both = [s \in DOMAIN both |-> both[s]]
    BY DEF BothPatches
  <2>3. ASSUME NEW s \in DOMAIN both PROVE both[s] = Over(Patch(b, r, s), Patch(a, r, s))
    BY <2>1, <2>2 DEF BothPatches
  <2> HIDE DEF both
  <2>4. DOMAIN p \subseteq STRING /\ DOMAIN q \subseteq STRING
    BY <2>1, MapsToIs DEF IsMap
  <2>5. IsMap(both) /\ \A s \in DOMAIN both : both[s] \in Patches
    BY <2>2, <2>3, <2>4, <1>4 DEF IsMap
  <2>6. both \in MapsTo(Patches)
    BY <2>5, MapsToIs
  <2> QED
    BY <2>2, <2>3, <2>6 DEF both, p, q
<1>6. DOMAIN roles = DOMAIN a.roles \cup DOMAIN b.roles /\ roles = [r \in DOMAIN roles |-> roles[r]]
  OBVIOUS
<1>7. \A r \in DOMAIN roles :
        /\ DOMAIN roles[r] = DOMAIN R(a, r) \cup DOMAIN R(b, r)
        /\ \A s \in DOMAIN roles[r] : roles[r][s] = Over(Patch(b, r, s), Patch(a, r, s))
        /\ roles[r] \in MapsTo(Patches)
  <2> HIDE DEF R
  <2> QED
    BY <1>5
<1>8. \A r : DOMAIN R(a, r) = (IF r \in DOMAIN a.roles THEN DOMAIN a.roles[r] ELSE {})
          /\ DOMAIN R(b, r) = (IF r \in DOMAIN b.roles THEN DOMAIN b.roles[r] ELSE {})
  BY NothingIs
<1> HIDE DEF roles
<1>9. roles \in MapsTo(MapsTo(Patches))
  <2>1. DOMAIN roles \subseteq STRING
    BY <1>6, SpecIs
  <2>2. IsMap(roles) /\ \A r \in DOMAIN roles : roles[r] \in MapsTo(Patches)
    BY <2>1, <1>6, <1>7 DEF IsMap
  <2> QED
    BY <2>2, MapsToIs
<1>10. signals0 \in MapsTo(Signals)
  BY SpecIs, OverMaps
<1>11. contexts0 \in Seq(Contexts)
  BY SpecIs
<1>12. ASSUME NEW r, NEW s
       PROVE  Patch(j, r, s) = Over(Patch(b, r, s), Patch(a, r, s))
  <2>1. CASE r \in DOMAIN roles /\ s \in DOMAIN roles[r]
    BY <2>1, <1>7 DEF Patch
  <2>2. CASE ~(r \in DOMAIN roles /\ s \in DOMAIN roles[r])
    <3>1. Patch(a, r, s) = Nothing /\ Patch(b, r, s) = Nothing
      BY <2>2, <1>6, <1>7, <1>8 DEF Patch
    <3>2. Over(Nothing, Nothing) = Nothing
      BY NothingIs, OverNothing
    <3>3. Patch(j, r, s) = Nothing
      BY <2>2 DEF Patch
    <3> QED
      BY <3>1, <3>2, <3>3
  <2> QED
    BY <2>1, <2>2
<1>13. j \in AllSpecs
  <2> HIDE DEF signals0, contexts0
  <2> QED
    BY <1>9, <1>10, <1>11, SpecIs DEF AllSpecs
<1>14. /\ j.signals = Over(b.signals, a.signals) /\ j.contexts = a.contexts \o b.contexts
       /\ j.roles = roles
  OBVIOUS
<1> HIDE DEF j
<1>15. \A r \in DOMAIN j.roles :
        DOMAIN j.roles[r] = (IF r \in DOMAIN a.roles THEN DOMAIN a.roles[r] ELSE {}) \cup
                            (IF r \in DOMAIN b.roles THEN DOMAIN b.roles[r] ELSE {})
  <2> HIDE DEF R
  <2> QED
    BY <1>7, <1>8, <1>14
<1> QED
  BY <1>1, <1>6, <1>12, <1>13, <1>14, <1>15 DEF JoinOf
-----------------------------------------------------------------------------
(* What a service has. *)

\* A context that takes its place leaves a sequence of contexts.
LEMMA PlaceIs ==
    ASSUME NEW contexts \in Seq(Contexts), NEW context \in Contexts
    PROVE  Place(contexts, context) \in Seq(Contexts)
<1> DEFINE at == {i \in DOMAIN contexts : contexts[i].id = context.id}
<1>1. CASE at = {}
  BY <1>1 DEF Place
<1>2. CASE at # {}
  <2>1. at \subseteq Nat
    OBVIOUS
  <2>2. Earliest(at) \in at
    <3> HIDE DEF at
    <3> QED
      BY <1>2, <2>1, NatLeast DEF Earliest
  <2>3. Place(contexts, context) = [contexts EXCEPT ![Earliest(at)] = context]
    BY <1>2 DEF Place
  <2>4. Earliest(at) \in DOMAIN contexts
    BY <2>2
  <2> QED
    BY <2>3, <2>4
<1> QED
  BY <1>1, <1>2

\* So do all contexts of a list that take their places.
LEMMA PlacedIs ==
    ASSUME NEW contexts \in Seq(Contexts), NEW list \in Seq(Contexts)
    PROVE  Placed(contexts, list) \in Seq(Contexts)
<1> DEFINE n == Len(list)
           A == Seq(Contexts)
           R(f) == [i \in 0..n |-> IF i = 0 THEN contexts ELSE Place(f[i - 1], list[i])]
           step == [i \in 1..n |-> [a \in A |-> Place(a, list[i])]]
           u == CHOOSE f : f = R(f)
<1>0. n \in Nat /\ contexts \in A /\ \A i \in 1..n, a \in A : Place(a, list[i]) \in A
  <2>1. n \in Nat /\ \A i \in 1..n : list[i] \in Contexts
    OBVIOUS
  <2>2. \A a \in Seq(Contexts), c \in Contexts : Place(a, c) \in Seq(Contexts)
    BY PlaceIs
  <2> HIDE DEF n
  <2> QED
    BY <2>1, <2>2
<1>1. step \in [1..n -> [A -> A]]
  <2> HIDE DEF n, A
  <2> QED
    BY <1>0
<1>2. PICK f : Run(f, A, n, contexts, step)
  <2> HIDE DEF n, step, A
  <2> QED
    BY <1>0, <1>1, RunExists
<1>3. f = R(f)
  <2>0. f \in [0..n -> A] /\ f[0] = contexts /\ \A i \in 1..n : f[i] = step[i][f[i - 1]]
    BY <1>2 DEF Run
  <2>1. ASSUME NEW i \in 0..n PROVE f[i] = R(f)[i]
    <3>1. CASE i = 0
      BY <2>0, <3>1
    <3>2. CASE i # 0
      <4>1. i \in 1..n /\ i - 1 \in 0..n
        BY <1>0, <3>2
      <4>2. f[i - 1] \in A /\ f[i] = step[i][f[i - 1]]
        BY <2>0, <4>1
      <4> QED
        BY <3>2, <4>1, <4>2
    <3> QED
      BY <3>1, <3>2
  <2> HIDE DEF n, step, A
  <2> QED
    BY <2>0, <2>1
<1>4. u = R(u)
  BY <1>3
<1>5. Placed(contexts, list) = u[n]
  BY DEF Placed
<1> HIDE DEF u, A
<1>6. u[0] = contexts /\ \A i \in 1..n : u[i] = Place(u[i - 1], list[i])
  <2>1. 0 \in 0..n /\ \A i \in 1..n : i \in 0..n /\ i # 0
    BY <1>0
  <2> HIDE DEF n
  <2> QED
    BY <1>4, <2>1
<1>7. \A i \in 0..n : u[i] \in A
  <2>1. u[0] \in A /\ \A i \in 1..n : u[i - 1] \in A => u[i] \in A
    <3> HIDE DEF n
    <3> QED
      BY <1>0, <1>6
  <2> HIDE DEF n
  <2> QED
    BY <1>0, <2>1, StaysIn
<1>8. n \in 0..n
  BY <1>0
<1> QED
  BY <1>5, <1>7, <1>8 DEF A

\* A specification over another is one.
LEMMA OverlayIs ==
    ASSUME NEW a \in AllSpecs, NEW b \in AllSpecs
    PROVE  Overlay(a, b) \in AllSpecs
<1> DEFINE s == Over(b.signals, a.signals)
           c == Placed(a.contexts, b.contexts)
           r == Over(b.roles, a.roles)
<1>1. s \in MapsTo(Signals) /\ r \in MapsTo(MapsTo(Patches)) /\ c \in Seq(Contexts) /\ a.extends \in Bases
  BY SpecIs, OverMaps, PlacedIs
<1>2. a = [signals |-> a.signals, contexts |-> a.contexts, roles |-> a.roles, extends |-> a.extends]
  BY DEF AllSpecs
<1>3. Overlay(a, b) = [a EXCEPT !.signals = s, !.contexts = c, !.roles = r]
  BY DEF Overlay
<1> HIDE DEF s, c, r
<1>4. Overlay(a, b) = [signals |-> s, contexts |-> c, roles |-> r, extends |-> a.extends]
  BY <1>2, <1>3
<1> QED
  BY <1>1, <1>4 DEF AllSpecs

\* So are all of a list, each over those before it.
LEMMA OverlaidIs ==
    ASSUME NEW specs \in Seq(AllSpecs), specs # <<>>
    PROVE  Overlaid(specs) \in AllSpecs
<1> DEFINE n == Len(specs) - 1
           A == AllSpecs
           R(f) == [i \in 0..n |-> IF i = 0 THEN specs[1] ELSE Overlay(f[i - 1], specs[i + 1])]
           step == [i \in 1..n |-> [a \in A |-> Overlay(a, specs[i + 1])]]
           u == CHOOSE f : f = R(f)
<1>0. n \in Nat /\ specs[1] \in A /\ \A i \in 1..n, a \in A : Overlay(a, specs[i + 1]) \in A
  <2>1. n \in Nat /\ specs[1] \in A /\ \A i \in 1..n : specs[i + 1] \in A
    OBVIOUS
  <2> QED
    BY <2>1, OverlayIs
<1>1. step \in [1..n -> [A -> A]]
  <2> HIDE DEF n, A
  <2> QED
    BY <1>0
<1>2. PICK f : Run(f, A, n, specs[1], step)
  <2> HIDE DEF n, step, A
  <2> QED
    BY <1>0, <1>1, RunExists
<1>3. f = R(f)
  <2>0. f \in [0..n -> A] /\ f[0] = specs[1] /\ \A i \in 1..n : f[i] = step[i][f[i - 1]]
    BY <1>2 DEF Run
  <2>1. ASSUME NEW i \in 0..n PROVE f[i] = R(f)[i]
    <3>1. CASE i = 0
      BY <2>0, <3>1
    <3>2. CASE i # 0
      <4>1. i \in 1..n /\ i - 1 \in 0..n
        BY <1>0, <3>2
      <4>2. f[i - 1] \in A /\ f[i] = step[i][f[i - 1]]
        BY <2>0, <4>1
      <4> QED
        BY <3>2, <4>1, <4>2
    <3> QED
      BY <3>1, <3>2
  <2> HIDE DEF n, step, A
  <2> QED
    BY <2>0, <2>1
<1>4. u = R(u)
  BY <1>3
<1>5. Overlaid(specs) = u[n]
  BY DEF Overlaid
<1> HIDE DEF u, A
<1>6. u[0] = specs[1] /\ \A i \in 1..n : u[i] = Overlay(u[i - 1], specs[i + 1])
  <2>1. 0 \in 0..n /\ \A i \in 1..n : i \in 0..n /\ i # 0
    BY <1>0
  <2> HIDE DEF n
  <2> QED
    BY <1>4, <2>1
<1>7. \A i \in 0..n : u[i] \in A
  <2>1. u[0] \in A /\ \A i \in 1..n : u[i - 1] \in A => u[i] \in A
    <3> HIDE DEF n
    <3> QED
      BY <1>0, <1>6
  <2> HIDE DEF n
  <2> QED
    BY <1>0, <2>1, StaysIn
<1>8. n \in 0..n
  BY <1>0
<1> QED
  BY <1>5, <1>7, <1>8 DEF A

\* A specification names what it extends in a sequence.
LEMMA ExtendsIs ==
    ASSUME NEW a \in AllSpecs
    PROVE  a.extends \in Seq(ToSet(a.extends))
<1>1. CASE a.extends = <<>>
  BY <1>1
<1>2. CASE a.extends # <<>>
  <2>1. PICK p \in DOMAIN Files : a.extends = Files[p].extends
    BY <1>2, SpecIs DEF Bases
  <2> QED
    BY <2>1, FilesAssumption DEF IsSpec
<1> QED
  BY <1>1, <1>2

\* What a service has is a specification.
LEMMA LoadIs ==
    ASSUME NEW service
    PROVE  LoadServiceSpec(service) \in AllSpecs
<1> DEFINE a == Read(ServicePath(service))
           bases == [i \in DOMAIN a.extends |-> Read(a.extends[i])]
<1>1. a \in AllSpecs
  BY ReadIs
<1>2. CASE a.extends = <<>> \/ \E i \in DOMAIN bases : bases[i] = Refused \/ bases[i].extends # <<>>
  BY <1>1, <1>2, RefusedIs DEF LoadServiceSpec
<1>3. CASE ~(a.extends = <<>> \/ \E i \in DOMAIN bases : bases[i] = Refused \/ bases[i].extends # <<>>)
  <2>1. LoadServiceSpec(service) = Overlay(Overlaid(bases), a)
    BY <1>3 DEF LoadServiceSpec
  <2>2. \A i \in DOMAIN a.extends : Read(a.extends[i]) \in AllSpecs
    BY ReadIs
  <2>3. bases \in Seq(AllSpecs) /\ bases # <<>>
    <3>1. a.extends \in Seq(ToSet(a.extends))
      BY <1>1, ExtendsIs
    <3>2. DOMAIN a.extends = 1..Len(a.extends) /\ Len(a.extends) \in Nat /\ a.extends # <<>>
      BY <3>1, <1>3
    <3>3. bases \in [1..Len(a.extends) -> AllSpecs]
      BY <3>2, <2>2
    <3>4. Len(a.extends) # 0
      BY <3>1, <3>2
    <3> HIDE DEF bases
    <3>5. bases \in Seq(AllSpecs)
      BY <3>2, <3>3
    <3>6. bases # <<>>
      BY <3>2, <3>3, <3>4
    <3> QED
      BY <3>5, <3>6
  <2> QED
    BY <1>1, <2>1, <2>3, OverlaidIs, OverlayIs
<1> QED
  BY <1>2, <1>3

\* What a service adds is a specification, or nothing is left.
LEMMA AddIs ==
    ASSUME NEW a \in AllSpecs, NEW service
    PROVE  AddService(a, service) \in AllSpecs
  BY LoadIs, JoinedIs, RefusedIs DEF AddService, Merge

Author(base, services, j) == IF j = 0 THEN Read(base) ELSE LoadServiceSpec(services[j])

ComposedUpto(u, base, services) ==
    /\ u \in [0..Len(services) -> AllSpecs] /\ u[0] = Read(base)
    /\ Compose(base, services) = u[Len(services)]
    /\ \A i \in 1..Len(services) : u[i] = AddService(u[i - 1], services[i])

\* The prefixes of a composition are specifications.
LEMMA ComposeRun ==
    ASSUME NEW base, NEW services \in Seq(STRING)
    PROVE  \E u : ComposedUpto(u, base, services)
<1> DEFINE n == Len(services)
           A == AllSpecs
           R(f) == [i \in 0..n |-> IF i = 0 THEN Read(base) ELSE AddService(f[i - 1], services[i])]
           step == [i \in 1..n |-> [a \in A |-> AddService(a, services[i])]]
           u == CHOOSE f : f = R(f)
<1>0. n \in Nat /\ Read(base) \in A /\ \A i \in 1..n, a \in A : AddService(a, services[i]) \in A
  BY AddIs, ReadIs
<1>1. step \in [1..n -> [A -> A]]
  <2> HIDE DEF n, A
  <2> QED
    BY <1>0
<1>2. PICK f : Run(f, A, n, Read(base), step)
  <2> HIDE DEF n, step, A
  <2> QED
    BY <1>0, <1>1, RunExists
<1>3. f = R(f)
  <2>0. f \in [0..n -> A] /\ f[0] = Read(base) /\ \A i \in 1..n : f[i] = step[i][f[i - 1]]
    BY <1>2 DEF Run
  <2>1. ASSUME NEW i \in 0..n PROVE f[i] = R(f)[i]
    <3>1. CASE i = 0
      BY <2>0, <3>1
    <3>2. CASE i # 0
      <4>1. i \in 1..n /\ i - 1 \in 0..n
        BY <1>0, <3>2
      <4>2. f[i - 1] \in A /\ f[i] = step[i][f[i - 1]]
        BY <2>0, <4>1
      <4> QED
        BY <3>2, <4>1, <4>2
    <3> QED
      BY <3>1, <3>2
  <2> HIDE DEF n, step, A
  <2> QED
    BY <2>0, <2>1
<1>4. u = R(u)
  BY <1>3
<1>5. Compose(base, services) = u[n]
  BY DEF Compose
<1> HIDE DEF u, A
<1>6. u[0] = Read(base) /\ \A i \in 1..n : u[i] = AddService(u[i - 1], services[i])
  <2>1. 0 \in 0..n /\ \A i \in 1..n : i \in 0..n /\ i # 0
    BY <1>0
  <2> HIDE DEF n
  <2> QED
    BY <1>4, <2>1
<1>7. \A i \in 0..n : u[i] \in A
  <2>1. u[0] \in A /\ \A i \in 1..n : u[i - 1] \in A => u[i] \in A
    <3> HIDE DEF n
    <3> QED
      BY <1>0, <1>6
  <2> HIDE DEF n
  <2> QED
    BY <1>0, <2>1, StaysIn
<1>8. u \in [0..n -> A]
  <2> HIDE DEF n
  <2> QED
    BY <1>4, <1>7
<1> QED
  BY <1>5, <1>6, <1>8 DEF ComposedUpto, A

-----------------------------------------------------------------------------
(* What a composition keeps of those who wrote it. *)

\* All that the one says is said by the other.
Has(c, a) ==
    /\ ToSet(a.contexts) \subseteq ToSet(c.contexts)
    /\ \A s \in DOMAIN a.signals : s \in DOMAIN c.signals /\ SameSignal(a.signals[s], c.signals[s])
    /\ DOMAIN a.roles \subseteq DOMAIN c.roles
    /\ \A r \in DOMAIN a.roles : DOMAIN a.roles[r] \subseteq DOMAIN c.roles[r]
    /\ \A r, s : Within(Patch(a, r, s), Patch(c, r, s))

LEMMA HasItself ==
    ASSUME NEW a
    PROVE  Has(a, a)
  BY DEF Has, SameSignal, Within

LEMMA HasOfIts ==
    ASSUME NEW a, NEW b, NEW c, Has(c, b), Has(b, a)
    PROVE  Has(c, a)
<1>1. \A s \in DOMAIN a.signals : s \in DOMAIN c.signals /\ SameSignal(a.signals[s], c.signals[s])
  BY DEF Has, SameSignal
<1>2. \A r, s : Within(Patch(a, r, s), Patch(c, r, s))
  <2>1. \A r, s : Within(Patch(a, r, s), Patch(b, r, s)) /\ Within(Patch(b, r, s), Patch(c, r, s))
    BY DEF Has
  <2> QED
    BY <2>1 DEF Within
<1>3. /\ ToSet(a.contexts) \subseteq ToSet(c.contexts) /\ DOMAIN a.roles \subseteq DOMAIN c.roles
      /\ \A r \in DOMAIN a.roles : DOMAIN a.roles[r] \subseteq DOMAIN c.roles[r]
  BY DEF Has
<1> QED
  BY <1>1, <1>2, <1>3 DEF Has

\* The patches of specifications that do not collide do not contradict each other.
LEMMA Agreeing ==
    ASSUME NEW a \in AllSpecs, NEW b \in AllSpecs, ~Collide(a, b), NEW r, NEW s
    PROVE  ~Contradict(Patch(a, r, s), Patch(b, r, s))
<1>1. CASE r \in DOMAIN a.roles /\ s \in DOMAIN a.roles[r] /\ r \in DOMAIN b.roles /\ s \in DOMAIN b.roles[r]
  BY <1>1 DEF Collide, Patch
<1>2. CASE ~(r \in DOMAIN a.roles /\ s \in DOMAIN a.roles[r])
  BY <1>2, NothingIs DEF Patch, Contradict
<1>3. CASE ~(r \in DOMAIN b.roles /\ s \in DOMAIN b.roles[r])
  BY <1>3, NothingIs DEF Patch, Contradict
<1> QED
  BY <1>1, <1>2, <1>3

\* A sequence after another.
LEMMA ConcatIs ==
    ASSUME NEW s \in Seq(Contexts), NEW t \in Seq(Contexts)
    PROVE  /\ Len(s \o t) = Len(s) + Len(t) /\ s \o t \in Seq(Contexts) /\ Len(s) \in Nat /\ Len(t) \in Nat
           /\ \A i \in 1..Len(s) : (s \o t)[i] = s[i]
           /\ \A i \in 1..Len(t) : (s \o t)[Len(s) + i] = t[i]
           /\ DOMAIN (s \o t) = 1..Len(s \o t) /\ DOMAIN s = 1..Len(s) /\ DOMAIN t = 1..Len(t)
           /\ s # <<>> => Len(s) # 0
  OBVIOUS

\* The contexts of two that are joined are those of the one and of the other.
LEMMA JoinedContexts ==
    ASSUME NEW s \in Seq(Contexts), NEW t \in Seq(Contexts)
    PROVE  ToSet(s \o t) = ToSet(s) \cup ToSet(t)
<1>1. \A x \in Seq(Contexts) : ToSet(x) = {x[i] : i \in 1..Len(x)}
  BY DEF ToSet
<1>2. /\ Len(s \o t) = Len(s) + Len(t) /\ s \o t \in Seq(Contexts) /\ Len(s) \in Nat /\ Len(t) \in Nat
      /\ \A i \in 1..Len(s) : (s \o t)[i] = s[i]
      /\ \A i \in 1..Len(t) : (s \o t)[Len(s) + i] = t[i]
  BY ConcatIs
<1>3. ASSUME NEW i \in 1..Len(s \o t) PROVE (s \o t)[i] \in ToSet(s) \cup ToSet(t)
  <2>1. CASE i \in 1..Len(s)
    BY <1>1, <1>2, <2>1
  <2>2. CASE i \notin 1..Len(s)
    <3>1. i - Len(s) \in 1..Len(t) /\ i = Len(s) + (i - Len(s))
      BY <1>2, <2>2
    <3> QED
      BY <1>1, <1>2, <3>1
  <2> QED
    BY <2>1, <2>2
<1>4. ASSUME NEW i \in 1..Len(s) PROVE s[i] \in ToSet(s \o t)
  <2>1. i \in 1..Len(s \o t)
    BY <1>2
  <2> QED
    BY <1>1, <1>2, <2>1
<1>5. ASSUME NEW i \in 1..Len(t) PROVE t[i] \in ToSet(s \o t)
  <2>1. Len(s) + i \in 1..Len(s \o t)
    BY <1>2
  <2> QED
    BY <1>1, <1>2, <2>1
<1>6. /\ ToSet(s) = {s[i] : i \in 1..Len(s)} /\ ToSet(t) = {t[i] : i \in 1..Len(t)}
      /\ ToSet(s \o t) = {(s \o t)[i] : i \in 1..Len(s \o t)}
  BY <1>1, <1>2
<1> QED
  BY <1>3, <1>4, <1>5, <1>6

\* Specifications that are joined and do not collide are both there.
LEMMA JoinedHas ==
    ASSUME NEW a \in AllSpecs, NEW b \in AllSpecs, ~Collide(a, b)
    PROVE  Has(Joined(a, b), a) /\ Has(Joined(a, b), b)
<1> DEFINE j == Joined(a, b)
<1>0. JoinOf(j, a, b)
  BY JoinedIs
<1> HIDE DEF j
<1>1. /\ j.signals = Over(b.signals, a.signals)
      /\ j.contexts = a.contexts \o b.contexts
      /\ DOMAIN j.roles = DOMAIN a.roles \cup DOMAIN b.roles
      /\ \A r \in DOMAIN j.roles :
            DOMAIN j.roles[r] =
                (IF r \in DOMAIN a.roles THEN DOMAIN a.roles[r] ELSE {}) \cup
                (IF r \in DOMAIN b.roles THEN DOMAIN b.roles[r] ELSE {})
      /\ \A r, s : Patch(j, r, s) = Over(Patch(b, r, s), Patch(a, r, s))
  BY <1>0 DEF JoinOf
<1>2. ToSet(j.contexts) = ToSet(a.contexts) \cup ToSet(b.contexts)
  BY <1>1, SpecIs, JoinedContexts
<1>3. /\ \A s \in DOMAIN a.signals : s \in DOMAIN j.signals /\ SameSignal(a.signals[s], j.signals[s])
      /\ \A s \in DOMAIN b.signals : s \in DOMAIN j.signals /\ SameSignal(b.signals[s], j.signals[s])
  <2>1. \A s \in DOMAIN a.signals \cap DOMAIN b.signals : SameSignal(a.signals[s], b.signals[s])
    BY DEF Collide
  <2>2. /\ DOMAIN j.signals = DOMAIN b.signals \cup DOMAIN a.signals
        /\ \A s \in DOMAIN b.signals : j.signals[s] = b.signals[s]
        /\ \A s \in DOMAIN a.signals : s \notin DOMAIN b.signals => j.signals[s] = a.signals[s]
    BY <1>1 DEF Over
  <2> QED
    BY <2>1, <2>2 DEF SameSignal
<1>4. ASSUME NEW r, NEW s
      PROVE  Within(Patch(a, r, s), Patch(j, r, s)) /\ Within(Patch(b, r, s), Patch(j, r, s))
  <2>1. ~Contradict(Patch(a, r, s), Patch(b, r, s))
    BY Agreeing
  <2>2. Patch(j, r, s) = Over(Patch(b, r, s), Patch(a, r, s))
    BY <1>1
  <2> QED
    BY <2>1, <2>2 DEF Contradict, Over, Within
<1>5. Has(j, a)
  BY <1>1, <1>2, <1>3, <1>4 DEF Has
<1>6. Has(j, b)
  BY <1>1, <1>2, <1>3, <1>4 DEF Has
<1> QED
  BY <1>5, <1>6 DEF j

\* A signal that is retuned has what the patch sets, and the rest as it was.
LEMMA ApplyIs ==
    ASSUME NEW signal \in Signals, NEW p \in Patches
    PROVE  /\ Apply(signal, p) \in Signals
           /\ \A f \in DOMAIN p : Apply(signal, p)[f] = p[f]
           /\ "base" \notin DOMAIN p => Apply(signal, p).base = signal.base
           /\ "min" \notin DOMAIN p => Apply(signal, p).min = signal.min
           /\ "max" \notin DOMAIN p => Apply(signal, p).max = signal.max
           /\ "base" \in DOMAIN p => Apply(signal, p).base = p["base"]
           /\ "min" \in DOMAIN p => Apply(signal, p).min = p["min"]
           /\ "max" \in DOMAIN p => Apply(signal, p).max = p["max"]
           /\ \A f \in DOMAIN p : p[f] \in Int
<1>1. IsPatch(p)
  BY PatchIs
<1>2. /\ DOMAIN p \subseteq {"base", "min", "max", "rest"} /\ \A f \in DOMAIN p : p[f] \in Int
  BY <1>1 DEF IsPatch
<1>3. DOMAIN signal = {"base", "min", "max", "min_is_floor", "max_is_ceiling", "ignore_weight",
                       "from_attr", "rest"}
  BY DEF Signals
<1> DEFINE V(f) == IF f \in DOMAIN p THEN p[f] ELSE signal[f]
<1>4. Apply(signal, p) =
        [base |-> V("base"), min |-> V("min"), max |-> V("max"), min_is_floor |-> V("min_is_floor"),
         max_is_ceiling |-> V("max_is_ceiling"), ignore_weight |-> V("ignore_weight"),
         from_attr |-> V("from_attr"), rest |-> V("rest")]
  BY <1>3 DEF Apply
<1>5. /\ V("base") \in Int /\ V("min") \in Int /\ V("max") \in Int /\ V("rest") \in Int
      /\ V("min_is_floor") \in BOOLEAN /\ V("max_is_ceiling") \in BOOLEAN
      /\ V("ignore_weight") \in BOOLEAN /\ V("from_attr") \in STRING
  BY <1>2 DEF Signals
<1>6. \A f \in DOMAIN p : Apply(signal, p)[f] = p[f]
  BY <1>2, <1>3 DEF Apply
<1>7. V("base") = (IF "base" \in DOMAIN p THEN p["base"] ELSE signal.base)
      /\ V("min") = (IF "min" \in DOMAIN p THEN p["min"] ELSE signal.min)
      /\ V("max") = (IF "max" \in DOMAIN p THEN p["max"] ELSE signal.max)
  BY DEF Signals
<1> HIDE DEF V
<1>8. Apply(signal, p) \in Signals
  BY <1>4, <1>5 DEF Signals
<1>9. /\ Apply(signal, p).base = V("base") /\ Apply(signal, p).min = V("min")
      /\ Apply(signal, p).max = V("max")
  BY <1>4
<1> QED
  BY <1>2, <1>6, <1>7, <1>8, <1>9

\* What is valid has contexts, and a role retunes its own signals only.
LEMMA ValidIs ==
    ASSUME NEW a \in AllSpecs, Valid(a)
    PROVE  /\ a # Refused
           /\ \A r \in DOMAIN a.roles : DOMAIN a.roles[r] \subseteq DOMAIN a.signals
           /\ \A s \in DOMAIN a.signals : \A r : ValidSignal(Apply(a.signals[s], Patch(a, r, s)))
<1>1. a # Refused
  BY DEF Valid, Refused
<1>2. \A r \in DOMAIN a.roles : DOMAIN a.roles[r] \subseteq DOMAIN a.signals
  BY DEF Valid
<1>3. ASSUME NEW s \in DOMAIN a.signals, NEW r
      PROVE  ValidSignal(Apply(a.signals[s], Patch(a, r, s)))
  <2>1. CASE r \in DOMAIN a.roles /\ s \in DOMAIN a.roles[r]
    BY <2>1 DEF Valid, Patch
  <2>2. CASE ~(r \in DOMAIN a.roles /\ s \in DOMAIN a.roles[r])
    <3>1. Patch(a, r, s) = Nothing /\ DOMAIN Nothing = {} /\ Nothing \in Patches
      BY <2>2, NothingIs DEF Patch
    <3>2. a.signals[s] \in Signals /\ ValidSignal(a.signals[s])
      BY SpecIs DEF Valid
    <3>3. /\ Apply(a.signals[s], Nothing).base = a.signals[s].base
          /\ Apply(a.signals[s], Nothing).min = a.signals[s].min
          /\ Apply(a.signals[s], Nothing).max = a.signals[s].max
      BY <3>1, <3>2, ApplyIs
    <3> QED
      BY <3>1, <3>2, <3>3 DEF ValidSignal
  <2> QED
    BY <2>1, <2>2
<1> QED
  BY <1>1, <1>2, <1>3

\* A composition that is accepted is valid, and has what each of its authors says.
LEMMA ComposedHas ==
    ASSUME NEW base, NEW services \in Seq(STRING), NEW u, ComposedUpto(u, base, services)
    PROVE  \A i \in 0..Len(services) : u[i] # Refused =>
                /\ Valid(u[i])
                /\ \A j \in 0..i : /\ Author(base, services, j) # Refused
                                   /\ Has(u[i], Author(base, services, j))
                /\ i > 0 => /\ u[i - 1] # Refused
                            /\ ~Collide(u[i - 1], Author(base, services, i))
                            /\ u[i] = Joined(u[i - 1], Author(base, services, i))
<1> DEFINE n == Len(services)
           A(j) == Author(base, services, j)
           P(i) == u[i] # Refused =>
                /\ Valid(u[i])
                /\ \A j \in 0..i : A(j) # Refused /\ Has(u[i], A(j))
                /\ i > 0 => u[i - 1] # Refused /\ ~Collide(u[i - 1], A(i)) /\ u[i] = Joined(u[i - 1], A(i))
           S == {i \in 0..n : P(i)}
<1>0. /\ n \in Nat /\ u \in [0..n -> AllSpecs] /\ u[0] = Read(base)
      /\ \A i \in 1..n : u[i] = AddService(u[i - 1], services[i])
  BY DEF ComposedUpto
<1>1. 0 \in S
  <2>1. A(0) = u[0]
    BY <1>0 DEF Author
  <2>2. u[0] # Refused => Valid(u[0])
    BY <1>0, ReadIs
  <2>3. Has(u[0], u[0])
    BY HasItself
  <2>4. \A j \in 0..0 : j = 0
    OBVIOUS
  <2> HIDE DEF A, n
  <2> QED
    BY <1>0, <2>1, <2>2, <2>3, <2>4
<1>2. ASSUME NEW k \in 0..n, k \in S, k # n PROVE k + 1 \in S
  <2> DEFINE i == k + 1
             a == u[k]
             b == A(i)
  <2>1. i \in 1..n /\ i \in 0..n /\ i - 1 = k /\ i # 0 /\ k \in 0..n
    BY <1>0, <1>2
  <2> SUFFICES ASSUME u[i] # Refused PROVE P(i)
    BY <2>1
  <2>2. b = LoadServiceSpec(services[i]) /\ b \in AllSpecs /\ a \in AllSpecs
    BY <1>0, <2>1, LoadIs DEF Author
  <2>3. u[i] = AddService(a, services[i])
    BY <1>0, <2>1
  <2> HIDE DEF A, a, b, i
  <2>4. a # Refused /\ b # Refused /\ u[i] = Merge(a, b)
    BY <2>2, <2>3 DEF AddService
  <2>5. ~Collide(a, b) /\ Valid(Joined(a, b)) /\ u[i] = Joined(a, b)
    BY <2>4 DEF Merge
  <2>6. Has(u[i], a) /\ Has(u[i], b)
    BY <2>2, <2>5, JoinedHas
  <2>7. \A j \in 0..k : A(j) # Refused /\ Has(a, A(j))
    BY <1>2, <2>4 DEF a
  <2>8. \A j \in 0..i : j \in 0..k \/ j = i
    BY <2>1
  <2>9. \A j \in 0..i : A(j) # Refused /\ Has(u[i], A(j))
    BY <2>4, <2>6, <2>7, <2>8, HasOfIts DEF b
  <2> QED
    BY <2>1, <2>4, <2>5, <2>9 DEF a, b
<1>3. 0..n \subseteq S
  <2> HIDE DEF S
  <2> QED
    BY <1>0, <1>1, <1>2, Inductively
<1> QED
  BY <1>3

-----------------------------------------------------------------------------
(* Any order of the services. *)

\* A composition says all that the one says, and has its very signals.
Inside(h, c) == Has(c, h) /\ \A s \in DOMAIN h.signals : c.signals[s] = h.signals[s]

\* Each field that is set is set by a patch that is valid alone.
Sound(h, c) ==
    \A r, s : \A f \in DOMAIN Patch(h, r, s) : \E p \in Patches :
        Within(p, Patch(h, r, s)) /\ f \in DOMAIN p /\ ValidSignal(Apply(c.signals[s], p))

OwnContexts(h, g) == \A x \in ToSet(h.contexts), y \in ToSet(g.contexts) : x.id # y.id

\* A part of a valid patch is valid when each of its fields comes from a valid one.
LEMMA PatchFits ==
    ASSUME NEW signal \in Signals, NEW p \in Patches, NEW q \in Patches, Within(p, q),
           ValidSignal(signal), ValidSignal(Apply(signal, q)),
           \A f \in DOMAIN p : \E t \in Patches :
                Within(t, p) /\ f \in DOMAIN t /\ ValidSignal(Apply(signal, t))
    PROVE  ValidSignal(Apply(signal, p))
<1> DEFINE V(t, f) == IF f \in DOMAIN t THEN t[f] ELSE signal[f]
           Fine(t) == V(t, "min") <= V(t, "max") /\ V(t, "min") <= V(t, "base") /\ V(t, "base") <= V(t, "max")
<1>1. ASSUME NEW t \in Patches
      PROVE  /\ Apply(signal, t).base = V(t, "base") /\ Apply(signal, t).min = V(t, "min")
             /\ Apply(signal, t).max = V(t, "max")
             /\ V(t, "base") \in Int /\ V(t, "min") \in Int /\ V(t, "max") \in Int
  <2>1. signal["base"] = signal.base /\ signal["min"] = signal.min /\ signal["max"] = signal.max
    BY DEF Signals
  <2>2. signal.base \in Int /\ signal.min \in Int /\ signal.max \in Int
    BY DEF Signals
  <2> QED
    BY <2>1, <2>2, ApplyIs
<1>2. \A t \in Patches : ValidSignal(Apply(signal, t)) <=> Fine(t)
  <2> HIDE DEF V
  <2> QED
    BY <1>1 DEF ValidSignal
<1>3. signal.min <= signal.max /\ signal.min <= signal.base /\ signal.base <= signal.max
  BY DEF ValidSignal, Signals
<1>4. \A t, f : (f \notin DOMAIN t => V(t, f) = signal[f])
  OBVIOUS
<1>5. signal["base"] = signal.base /\ signal["min"] = signal.min /\ signal["max"] = signal.max
  BY DEF Signals
<1>6. \A f \in DOMAIN p : V(p, f) = V(q, f)
  BY DEF Within
<1>7. \A f \in DOMAIN p : \E t \in Patches :
        Fine(t) /\ V(t, f) = V(p, f) /\ \A k : k \notin DOMAIN p => V(t, k) = signal[k]
  <2>1. ASSUME NEW f \in DOMAIN p
        PROVE  \E t \in Patches :
                Fine(t) /\ V(t, f) = V(p, f) /\ \A k : k \notin DOMAIN p => V(t, k) = signal[k]
    <3>1. PICK t \in Patches : Within(t, p) /\ f \in DOMAIN t /\ ValidSignal(Apply(signal, t))
      OBVIOUS
    <3>2. V(t, f) = V(p, f) /\ \A k : k \notin DOMAIN p => V(t, k) = signal[k]
      BY <3>1 DEF Within
    <3>3. Fine(t)
      BY <1>2, <3>1
    <3> HIDE DEF V, Fine
    <3> QED
      BY <3>1, <3>2, <3>3
  <2> QED
    BY <2>1
<1>8. ASSUME NEW f, NEW k, f \in DOMAIN p, k \notin DOMAIN p
      PROVE  \E t \in Patches : Fine(t) /\ V(t, f) = V(p, f) /\ V(t, k) = V(p, k)
  <2> HIDE DEF V, Fine
  <2> QED
    BY <1>4, <1>7, <1>8
<1>9. Fine(q)
  BY <1>2
<1>10. Fine(p)
  <2> HIDE DEF V
  <2>1. V(p, "min") <= V(p, "max")
    <3>1. CASE "min" \in DOMAIN p /\ "max" \in DOMAIN p
      BY <1>6, <1>9, <3>1
    <3>2. CASE "min" \notin DOMAIN p /\ "max" \notin DOMAIN p
      BY <1>3, <1>4, <1>5, <3>2
    <3>3. CASE "min" \in DOMAIN p /\ "max" \notin DOMAIN p
      BY <1>8, <3>3
    <3>4. CASE "min" \notin DOMAIN p /\ "max" \in DOMAIN p
      BY <1>8, <3>4
    <3> QED
      BY <3>1, <3>2, <3>3, <3>4
  <2>2. V(p, "min") <= V(p, "base")
    <3>1. CASE "min" \in DOMAIN p /\ "base" \in DOMAIN p
      BY <1>6, <1>9, <3>1
    <3>2. CASE "min" \notin DOMAIN p /\ "base" \notin DOMAIN p
      BY <1>3, <1>4, <1>5, <3>2
    <3>3. CASE "min" \in DOMAIN p /\ "base" \notin DOMAIN p
      BY <1>8, <3>3
    <3>4. CASE "min" \notin DOMAIN p /\ "base" \in DOMAIN p
      BY <1>8, <3>4
    <3> QED
      BY <3>1, <3>2, <3>3, <3>4
  <2>3. V(p, "base") <= V(p, "max")
    <3>1. CASE "base" \in DOMAIN p /\ "max" \in DOMAIN p
      BY <1>6, <1>9, <3>1
    <3>2. CASE "base" \notin DOMAIN p /\ "max" \notin DOMAIN p
      BY <1>3, <1>4, <1>5, <3>2
    <3>3. CASE "base" \in DOMAIN p /\ "max" \notin DOMAIN p
      BY <1>8, <3>3
    <3>4. CASE "base" \notin DOMAIN p /\ "max" \in DOMAIN p
      BY <1>8, <3>4
    <3> QED
      BY <3>1, <3>2, <3>3, <3>4
  <2> QED
    BY <2>1, <2>2, <2>3
<1> QED
  BY <1>2, <1>10

\* What is inside a composition does not collide with another of its parts.
LEMMA PartsAgree ==
    ASSUME NEW c \in AllSpecs, NEW h \in AllSpecs, NEW g \in AllSpecs,
           Inside(h, c), Inside(g, c), OwnContexts(h, g)
    PROVE  ~Collide(h, g)
<1>1. \A s \in DOMAIN h.signals \cap DOMAIN g.signals : SameSignal(h.signals[s], g.signals[s])
  BY DEF Inside, SameSignal
<1>2. \A i \in DOMAIN h.contexts, k \in DOMAIN g.contexts : h.contexts[i].id # g.contexts[k].id
  BY DEF OwnContexts, ToSet
<1>3. ASSUME NEW r \in DOMAIN h.roles \cap DOMAIN g.roles,
             NEW s \in DOMAIN h.roles[r] \cap DOMAIN g.roles[r]
      PROVE  ~Contradict(h.roles[r][s], g.roles[r][s])
  <2>1. Within(Patch(h, r, s), Patch(c, r, s)) /\ Within(Patch(g, r, s), Patch(c, r, s))
    BY DEF Inside, Has
  <2>2. Patch(h, r, s) = h.roles[r][s] /\ Patch(g, r, s) = g.roles[r][s]
    BY DEF Patch
  <2>3. ~Contradict(Patch(h, r, s), Patch(g, r, s))
    BY <2>1 DEF Within, Contradict
  <2> QED
    BY <2>2, <2>3
<1> QED
  BY <1>1, <1>2, <1>3 DEF Collide

\* Two parts of a composition are one part of it.
LEMMA PartsInside ==
    ASSUME NEW c \in AllSpecs, NEW h \in AllSpecs, NEW g \in AllSpecs,
           Inside(h, c), Inside(g, c), Sound(h, c), Sound(g, c), ~Collide(h, g)
    PROVE  Inside(Joined(h, g), c) /\ Sound(Joined(h, g), c)
<1> DEFINE j == Joined(h, g)
<1>0. JoinOf(j, h, g)
  BY JoinedIs
<1>2. Has(j, h) /\ Has(j, g)
  BY JoinedHas
<1> HIDE DEF j
<1>1. /\ j.signals = Over(g.signals, h.signals)
      /\ j.contexts = h.contexts \o g.contexts
      /\ DOMAIN j.roles = DOMAIN h.roles \cup DOMAIN g.roles
      /\ \A r \in DOMAIN j.roles :
            DOMAIN j.roles[r] =
                (IF r \in DOMAIN h.roles THEN DOMAIN h.roles[r] ELSE {}) \cup
                (IF r \in DOMAIN g.roles THEN DOMAIN g.roles[r] ELSE {})
      /\ \A r, s : Patch(j, r, s) = Over(Patch(g, r, s), Patch(h, r, s))
  BY <1>0 DEF JoinOf
<1>3. /\ ToSet(j.contexts) = ToSet(h.contexts) \cup ToSet(g.contexts)
      /\ ToSet(h.contexts) \subseteq ToSet(c.contexts) /\ ToSet(g.contexts) \subseteq ToSet(c.contexts)
  BY <1>1, SpecIs, JoinedContexts DEF Inside, Has
<1>4. \A s \in DOMAIN j.signals : s \in DOMAIN c.signals /\ c.signals[s] = j.signals[s]
  <2>1. /\ DOMAIN j.signals = DOMAIN g.signals \cup DOMAIN h.signals
        /\ \A s \in DOMAIN g.signals : j.signals[s] = g.signals[s]
        /\ \A s \in DOMAIN h.signals : s \notin DOMAIN g.signals => j.signals[s] = h.signals[s]
    BY <1>1 DEF Over
  <2> QED
    BY <2>1 DEF Inside, Has
<1>5. \A r \in DOMAIN j.roles : r \in DOMAIN c.roles /\ DOMAIN j.roles[r] \subseteq DOMAIN c.roles[r]
  <2>1. /\ DOMAIN h.roles \subseteq DOMAIN c.roles /\ DOMAIN g.roles \subseteq DOMAIN c.roles
        /\ \A r \in DOMAIN h.roles : DOMAIN h.roles[r] \subseteq DOMAIN c.roles[r]
        /\ \A r \in DOMAIN g.roles : DOMAIN g.roles[r] \subseteq DOMAIN c.roles[r]
    BY DEF Inside, Has
  <2> QED
    BY <1>1, <2>1
<1>6. ASSUME NEW r, NEW s PROVE Within(Patch(j, r, s), Patch(c, r, s))
  <2>1. Within(Patch(h, r, s), Patch(c, r, s)) /\ Within(Patch(g, r, s), Patch(c, r, s))
    BY DEF Inside, Has
  <2>2. Patch(j, r, s) = Over(Patch(g, r, s), Patch(h, r, s))
    BY <1>1
  <2> QED
    BY <2>1, <2>2 DEF Within, Over
<1>7. Inside(j, c)
  <2>1. \A s \in DOMAIN j.signals : s \in DOMAIN c.signals /\ SameSignal(j.signals[s], c.signals[s])
    BY <1>4 DEF SameSignal
  <2> QED
    BY <1>3, <1>4, <1>5, <1>6, <2>1 DEF Inside, Has
<1>8. ASSUME NEW r, NEW s, NEW f \in DOMAIN Patch(j, r, s)
      PROVE  \E p \in Patches :
                Within(p, Patch(j, r, s)) /\ f \in DOMAIN p /\ ValidSignal(Apply(c.signals[s], p))
  <2>1. f \in DOMAIN Patch(h, r, s) \/ f \in DOMAIN Patch(g, r, s)
    <3>1. Patch(j, r, s) = Over(Patch(g, r, s), Patch(h, r, s))
      BY <1>1
    <3>2. DOMAIN Patch(j, r, s) = DOMAIN Patch(g, r, s) \cup DOMAIN Patch(h, r, s)
      BY <3>1 DEF Over
    <3> QED
      BY <3>2
  <2>2. Within(Patch(h, r, s), Patch(j, r, s)) /\ Within(Patch(g, r, s), Patch(j, r, s))
    BY <1>2 DEF Has
  <2>3. PICK p \in Patches : /\ Within(p, Patch(h, r, s)) \/ Within(p, Patch(g, r, s))
                             /\ f \in DOMAIN p /\ ValidSignal(Apply(c.signals[s], p))
    BY <2>1 DEF Sound
  <2>4. Within(p, Patch(j, r, s))
    BY <2>2, <2>3 DEF Within
  <2> QED
    BY <2>3, <2>4
<1>9. Sound(j, c)
  BY <1>8 DEF Sound
<1> QED
  BY <1>7, <1>9 DEF j

\* Two valid parts of a valid composition are valid together.
LEMMA PartsValid ==
    ASSUME NEW c \in AllSpecs, NEW h \in AllSpecs, NEW g \in AllSpecs,
           Valid(c), Valid(h), Valid(g), OwnContexts(h, g), Inside(h, c), Inside(g, c),
           Inside(Joined(h, g), c), Sound(Joined(h, g), c)
    PROVE  Valid(Joined(h, g))
<1> DEFINE j == Joined(h, g)
<1>0. JoinOf(j, h, g) /\ j \in AllSpecs
  BY JoinedIs
<1>2. Inside(j, c) /\ Sound(j, c)
  OBVIOUS
<1> HIDE DEF j
<1>1. /\ j.signals = Over(g.signals, h.signals)
      /\ j.contexts = h.contexts \o g.contexts
      /\ DOMAIN j.roles = DOMAIN h.roles \cup DOMAIN g.roles
      /\ \A r \in DOMAIN j.roles :
            DOMAIN j.roles[r] =
                (IF r \in DOMAIN h.roles THEN DOMAIN h.roles[r] ELSE {}) \cup
                (IF r \in DOMAIN g.roles THEN DOMAIN g.roles[r] ELSE {})
      /\ \A r, s : Patch(j, r, s) = Over(Patch(g, r, s), Patch(h, r, s))
  BY <1>0 DEF JoinOf
<1>3. DOMAIN j.signals = DOMAIN g.signals \cup DOMAIN h.signals
  BY <1>1 DEF Over
<1>4. \A s \in DOMAIN j.signals : s \in DOMAIN c.signals /\ j.signals[s] = c.signals[s]
                                  /\ ValidSignal(j.signals[s]) /\ j.signals[s] \in Signals
  BY <1>0, <1>2, SpecIs DEF Inside, Has, Valid
<1>5. /\ h.contexts \in Seq(Contexts) /\ g.contexts \in Seq(Contexts) /\ j.contexts \in Seq(Contexts)
      /\ h.contexts # <<>> /\ g.contexts # <<>>
  BY <1>0, SpecIs DEF Valid
<1> DEFINE m == Len(h.contexts)
<1>6. /\ m \in Nat /\ Len(g.contexts) \in Nat /\ Len(j.contexts) = m + Len(g.contexts)
      /\ \A i \in 1..m : j.contexts[i] = h.contexts[i]
      /\ \A i \in 1..Len(g.contexts) : j.contexts[m + i] = g.contexts[i]
      /\ DOMAIN j.contexts = 1..Len(j.contexts) /\ DOMAIN h.contexts = 1..m
      /\ DOMAIN g.contexts = 1..Len(g.contexts) /\ m # 0
  <2> DEFINE x == h.contexts
             y == g.contexts
  <2>1. x \in Seq(Contexts) /\ y \in Seq(Contexts) /\ x # <<>>
    BY <1>5
  <2>2. j.contexts = x \o y
    BY <1>1
  <2> HIDE DEF x, y
  <2>3. /\ Len(x \o y) = Len(x) + Len(y) /\ Len(x) \in Nat /\ Len(y) \in Nat
        /\ \A i \in 1..Len(x) : (x \o y)[i] = x[i]
        /\ \A i \in 1..Len(y) : (x \o y)[Len(x) + i] = y[i]
        /\ DOMAIN (x \o y) = 1..Len(x \o y) /\ DOMAIN x = 1..Len(x) /\ DOMAIN y = 1..Len(y)
        /\ Len(x) # 0
    BY <2>1, ConcatIs
  <2> QED
    BY <2>2, <2>3 DEF x, y
<1>7. j.contexts # <<>>
  <2>1. Len(j.contexts) # 0
    <3> HIDE DEF m
    <3> QED
      BY <1>6
  <2> QED
    BY <2>1
<1> HIDE DEF m
<1>8. ASSUME NEW i \in DOMAIN j.contexts
      PROVE  \/ i \in 1..m /\ j.contexts[i] = h.contexts[i]
             \/ i - m \in 1..Len(g.contexts) /\ j.contexts[i] = g.contexts[i - m] /\ i \notin 1..m
  <2>1. CASE i \in 1..m
    BY <1>6, <2>1
  <2>2. CASE i \notin 1..m
    <3>1. i - m \in 1..Len(g.contexts) /\ i = m + (i - m)
      BY <1>6, <2>2
    <3> QED
      BY <1>6, <2>2, <3>1
  <2> QED
    BY <2>1, <2>2
<1>9. ASSUME NEW i \in DOMAIN j.contexts, NEW k \in DOMAIN j.contexts, i # k
      PROVE  j.contexts[i].id # j.contexts[k].id
  <2>1. /\ \A x, y \in 1..m : x # y => h.contexts[x].id # h.contexts[y].id
        /\ \A x, y \in 1..Len(g.contexts) : x # y => g.contexts[x].id # g.contexts[y].id
    BY <1>6 DEF Valid
  <2>2. \A x \in 1..m, y \in 1..Len(g.contexts) : h.contexts[x].id # g.contexts[y].id
    BY <1>6 DEF OwnContexts, ToSet
  <2>3. i \in Int /\ k \in Int /\ m \in Nat
    BY <1>6
  <2>4. i - m # k - m
    BY <2>3, <1>9
  <2> QED
    BY <1>8, <1>9, <2>1, <2>2, <2>4
<1>10. ASSUME NEW i \in DOMAIN j.contexts
       PROVE  /\ ValidShape(j.contexts[i].shape)
              /\ ToSet(Reads(j.contexts[i].shape)) \subseteq DOMAIN j.signals
  <2>1. CASE i \in 1..m /\ j.contexts[i] = h.contexts[i]
    BY <1>3, <1>6, <2>1 DEF Valid
  <2>2. CASE i - m \in 1..Len(g.contexts) /\ j.contexts[i] = g.contexts[i - m]
    BY <1>3, <1>6, <2>2 DEF Valid
  <2> QED
    BY <1>8, <2>1, <2>2
<1>11. ASSUME NEW r \in DOMAIN j.roles, NEW s \in DOMAIN j.roles[r]
       PROVE  s \in DOMAIN j.signals /\ ValidSignal(Apply(j.signals[s], j.roles[r][s]))
  <2>1. s \in DOMAIN j.signals
    <3>1. /\ \A x \in DOMAIN h.roles : DOMAIN h.roles[x] \subseteq DOMAIN h.signals
          /\ \A x \in DOMAIN g.roles : DOMAIN g.roles[x] \subseteq DOMAIN g.signals
      BY ValidIs
    <3> QED
      BY <1>1, <1>3, <3>1
  <2> DEFINE p == Patch(j, r, s)
             q == Patch(c, r, s)
  <2>2. p = j.roles[r][s]
    BY DEF Patch
  <2>3. p \in Patches /\ q \in Patches /\ Within(p, q)
    BY <1>0, <1>2, SpecIs DEF Inside, Has
  <2>4. s \in DOMAIN c.signals /\ j.signals[s] = c.signals[s] /\ ValidSignal(j.signals[s]) /\ j.signals[s] \in Signals
    BY <1>4, <2>1
  <2>5. ValidSignal(Apply(j.signals[s], q))
    BY <2>4, ValidIs
  <2>6. \A f \in DOMAIN p : \E t \in Patches :
            Within(t, p) /\ f \in DOMAIN t /\ ValidSignal(Apply(j.signals[s], t))
    BY <1>2, <2>4 DEF Sound
  <2> HIDE DEF p, q
  <2>7. ValidSignal(Apply(j.signals[s], p))
    BY <2>3, <2>4, <2>5, <2>6, PatchFits
  <2> QED
    BY <2>1, <2>2, <2>7
<1>12. Valid(j)
  BY <1>4, <1>7, <1>9, <1>10, <1>11 DEF Valid
<1> QED
  BY <1>12 DEF j

\* The place of an author when the services are named the other way round.
Other(n, j) == IF j = 0 THEN 0 ELSE n - j + 1

\* If a node's authors are valid and their signals alike, what its services give in one order,
\* they do not fail to give in the other, and it is no more.
LEMMA OneWay ==
    ASSUME NEW base, NEW services \in Seq(STRING),
           \A j \in 0..Len(services) : \/ Author(base, services, j) = Refused
                                       \/ Valid(Author(base, services, j)),
           \A j, k \in 0..Len(services) :
                \A s \in DOMAIN Author(base, services, j).signals \cap DOMAIN Author(base, services, k).signals :
                    SameSignal(Author(base, services, j).signals[s], Author(base, services, k).signals[s]) =>
                        Author(base, services, j).signals[s] = Author(base, services, k).signals[s],
           Compose(base, services) # Refused
    PROVE  /\ Compose(base, Reverse(services)) # Refused
           /\ Inside(Compose(base, Reverse(services)), Compose(base, services))
<1> DEFINE n == Len(services)
           A(j) == Author(base, services, j)
           back == Reverse(services)
           c == Compose(base, services)
<1>0. /\ n \in Nat /\ \A j \in 0..n : A(j) \in AllSpecs
      /\ back \in Seq(STRING) /\ Len(back) = n
      /\ \A i \in 1..n : back[i] = services[n - i + 1]
  <2>1. \A j \in 0..n : A(j) \in AllSpecs
    BY ReadIs, LoadIs DEF Author
  <2>2. n \in Nat /\ back = [i \in 1..n |-> services[n - i + 1]]
    BY DEF Reverse
  <2>3. \A i \in 1..n : n - i + 1 \in 1..n
    BY <2>2
  <2>4. \A i \in 1..n : services[i] \in STRING
    OBVIOUS
  <2> HIDE DEF back, n
  <2>5. back \in [1..n -> STRING]
    BY <2>2, <2>3, <2>4
  <2>6. back \in Seq(STRING) /\ Len(back) = n
    BY <2>2, <2>5
  <2> QED
    BY <2>1, <2>2, <2>6
<1>1. \A j, k \in 0..n : \A s \in DOMAIN A(j).signals \cap DOMAIN A(k).signals :
        SameSignal(A(j).signals[s], A(k).signals[s]) => A(j).signals[s] = A(k).signals[s]
  OBVIOUS
<1>2. \A j \in 0..n : A(j) = Refused \/ Valid(A(j))
  OBVIOUS
<1>3. PICK u : ComposedUpto(u, base, services)
  BY ComposeRun
<1>4. \A i \in 0..n : u[i] # Refused =>
        /\ Valid(u[i]) /\ \A j \in 0..i : A(j) # Refused /\ Has(u[i], A(j))
        /\ i > 0 => u[i - 1] # Refused /\ ~Collide(u[i - 1], A(i)) /\ u[i] = Joined(u[i - 1], A(i))
  BY <1>3, ComposedHas
<1>5. u[n] = c /\ u[0] = A(0) /\ \A i \in 0..n : u[i] \in AllSpecs
  BY <1>3 DEF ComposedUpto, Author
<1> HIDE DEF A, n
\* No prefix of an accepted composition is refused.
<1>6. \A i \in 0..n : u[i] # Refused
  <2> DEFINE S == {i \in 0..n : u[n - i] # Refused}
  <2>1. 0 \in S
    BY <1>0, <1>5
  <2>2. ASSUME NEW i \in 0..n, i \in S, i # n PROVE i + 1 \in S
    <3>1. n - i \in 0..n /\ n - i > 0 /\ n - (i + 1) = (n - i) - 1 /\ i + 1 \in 0..n
      BY <1>0, <2>2
    <3> QED
      BY <1>4, <2>2, <3>1
  <2> HIDE DEF S
  <2>3. 0..n \subseteq S
    BY <1>0, <2>1, <2>2, Inductively
  <2>4. \A i \in 0..n : n - i \in 0..n /\ n - (n - i) = i
    BY <1>0
  <2>5. \A i \in 0..n : u[n - (n - i)] # Refused
    BY <2>3, <2>4 DEF S
  <2> QED
    BY <2>4, <2>5
<1>7. /\ Valid(c) /\ c \in AllSpecs
      /\ \A j \in 0..n : A(j) # Refused /\ Valid(A(j)) /\ Has(c, A(j))
  <2>1. n \in 0..n
    BY <1>0
  <2> QED
    BY <1>2, <1>4, <1>5, <1>6, <2>1
\* No two authors have a context of one id.
<1>8. \A j, k \in 0..n : j # k => OwnContexts(A(j), A(k))
  <2>1. ASSUME NEW j \in 0..n, NEW k \in 0..n, j < k PROVE OwnContexts(A(j), A(k)) /\ OwnContexts(A(k), A(j))
    <3>1. k - 1 \in 0..n /\ k > 0 /\ j \in 0..k - 1
      BY <1>0, <2>1
    <3>2. ~Collide(u[k - 1], A(k)) /\ Has(u[k - 1], A(j))
      BY <1>4, <1>6, <3>1
    <3>3. OwnContexts(u[k - 1], A(k))
      BY <3>2 DEF Collide, OwnContexts, ToSet
    <3> QED
      BY <3>2, <3>3 DEF Has, OwnContexts
  <2>2. \A j, k \in 0..n : j # k => j < k \/ k < j
    BY <1>0
  <2> QED
    BY <2>1, <2>2
\* Each signal of the composition is that of an author.
<1>9. \A s \in DOMAIN c.signals : \E j \in 0..n : s \in DOMAIN A(j).signals /\ c.signals[s] = A(j).signals[s]
  <2> DEFINE Q(i) == \A s \in DOMAIN u[i].signals : \E j \in 0..n :
                        s \in DOMAIN A(j).signals /\ u[i].signals[s] = A(j).signals[s]
             S == {i \in 0..n : Q(i)}
  <2>0. 0 \in 0..n /\ n \in 0..n
    BY <1>0
  <2>1. 0 \in S
    BY <1>5, <2>0
  <2>2. ASSUME NEW i \in 0..n, i \in S, i # n PROVE i + 1 \in S
    <3> DEFINE k == i + 1
    <3>1. k \in 0..n /\ k > 0 /\ k - 1 = i
      BY <1>0, <2>2
    <3>2. u[k] = Joined(u[i], A(k))
      BY <1>4, <1>6, <3>1
    <3> HIDE DEF k
    <3>3. JoinOf(u[k], u[i], A(k))
      BY <1>0, <1>5, <3>1, <3>2, JoinedIs
    <3>4. u[k].signals = Over(A(k).signals, u[i].signals)
      BY <3>3 DEF JoinOf
    <3>5. /\ DOMAIN u[k].signals = DOMAIN A(k).signals \cup DOMAIN u[i].signals
          /\ \A s \in DOMAIN A(k).signals : u[k].signals[s] = A(k).signals[s]
          /\ \A s \in DOMAIN u[i].signals : s \notin DOMAIN A(k).signals => u[k].signals[s] = u[i].signals[s]
      BY <3>4 DEF Over
    <3>6. Q(i)
      BY <2>2
    <3>7. Q(k)
      BY <3>1, <3>5, <3>6
    <3> QED
      BY <3>1, <3>7 DEF k
  <2>3. 0..n \subseteq S
    <3> HIDE DEF S
    <3> QED
      BY <1>0, <2>1, <2>2, Inductively
  <2> QED
    BY <1>5, <2>0, <2>3
<1>10. \A j \in 0..n : Inside(A(j), c)
  <2>1. ASSUME NEW j \in 0..n, NEW s \in DOMAIN A(j).signals PROVE c.signals[s] = A(j).signals[s]
    <3>1. s \in DOMAIN c.signals /\ SameSignal(A(j).signals[s], c.signals[s])
      BY <1>7 DEF Has
    <3>2. PICK k \in 0..n : s \in DOMAIN A(k).signals /\ c.signals[s] = A(k).signals[s]
      BY <1>9, <3>1
    <3> QED
      BY <1>1, <3>1, <3>2
  <2> QED
    BY <1>7, <2>1 DEF Inside
<1>11. \A j \in 0..n : Sound(A(j), c)
  <2>1. ASSUME NEW j \in 0..n, NEW r, NEW s, NEW f \in DOMAIN Patch(A(j), r, s)
        PROVE  \E p \in Patches : /\ Within(p, Patch(A(j), r, s)) /\ f \in DOMAIN p
                                  /\ ValidSignal(Apply(c.signals[s], p))
    <3> DEFINE a == A(j)
               p == Patch(a, r, s)
    <3>1. a \in AllSpecs /\ Valid(a) /\ Inside(a, c)
      BY <1>0, <1>7, <1>10
    <3> HIDE DEF a
    <3>2. p \in Patches /\ Within(p, p)
      BY <3>1, SpecIs DEF Within
    <3>3. f \in DOMAIN p
      BY <2>1 DEF a
    <3>4. r \in DOMAIN a.roles /\ s \in DOMAIN a.roles[r]
      BY <3>3, NothingIs DEF Patch
    <3>5. s \in DOMAIN a.signals
      BY <3>1, <3>4, ValidIs
    <3>6. ValidSignal(Apply(a.signals[s], p)) /\ c.signals[s] = a.signals[s]
      BY <3>1, <3>5, ValidIs DEF Inside
    <3> QED
      BY <3>2, <3>3, <3>6 DEF a
  <2> QED
    BY <2>1 DEF Sound
\* The composition the other way round, author by author.
<1>12. PICK w : ComposedUpto(w, base, back)
  BY <1>0, ComposeRun
<1>13. /\ w[n] = Compose(base, back) /\ w[0] = A(0) /\ \A i \in 0..n : w[i] \in AllSpecs
       /\ \A i \in 1..n : w[i] = AddService(w[i - 1], back[i])
  BY <1>0, <1>12 DEF ComposedUpto, Author, A
<1>14. /\ Other(n, 0) = 0
       /\ \A i \in 1..n : Other(n, i) \in 1..n /\ LoadServiceSpec(back[i]) = A(Other(n, i))
       /\ \A i, j \in 0..n : i # j => Other(n, i) # Other(n, j)
       /\ \A i \in 0..n : Other(n, i) \in 0..n
  <2>1. \A i \in 1..n : i # 0 /\ n - i + 1 \in 1..n /\ n - i + 1 # 0 /\ Other(n, i) = n - i + 1
    BY <1>0 DEF Other
  <2>2. Other(n, 0) = 0
    BY DEF Other
  <2>3. \A i \in 0..n : i = 0 \/ i \in 1..n
    BY <1>0
  <2>4. ASSUME NEW i \in 1..n PROVE LoadServiceSpec(back[i]) = A(Other(n, i))
    BY <1>0, <2>1 DEF A, Author
  <2>5. ASSUME NEW i \in 0..n, NEW j \in 0..n, i # j PROVE Other(n, i) # Other(n, j)
    BY <1>0, <2>5 DEF Other
  <2> QED
    BY <1>0, <2>1, <2>2, <2>3, <2>4, <2>5
<1> DEFINE T(i) == /\ w[i] # Refused /\ Valid(w[i]) /\ Inside(w[i], c) /\ Sound(w[i], c)
                   /\ \A x \in ToSet(w[i].contexts) : \E j \in 0..i : x \in ToSet(A(Other(n, j)).contexts)
           S == {i \in 0..n : T(i)}
<1> HIDE DEF back, c
<1>15. 0 \in S
  <2>0. 0 \in 0..n /\ 0 \in 0..0
    BY <1>0
  <2>1. w[0] # Refused /\ Valid(w[0]) /\ Inside(w[0], c) /\ Sound(w[0], c)
    BY <1>7, <1>10, <1>11, <1>13, <2>0
  <2>2. \A x \in ToSet(w[0].contexts) : x \in ToSet(A(Other(n, 0)).contexts)
    BY <1>13, <1>14
  <2> QED
    BY <2>0, <2>1, <2>2
<1>16. ASSUME NEW k \in 0..n, k \in S, k # n PROVE k + 1 \in S
  <2> DEFINE i == k + 1
             h == w[k]
             g == A(Other(n, i))
  <2>1. i \in 1..n /\ i \in 0..n /\ i - 1 = k /\ \A j \in 0..k : j \in 0..i /\ j \in 0..n /\ j # i
    BY <1>0, <1>16
  <2>2. /\ g \in AllSpecs /\ g # Refused /\ Valid(g) /\ Inside(g, c) /\ Sound(g, c)
    BY <1>0, <1>7, <1>10, <1>11, <1>14, <2>1
  <2>3. T(k)
    BY <1>16
  <2>4. h \in AllSpecs /\ h # Refused /\ Valid(h) /\ Inside(h, c) /\ Sound(h, c)
    BY <1>13, <2>3
  <2>5. OwnContexts(h, g)
    <3>1. ASSUME NEW x \in ToSet(h.contexts), NEW y \in ToSet(g.contexts) PROVE x.id # y.id
      <4>1. PICK j \in 0..k : x \in ToSet(A(Other(n, j)).contexts)
        BY <2>3
      <4>2. Other(n, j) # Other(n, i) /\ Other(n, j) \in 0..n /\ Other(n, i) \in 0..n
        BY <1>14, <2>1
      <4>3. OwnContexts(A(Other(n, j)), g)
        BY <1>8, <4>2
      <4> QED
        BY <4>1, <4>3 DEF OwnContexts
    <3> QED
      BY <3>1 DEF OwnContexts
  <2>6. w[i] = AddService(h, back[i]) /\ LoadServiceSpec(back[i]) = g
    BY <1>13, <1>14, <2>1
  <2> HIDE DEF h, g, i
  <2>7. ~Collide(h, g)
    BY <1>7, <2>2, <2>4, <2>5, PartsAgree
  <2>8. Inside(Joined(h, g), c) /\ Sound(Joined(h, g), c)
    BY <1>7, <2>2, <2>4, <2>7, PartsInside
  <2>9. Valid(Joined(h, g))
    BY <1>7, <2>2, <2>4, <2>5, <2>8, PartsValid
  <2>10. w[i] = Joined(h, g)
    BY <2>2, <2>4, <2>6, <2>7, <2>9 DEF AddService, Merge
  <2>11. w[i] # Refused
    BY <2>2, <2>4, <2>9, <2>10, JoinedIs, ValidIs
  <2>12. ToSet(w[i].contexts) = ToSet(h.contexts) \cup ToSet(g.contexts)
    <3>1. JoinOf(w[i], h, g)
      BY <2>2, <2>4, <2>10, JoinedIs
    <3>2. w[i].contexts = h.contexts \o g.contexts
      BY <3>1 DEF JoinOf
    <3> QED
      BY <2>2, <2>4, <3>2, SpecIs, JoinedContexts
  <2>13. \A x \in ToSet(w[i].contexts) : \E j \in 0..i : x \in ToSet(A(Other(n, j)).contexts)
    <3>1. i \in 0..i
      BY <2>1
    <3> QED
      BY <2>1, <2>3, <2>12, <3>1 DEF h, g
  <2>14. T(i)
    BY <2>8, <2>9, <2>10, <2>11, <2>13
  <2> QED
    BY <2>1, <2>14 DEF i
<1>17. 0..n \subseteq S
  <2> HIDE DEF S
  <2> QED
    BY <1>0, <1>15, <1>16, Inductively
<1>18. T(n)
  <2>1. n \in 0..n
    BY <1>0
  <2> QED
    BY <1>17, <2>1
<1> QED
  BY <1>13, <1>18 DEF back, c

\* Specifications that are inside each other have the same in them.
LEMMA InsideBoth ==
    ASSUME NEW a \in AllSpecs, NEW b \in AllSpecs, Inside(a, b), Inside(b, a)
    PROVE  a.signals = b.signals /\ a.roles = b.roles /\ ToSet(a.contexts) = ToSet(b.contexts)
<1>1. ToSet(a.contexts) = ToSet(b.contexts)
  BY DEF Inside, Has
<1>2. a.signals = b.signals
  <2>1. DOMAIN a.signals = DOMAIN b.signals /\ \A s \in DOMAIN a.signals : a.signals[s] = b.signals[s]
    BY DEF Inside, Has
  <2>2. a.signals = [s \in DOMAIN a.signals |-> a.signals[s]] /\ b.signals = [s \in DOMAIN b.signals |-> b.signals[s]]
    BY SpecIs, MapsToIs DEF IsMap
  <2> QED
    BY <2>1, <2>2
<1>3. a.roles = b.roles
  <2>1. /\ DOMAIN a.roles = DOMAIN b.roles
        /\ \A r \in DOMAIN a.roles : DOMAIN a.roles[r] = DOMAIN b.roles[r]
    BY DEF Inside, Has
  <2>2. ASSUME NEW r \in DOMAIN a.roles, NEW s \in DOMAIN a.roles[r]
        PROVE  a.roles[r][s] = b.roles[r][s]
    <3>1. Patch(a, r, s) = a.roles[r][s] /\ Patch(b, r, s) = b.roles[r][s]
      BY <2>1 DEF Patch
    <3>2. Within(Patch(a, r, s), Patch(b, r, s)) /\ Within(Patch(b, r, s), Patch(a, r, s))
      BY DEF Inside, Has
    <3> DEFINE p == Patch(a, r, s)
               q == Patch(b, r, s)
    <3>3. p \in Patches /\ q \in Patches
      BY SpecIs
    <3> HIDE DEF p, q
    <3>4. p = [f \in DOMAIN p |-> p[f]] /\ q = [f \in DOMAIN q |-> q[f]]
      BY <3>3 DEF Patches
    <3>5. DOMAIN p = DOMAIN q /\ \A f \in DOMAIN p : p[f] = q[f]
      BY <3>2 DEF Within, p, q
    <3>6. p = q
      BY <3>4, <3>5
    <3> QED
      BY <3>1, <3>6 DEF p, q
  <2>3. ASSUME NEW r \in DOMAIN a.roles PROVE a.roles[r] = b.roles[r]
    <3>1. a.roles[r] \in MapsTo(Patches) /\ b.roles[r] \in MapsTo(Patches)
      BY <2>1, SpecIs
    <3>2. /\ a.roles[r] = [s \in DOMAIN a.roles[r] |-> a.roles[r][s]]
          /\ b.roles[r] = [s \in DOMAIN b.roles[r] |-> b.roles[r][s]]
      BY <3>1, MapsToIs DEF IsMap
    <3> QED
      BY <2>1, <2>2, <3>2
  <2>4. a.roles = [r \in DOMAIN a.roles |-> a.roles[r]] /\ b.roles = [r \in DOMAIN b.roles |-> b.roles[r]]
    BY SpecIs, MapsToIs DEF IsMap
  <2> QED
    BY <2>1, <2>3, <2>4
<1> QED
  BY <1>1, <1>2, <1>3

-----------------------------------------------------------------------------
(* The engine's state. *)

\* The charts that contexts and instances may give.
Possible(contexts, instances) ==
    {NodeChart(contexts[i], i)[1] : i \in DOMAIN contexts} \cup
    UNION {{InstanceCharts(contexts[i], i, instances)[k] :
                k \in DOMAIN InstanceCharts(contexts[i], i, instances)} : i \in DOMAIN contexts}

\* A plan has no others.
LEMMA PlanIs ==
    ASSUME NEW contexts \in Seq(Contexts), NEW instances,
           \A g \in DOMAIN instances : instances[g] \in Seq(ToSet(instances[g]))
    PROVE  PlanCharts(contexts, instances) \in Seq(Possible(contexts, instances))
<1> DEFINE n == Len(contexts)
           C == Possible(contexts, instances)
           A == Seq(C)
           E(i) == IF contexts[i].group = "" THEN NodeChart(contexts[i], i)
                   ELSE InstanceCharts(contexts[i], i, instances)
           R(f) == [i \in 0..n |-> IF i = 0 THEN <<>> ELSE f[i - 1] \o E(i)]
           step == [i \in 1..n |-> [a \in A |-> a \o E(i)]]
           u == CHOOSE f : f = R(f)
<1>a. n \in Nat /\ DOMAIN contexts = 1..n
  OBVIOUS
<1>b. ASSUME NEW i \in 1..n PROVE E(i) \in Seq(C)
  <2>1. NodeChart(contexts[i], i) \in Seq(C)
    <3>1. NodeChart(contexts[i], i)[1] \in C
      BY <1>a DEF Possible
    <3> DEFINE x == NodeChart(contexts[i], i)[1]
    <3>2. NodeChart(contexts[i], i) = <<x>>
      BY DEF NodeChart
    <3>3. x \in C
      BY <3>1
    <3> HIDE DEF C, x
    <3>4. <<x>> \in Seq(C)
      BY <3>3
    <3> QED
      BY <3>2, <3>4
  <2>2. InstanceCharts(contexts[i], i, instances) \in Seq(C)
    <3> DEFINE t == InstanceCharts(contexts[i], i, instances)
               found == IF contexts[i].group \in DOMAIN instances
                        THEN instances[contexts[i].group] ELSE <<>>
    <3>1. Len(found) \in Nat /\ DOMAIN found = 1..Len(found)
      <4>1. CASE contexts[i].group \in DOMAIN instances
        <5> DEFINE s == instances[contexts[i].group]
        <5>1. s \in Seq(ToSet(s)) /\ found = s
          BY <4>1
        <5> HIDE DEF s, found
        <5> QED
          BY <5>1
      <4>2. CASE contexts[i].group \notin DOMAIN instances
        BY <4>2
      <4> QED
        BY <4>1, <4>2
    <3>2. DOMAIN t = DOMAIN found /\ t = [k \in DOMAIN t |-> t[k]]
      BY DEF InstanceCharts
    <3>3. ASSUME NEW k \in DOMAIN t PROVE t[k] \in C
      <4>1. i \in DOMAIN contexts
        BY <1>a
      <4>2. t[k] \in {InstanceCharts(contexts[i], i, instances)[m] :
                            m \in DOMAIN InstanceCharts(contexts[i], i, instances)}
        OBVIOUS
      <4> HIDE DEF t
      <4> QED
        BY <4>1, <4>2 DEF Possible
    <3> HIDE DEF t, found, C
    <3>4. t \in [1..Len(found) -> C]
      BY <3>1, <3>2, <3>3
    <3>5. t \in Seq(C)
      BY <3>1, <3>4
    <3> QED
      BY <3>5 DEF t
  <2> QED
    BY <2>1, <2>2
<1> HIDE DEF E, C
<1>0. n \in Nat /\ <<>> \in A /\ \A i \in 1..n, a \in A : a \o E(i) \in A
  <2>1. \A i \in 1..n, a \in Seq(C) : a \o E(i) \in Seq(C)
    BY <1>b
  <2>2. <<>> \in Seq(C)
    OBVIOUS
  <2> QED
    BY <1>a, <2>1, <2>2
<1>1. step \in [1..n -> [A -> A]]
  <2> HIDE DEF n, A
  <2> QED
    BY <1>0
<1>2. PICK f : Run(f, A, n, <<>>, step)
  <2> HIDE DEF n, step, A
  <2> QED
    BY <1>0, <1>1, RunExists
<1>3. f = R(f)
  <2>0. f \in [0..n -> A] /\ f[0] = <<>> /\ \A i \in 1..n : f[i] = step[i][f[i - 1]]
    BY <1>2 DEF Run
  <2>1. ASSUME NEW i \in 0..n PROVE f[i] = R(f)[i]
    <3>1. CASE i = 0
      BY <2>0, <3>1
    <3>2. CASE i # 0
      <4>1. i \in 1..n /\ i - 1 \in 0..n
        BY <1>0, <3>2
      <4>2. f[i - 1] \in A /\ f[i] = step[i][f[i - 1]]
        BY <2>0, <4>1
      <4> QED
        BY <3>2, <4>1, <4>2
    <3> QED
      BY <3>1, <3>2
  <2> HIDE DEF n, step, A
  <2> QED
    BY <2>0, <2>1
<1>4. u = R(u)
  BY <1>3
<1>5. PlanCharts(contexts, instances) = u[n]
  BY DEF PlanCharts, E
<1> HIDE DEF u, A
<1>6. u[0] = <<>> /\ \A i \in 1..n : u[i] = u[i - 1] \o E(i)
  <2>1. 0 \in 0..n /\ \A i \in 1..n : i \in 0..n /\ i # 0
    BY <1>0
  <2> HIDE DEF n
  <2> QED
    BY <1>4, <2>1
<1>7. \A i \in 0..n : u[i] \in A
  <2>1. u[0] \in A /\ \A i \in 1..n : u[i - 1] \in A => u[i] \in A
    <3> HIDE DEF n
    <3> QED
      BY <1>0, <1>6
  <2> HIDE DEF n
  <2> QED
    BY <1>0, <2>1, StaysIn
<1>8. n \in 0..n
  BY <1>0
<1> QED
  BY <1>5, <1>7, <1>8 DEF A, C

\* A chart is of the node, or of an instance.
LEMMA PossibleIs ==
    ASSUME NEW contexts \in Seq(Contexts), NEW instances,
           \A g \in DOMAIN instances : instances[g] \in Seq(ToSet(instances[g])),
           NEW chart \in Possible(contexts, instances)
    PROVE  /\ chart.context \in DOMAIN contexts
           /\ \/ chart.scope = "" /\ chart.weight = 100 /\ chart.attrs = Nothing
              \/ \E g \in DOMAIN instances : \E x \in ToSet(instances[g]) :
                    chart.scope = x.name /\ chart.weight = x.weight /\ chart.attrs = x.attrs
<1>1. CASE chart \in {NodeChart(contexts[i], i)[1] : i \in DOMAIN contexts}
  <2>1. PICK i \in DOMAIN contexts : chart = NodeChart(contexts[i], i)[1]
    BY <1>1
  <2>2. chart = [id |-> <<contexts[i].id, "">>, context |-> i, scope |-> "", weight |-> 100, attrs |-> Nothing]
    BY <2>1 DEF NodeChart
  <2> QED
    BY <2>2
<1>2. CASE chart \notin {NodeChart(contexts[i], i)[1] : i \in DOMAIN contexts}
  <2>1. PICK i \in DOMAIN contexts : \E k \in DOMAIN InstanceCharts(contexts[i], i, instances) :
            chart = InstanceCharts(contexts[i], i, instances)[k]
    BY <1>2 DEF Possible
  <2>2. PICK k \in DOMAIN InstanceCharts(contexts[i], i, instances) :
            chart = InstanceCharts(contexts[i], i, instances)[k]
    BY <2>1
  <2>3. CASE contexts[i].group \notin DOMAIN instances
    <3>1. DOMAIN InstanceCharts(contexts[i], i, instances) = DOMAIN <<>>
      BY <2>3 DEF InstanceCharts
    <3>2. DOMAIN <<>> = {}
      OBVIOUS
    <3>3. DOMAIN InstanceCharts(contexts[i], i, instances) = {}
      BY <3>1, <3>2
    <3> QED
      BY <3>3
  <2>4. CASE contexts[i].group \in DOMAIN instances
    <3> DEFINE s == instances[contexts[i].group]
    <3>1. InstanceCharts(contexts[i], i, instances) =
            [m \in DOMAIN s |->
                [id |-> <<contexts[i].prefix, s[m].name>>, context |-> i, scope |-> s[m].name,
                 weight |-> s[m].weight, attrs |-> s[m].attrs]]
      BY <2>4 DEF InstanceCharts
    <3>2. k \in DOMAIN s /\ chart.scope = s[k].name /\ chart.weight = s[k].weight
          /\ chart.attrs = s[k].attrs /\ chart.context = i
      BY <2>2, <3>1
    <3>3. s[k] \in ToSet(s)
      BY <3>2 DEF ToSet
    <3> QED
      BY <2>4, <3>2, <3>3
  <2> QED
    BY <2>3, <2>4
<1> QED
  BY <1>1, <1>2

\* What the engine has been set up with stays.
SetUp ==
    /\ profile \in Profiles
    /\ spec = Compose(profile.base, profile.services)
    /\ signals = SignalsForRole(spec, profile.role)
    /\ plan = PlanCharts(spec.contexts, profile.instances)

LEMMA SetUpHolds == Spec => []SetUp
<1>1. Init => SetUp
  BY DEF Init, SetUp
<1>2. SetUp /\ [Next]_engineVars => SetUp'
  <2> SUFFICES ASSUME SetUp, [Next]_engineVars PROVE SetUp'
    OBVIOUS
  <2>1. profile' = profile /\ spec' = spec /\ signals' = signals /\ plan' = plan
    BY DEF Next, EngineTick, LogsTick, engineVars
  <2> QED
    BY <2>1 DEF SetUp
<1> QED
  BY <1>1, <1>2, PTL DEF Spec

\* A tick of the logs process, or none, leaves the charts and what the lint knows of them.
Rests ==
    /\ profile' = profile /\ spec' = spec /\ signals' = signals /\ plan' = plan
    /\ counters' = counters /\ sample' = sample /\ drawn' = drawn /\ faulted' = faulted
    /\ last' = last /\ violations' = violations

LEMMA RestsIs ==
    ASSUME [Next]_engineVars, ~EngineTick
    PROVE  Rests
  BY DEF Next, LogsTick, engineVars, Rests

\* What was composed is a specification, and a valid one if it was not refused.
LEMMA SpecHas ==
    ASSUME SetUp
    PROVE  /\ spec \in AllSpecs /\ (spec # Refused => Valid(spec))
           /\ profile.services \in Seq(STRING)
           /\ spec # Refused => \A a \in Authors(profile) : Has(spec, a)
<1> DEFINE n == Len(profile.services)
           s == profile.services
<1>1. profile.services \in Seq(STRING)
  BY ProfilesAssumption DEF SetUp
<1>2. PICK u : ComposedUpto(u, profile.base, profile.services)
  BY <1>1, ComposeRun
<1>3. n \in 0..n /\ n \in Nat
  BY <1>1
<1>4. spec = u[n] /\ u[n] \in AllSpecs
  BY <1>2, <1>3 DEF ComposedUpto, SetUp
<1>5. spec # Refused => /\ Valid(spec)
                        /\ \A j \in 0..n : Has(spec, Author(profile.base, profile.services, j))
  BY <1>1, <1>2, <1>3, <1>4, ComposedHas
<1>6. ASSUME NEW a \in Authors(profile) PROVE \E j \in 0..n : a = Author(profile.base, profile.services, j)
  <2>1. CASE a = Read(profile.base)
    BY <1>3, <2>1 DEF Author
  <2>2. CASE a # Read(profile.base)
    <3>1. PICK x \in ToSet(s) : a = LoadServiceSpec(x)
      BY <2>2 DEF Authors
    <3>2. PICK i \in 1..n : x = s[i]
      BY <1>1, <3>1 DEF ToSet
    <3>3. i \in 0..n /\ i # 0
      BY <1>3
    <3> QED
      BY <3>1, <3>2, <3>3 DEF Author
  <2> QED
    BY <2>1, <2>2
<1> HIDE DEF n
<1> QED
  BY <1>1, <1>4, <1>5, <1>6

\* What a composition has, the node has: its contexts, its signals but for the role, its patches.
LEMMA AuthoredIs == SetUp => Authored
<1> SUFFICES ASSUME SetUp, spec # Refused, NEW a \in Authors(profile)
             PROVE  /\ ToSet(a.contexts) \subseteq ToSet(spec.contexts)
                    /\ \A s \in DOMAIN a.signals : SameSignal(a.signals[s], spec.signals[s])
                    /\ profile.role \in DOMAIN a.roles =>
                        \A s \in DOMAIN a.roles[profile.role] :
                            \A f \in DOMAIN a.roles[profile.role][s] :
                                signals[s][f] = a.roles[profile.role][s][f]
  BY DEF Authored
<1>1. Has(spec, a) /\ spec \in AllSpecs /\ Valid(spec)
  BY SpecHas
<1>2. ToSet(a.contexts) \subseteq ToSet(spec.contexts)
      /\ \A s \in DOMAIN a.signals : SameSignal(a.signals[s], spec.signals[s])
  BY <1>1 DEF Has
<1>3. ASSUME profile.role \in DOMAIN a.roles, NEW s \in DOMAIN a.roles[profile.role],
             NEW f \in DOMAIN a.roles[profile.role][s]
      PROVE  signals[s][f] = a.roles[profile.role][s][f]
  <2> DEFINE role == profile.role
             p == spec.roles[role][s]
  <2>1. role \in DOMAIN spec.roles /\ s \in DOMAIN spec.roles[role]
    BY <1>1, <1>3 DEF Has
  <2>2. Within(Patch(a, role, s), Patch(spec, role, s))
    BY <1>1 DEF Has
  <2>3. Patch(a, role, s) = a.roles[role][s] /\ Patch(spec, role, s) = p
    BY <1>3, <2>1 DEF Patch
  <2>4. f \in DOMAIN p /\ p[f] = a.roles[role][s][f]
    BY <1>3, <2>2, <2>3 DEF Within
  <2>5. p \in Patches
    BY <1>1, <2>1, SpecIs
  <2>6. s \in DOMAIN spec.signals
    BY <1>1, <2>1, ValidIs
  <2>7. spec.signals[s] \in Signals
    BY <1>1, <2>6, SpecIs
  <2>8. signals[s] = Apply(spec.signals[s], p)
    BY <2>1, <2>6 DEF SetUp, SignalsForRole
  <2>9. Apply(spec.signals[s], p)[f] = p[f]
    BY <2>4, <2>5, <2>7, ApplyIs
  <2> QED
    BY <2>4, <2>8, <2>9
<1> QED
  BY <1>2, <1>3

\* A composition that is accepted is what each of its authors wrote (merge, overlay): for all files.
THEOREM AuthoredHolds == Spec => []Authored
  BY SetUpHolds, AuthoredIs, PTL

\* Turned round twice is as it was.
LEMMA ReverseTwice ==
    ASSUME NEW s \in Seq(STRING)
    PROVE  Reverse(s) \in Seq(STRING) /\ Len(Reverse(s)) = Len(s) /\ Reverse(Reverse(s)) = s
<1> DEFINE n == Len(s)
           t == Reverse(s)
<1>1. n \in Nat /\ t = [i \in 1..n |-> s[n - i + 1]] /\ s = [i \in 1..n |-> s[i]]
      /\ \A i \in 1..n : s[i] \in STRING
  BY DEF Reverse
<1>2. \A i \in 1..n : n - i + 1 \in 1..n /\ n - (n - i + 1) + 1 = i
  BY <1>1
<1> HIDE DEF n, t
<1>3. t \in [1..n -> STRING]
  BY <1>1, <1>2
<1>a. n \in Nat
  BY <1>1
<1>4. t \in Seq(STRING) /\ Len(t) = n
  BY <1>a, <1>3
<1>5. Reverse(t) = [i \in 1..n |-> t[n - i + 1]]
  BY <1>4 DEF Reverse
<1>6. \A i \in 1..n : t[n - i + 1] = s[i]
  BY <1>1, <1>2
<1>7. Reverse(t) = s
  BY <1>1, <1>5, <1>6
<1> QED
  BY <1>4, <1>7 DEF t, n

\* The authors of a node, however its services are named.
LEMMA AuthorsFit ==
    ASSUME OverlaysValid, SharedAlike, SetUp, NEW services \in Seq(STRING),
           \A i \in 1..Len(services) : services[i] \in ToSet(profile.services)
    PROVE  LET A(j) == Author(profile.base, services, j) IN
           /\ \A j \in 0..Len(services) : A(j) = Refused \/ Valid(A(j))
           /\ \A j, k \in 0..Len(services) : \A s \in DOMAIN A(j).signals \cap DOMAIN A(k).signals :
                SameSignal(A(j).signals[s], A(k).signals[s]) => A(j).signals[s] = A(k).signals[s]
<1> DEFINE A(j) == Author(profile.base, services, j)
<1>1. ASSUME NEW j \in 0..Len(services) PROVE A(j) \in Authors(profile)
  <2>1. CASE j = 0
    BY <2>1 DEF Author, Authors
  <2>2. CASE j # 0
    <3>1. j \in 1..Len(services)
      BY <2>2
    <3> QED
      BY <2>2, <3>1 DEF Author, Authors
  <2> QED
    BY <2>1, <2>2
<1>2. \A j \in 0..Len(services) : A(j) = Refused \/ Valid(A(j))
  <2> HIDE DEF A
  <2> QED
    BY <1>1 DEF OverlaysValid, SetUp
<1>3. \A j, k \in 0..Len(services) : \A s \in DOMAIN A(j).signals \cap DOMAIN A(k).signals :
        SameSignal(A(j).signals[s], A(k).signals[s]) => A(j).signals[s] = A(k).signals[s]
  <2> HIDE DEF A
  <2> QED
    BY <1>1 DEF SharedAlike, SetUp
<1> QED
  BY <1>2, <1>3

\* The services of a node in the other order give what they give in this one.
LEMMA EitherOrderIs == OverlaysValid /\ SharedAlike /\ SetUp => EitherOrder
<1> SUFFICES ASSUME OverlaysValid, SharedAlike, SetUp PROVE EitherOrder
  OBVIOUS
<1> DEFINE b == profile.base
           s == profile.services
           t == Reverse(s)
           here == Compose(b, s)
           there == Compose(b, t)
<1>1. s \in Seq(STRING) /\ t \in Seq(STRING) /\ Len(t) = Len(s) /\ Reverse(t) = s /\ Len(s) \in Nat
  BY ReverseTwice, ProfilesAssumption DEF SetUp
<1>2. \A i \in 1..Len(s) : s[i] \in ToSet(s)
  BY <1>1 DEF ToSet
<1>3. \A i \in 1..Len(t) : t[i] \in ToSet(s)
  <2>1. \A i \in 1..Len(s) : Len(s) - i + 1 \in 1..Len(s)
    BY <1>1
  <2>2. \A i \in 1..Len(s) : t[i] = s[Len(s) - i + 1]
    BY DEF Reverse
  <2> HIDE DEF t, s
  <2> QED
    BY <1>1, <1>2, <2>1, <2>2
<1>4. here # Refused => there # Refused /\ Inside(there, here)
  BY <1>1, <1>2, AuthorsFit, OneWay
<1>5. there # Refused => Compose(b, Reverse(t)) # Refused /\ Inside(Compose(b, Reverse(t)), there)
  <2> HIDE DEF t
  <2> QED
    BY <1>1, <1>3, AuthorsFit, OneWay
<1>6. there # Refused => here # Refused /\ Inside(here, there)
  BY <1>1, <1>5
<1>7. here \in AllSpecs /\ there \in AllSpecs
  <2>1. \A x \in Seq(STRING) : Compose(b, x) \in AllSpecs
    <3>1. ASSUME NEW x \in Seq(STRING) PROVE Compose(b, x) \in AllSpecs
      <4>1. PICK u : ComposedUpto(u, b, x)
        BY ComposeRun
      <4>2. Len(x) \in 0..Len(x)
        OBVIOUS
      <4> QED
        BY <4>1, <4>2 DEF ComposedUpto
    <3> QED
      BY <3>1
  <2> QED
    BY <1>1, <2>1
<1> HIDE DEF here, there
<1>8. /\ (here = Refused) = (there = Refused) /\ here.signals = there.signals
      /\ here.roles = there.roles /\ ToSet(here.contexts) = ToSet(there.contexts)
  <2>1. CASE here = Refused
    BY <1>6, <2>1
  <2>2. CASE here # Refused
    BY <1>4, <1>6, <1>7, <2>2, InsideBoth
  <2> QED
    BY <2>1, <2>2
<1> QED
  BY <1>8 DEF EitherOrder, SetUp, here, there

\* What the authors of a node's files wrote is what the node has, and the order of its services
\* decides nothing: for all files whose overlays are valid and whose shared signals are alike.
THEOREM ComposedHolds ==
    ASSUME OverlaysValid, SharedAlike
    PROVE  Spec => []Composed
<1>1. SetUp => Composed
  BY AuthoredIs, EitherOrderIs DEF Composed
<1> QED
  BY <1>1, SetUpHolds, PTL

-----------------------------------------------------------------------------
(* One tick. *)

\* The attributes of a node and of a chart are numbers.
LEMMA AttrIs ==
    ASSUME SetUp, NEW chart \in ToSet(plan), NEW name
    PROVE  ResolveAttr(chart, name) \in Int
<1>1. \A m, k : IsAttrs(m) /\ k \in DOMAIN m => m[k] \in Int
  BY DEF IsAttrs
<1>2. IsAttrs(profile.attrs)
  BY ProfilesAssumption DEF SetUp
<1>3. IsAttrs(chart.attrs) \/ chart.attrs = Nothing
  <2>1. \A g \in DOMAIN profile.instances :
            /\ profile.instances[g] \in Seq(ToSet(profile.instances[g]))
            /\ \A i \in ToSet(profile.instances[g]) : IsInstance(i)
    BY ProfilesAssumption DEF SetUp
  <2>2. spec.contexts \in Seq(Contexts)
    BY SpecHas, SpecIs
  <2>3. plan \in Seq(Possible(spec.contexts, profile.instances))
    BY <2>1, <2>2, PlanIs DEF SetUp
  <2>4. chart \in Possible(spec.contexts, profile.instances)
    BY <2>3 DEF ToSet
  <2>5. \/ chart.scope = "" /\ chart.weight = 100 /\ chart.attrs = Nothing
        \/ \E g \in DOMAIN profile.instances : \E x \in ToSet(profile.instances[g]) :
                chart.scope = x.name /\ chart.weight = x.weight /\ chart.attrs = x.attrs
    BY <2>1, <2>2, <2>4, PossibleIs
  <2>6. \A x : IsInstance(x) => IsAttrs(x.attrs)
    BY DEF IsInstance
  <2> QED
    BY <2>1, <2>5, <2>6
<1> QED
  BY <1>1, <1>2, <1>3, NothingIs DEF ResolveAttr

\* A chart of the plan reads signals that the node has.
LEMMA ChartIs ==
    ASSUME SetUp, spec # Refused, NEW chart \in ToSet(plan)
    PROVE  /\ chart.context \in DOMAIN spec.contexts /\ Shape(chart) \in Shapes
           /\ ValidShape(Shape(chart))
           /\ \A s \in ToSet(Reads(Shape(chart))) : s \in DOMAIN signals /\ signals[s] \in Signals
           /\ chart.weight \in Int
           /\ \/ chart.scope = "" /\ chart.weight = 100 /\ chart.attrs = Nothing
              \/ \E g \in DOMAIN profile.instances : \E x \in ToSet(profile.instances[g]) :
                    chart.scope = x.name /\ chart.weight = x.weight /\ chart.attrs = x.attrs
<1>1. \A g \in DOMAIN profile.instances :
        /\ profile.instances[g] \in Seq(ToSet(profile.instances[g]))
        /\ \A i \in ToSet(profile.instances[g]) : IsInstance(i)
  BY ProfilesAssumption DEF SetUp
<1>2. spec \in AllSpecs /\ Valid(spec) /\ spec.contexts \in Seq(Contexts)
  BY SpecHas, SpecIs
<1>3. chart \in Possible(spec.contexts, profile.instances)
  <2>1. plan \in Seq(Possible(spec.contexts, profile.instances))
    BY <1>1, <1>2, PlanIs DEF SetUp
  <2> QED
    BY <2>1 DEF ToSet
<1>4. /\ chart.context \in DOMAIN spec.contexts
      /\ \/ chart.scope = "" /\ chart.weight = 100 /\ chart.attrs = Nothing
         \/ \E g \in DOMAIN profile.instances : \E x \in ToSet(profile.instances[g]) :
                chart.scope = x.name /\ chart.weight = x.weight /\ chart.attrs = x.attrs
  BY <1>1, <1>2, <1>3, PossibleIs
<1>5. chart.weight \in Int
  <2>1. \A x : IsInstance(x) => x.weight \in Int
    BY DEF IsInstance
  <2>2. CASE chart.weight = 100
    BY <2>2
  <2>3. CASE \E g \in DOMAIN profile.instances : \E x \in ToSet(profile.instances[g]) :
                chart.weight = x.weight
    <3>1. PICK g \in DOMAIN profile.instances : \E x \in ToSet(profile.instances[g]) :
                chart.weight = x.weight
      BY <2>3
    <3>2. PICK x \in ToSet(profile.instances[g]) : chart.weight = x.weight
      BY <3>1
    <3>3. IsInstance(x)
      BY <1>1, <3>2
    <3> QED
      BY <2>1, <3>2, <3>3
  <2> QED
    BY <1>4, <2>2, <2>3
<1>6. Shape(chart) \in Shapes /\ ValidShape(Shape(chart))
      /\ ToSet(Reads(Shape(chart))) \subseteq DOMAIN spec.signals
  <2> DEFINE s == spec.contexts
             k == chart.context
  <2>1. spec.contexts[chart.context] \in Contexts
    <3>1. s \in Seq(Contexts) /\ k \in DOMAIN s
      BY <1>2, <1>4
    <3> HIDE DEF s, k
    <3>2. s[k] \in Contexts
      BY <3>1
    <3> QED
      BY <3>2 DEF s, k
  <2> QED
    BY <1>2, <1>4, <2>1 DEF Shape, Valid, Contexts
<1>7. DOMAIN signals = DOMAIN spec.signals
  BY DEF SetUp, SignalsForRole
<1>8. ASSUME NEW s \in DOMAIN spec.signals PROVE signals[s] \in Signals
  <2>1. spec.signals[s] \in Signals
    BY <1>2, SpecIs
  <2>2. CASE profile.role \in DOMAIN spec.roles /\ s \in DOMAIN spec.roles[profile.role]
    <3>1. spec.roles[profile.role][s] \in Patches
      BY <1>2, <2>2, SpecIs
    <3>2. signals[s] = Apply(spec.signals[s], spec.roles[profile.role][s])
      BY <2>2 DEF SetUp, SignalsForRole
    <3> QED
      BY <2>1, <3>1, <3>2, ApplyIs
  <2>3. CASE ~(profile.role \in DOMAIN spec.roles /\ s \in DOMAIN spec.roles[profile.role])
    <3>1. signals[s] = spec.signals[s]
      BY <2>3 DEF SetUp, SignalsForRole
    <3> QED
      BY <2>1, <3>1
  <2> QED
    BY <2>2, <2>3
<1> QED
  BY <1>4, <1>5, <1>6, <1>7, <1>8

\* A signal has a number as its value.
LEMMA EvalIs ==
    ASSUME NEW signal \in Signals, NEW weight \in Int, NEW fault, NEW noise \in Int,
           fault.multiplier \in Int, fault.additive \in Int
    PROVE  EvalSignal(signal, weight, fault, noise) \in Int
<1> DEFINE w == Weight(signal, weight)
           level == (signal.base * w * fault.multiplier) \div 100 + fault.additive
           value == level + ((IF level < 0 THEN -level ELSE level) * noise) \div 100
<1>0. signal.base \in Int /\ signal.min \in Int /\ signal.max \in Int
  BY DEF Signals
<1>1. w \in Int
  BY DEF Weight
<1> HIDE DEF w
<1>2. signal.base * w * fault.multiplier \in Int
  BY <1>0, <1>1
<1>3. level \in Int
  <2> DEFINE x == signal.base * w * fault.multiplier
  <2> HIDE DEF x
  <2>1. x \in Int => x \div 100 + fault.additive \in Int
    OBVIOUS
  <2> QED
    BY <1>2, <2>1 DEF x
<1> HIDE DEF level
<1>4. value \in Int
  <2> DEFINE x == (IF level < 0 THEN -level ELSE level) * noise
  <2>1. x \in Int
    BY <1>3
  <2> HIDE DEF x
  <2>2. x \div 100 \in Int
    BY <2>1
  <2> QED
    BY <1>3, <2>2 DEF x
<1> HIDE DEF value
<1>5. Floor(signal, w) \in Int
  <2>1. signal.min * w \in Int
    BY <1>0, <1>1
  <2>2. \A x \in Int : x \div 100 \in Int
    OBVIOUS
  <2> QED
    BY <1>0, <2>1, <2>2 DEF Floor
<1>6. Ceiling(signal, w, fault) \in Int
  <2>1. AtLeast(fault.multiplier, 1) \in Int /\ AtLeast(fault.additive, 0) \in Int
    BY DEF AtLeast
  <2>2. signal.max * w \in Int /\ signal.max * w * AtLeast(fault.multiplier, 1) \in Int
    BY <1>0, <1>1, <2>1
  <2>3. \A x \in Int : x \div 100 \in Int
    OBVIOUS
  <2> DEFINE m == signal.max * w * AtLeast(fault.multiplier, 1)
             o == signal.max * w
             d == AtLeast(fault.additive, 0)
  <2>4. m \in Int /\ o \in Int /\ d \in Int
    BY <2>1, <2>2
  <2> HIDE DEF m, o, d
  <2>5. m \div 100 + d \in Int /\ o \div 100 \in Int
    BY <2>3, <2>4
  <2> QED
    BY <2>5 DEF Ceiling, m, o, d
<1>7. EvalSignal(signal, weight, fault, noise) = Clamp(value, Floor(signal, w), Ceiling(signal, w, fault))
  BY DEF EvalSignal, w, level, value
<1> QED
  BY <1>4, <1>5, <1>6, <1>7 DEF Clamp

\* A chart settles the value of a stream by a signal that it reads.
Settles(chart, name, fault, noise, key) ==
    /\ chart \in ToSet(plan) /\ name \in ToSet(Reads(Shape(chart))) /\ Key(chart, name) = key
    /\ Values(fault, noise)[key] =
            IF signals[name].from_attr # "" THEN ResolveAttr(chart, signals[name].from_attr)
            ELSE EvalSignal(signals[name], chart.weight, Perturbation(fault, name), noise[key])

\* The chart that asks for a stream first does.
LEMMA ValueOf ==
    ASSUME SetUp, spec # Refused, NEW fault, NEW noise, NEW key \in Streams
    PROVE  \E chart, name : Settles(chart, name, fault, noise, key)
<1> DEFINE at == {i \in DOMAIN plan : Asked(plan[i], key) # {}}
           chart == plan[Earliest(at)]
           name == CHOOSE s \in Asked(chart, key) : TRUE
<1>1. PICK c \in ToSet(plan) : \E s \in ToSet(Reads(Shape(c))) : key = Key(c, s)
  BY DEF Streams
<1>2. PICK i \in DOMAIN plan : plan[i] = c
  BY <1>1 DEF ToSet
<1>3. i \in at
  BY <1>1, <1>2 DEF Asked
<1>4. at \subseteq Nat
  <2>1. plan \in Seq(Possible(spec.contexts, profile.instances))
    BY ProfilesAssumption, SpecHas, SpecIs, PlanIs DEF SetUp
  <2>2. DOMAIN plan \subseteq Nat
    BY <2>1
  <2> QED
    BY <2>2
<1>5. Earliest(at) \in at
  <2> HIDE DEF at
  <2> QED
    BY <1>3, <1>4, NatLeast DEF Earliest
<1>6. chart \in ToSet(plan) /\ Asked(chart, key) # {}
  BY <1>5 DEF ToSet
<1>7. Values(fault, noise)[key] =
        IF signals[name].from_attr # "" THEN ResolveAttr(chart, signals[name].from_attr)
        ELSE EvalSignal(signals[name], chart.weight, Perturbation(fault, name), noise[key])
  BY DEF Values
<1> HIDE DEF chart, at
<1>8. name \in Asked(chart, key)
  BY <1>6
<1> HIDE DEF name
<1>9. name \in ToSet(Reads(Shape(chart))) /\ Key(chart, name) = key
  BY <1>8 DEF Asked
<1>10. Settles(chart, name, fault, noise, key)
  BY <1>6, <1>7, <1>9 DEF Settles
<1> QED
  BY <1>10

\* Every stream has a number as its value.
LEMMA ValuesIs ==
    ASSUME SetUp, spec # Refused, NEW fault \in Faults, NEW noise \in [Streams -> Noise]
    PROVE  Values(fault, noise) \in [Streams -> Int]
<1>1. ASSUME NEW key \in Streams PROVE Values(fault, noise)[key] \in Int
  <2>1. PICK chart, name : Settles(chart, name, fault, noise, key)
    BY ValueOf
  <2>2. /\ chart \in ToSet(plan) /\ name \in ToSet(Reads(Shape(chart)))
        /\ Values(fault, noise)[key] =
                IF signals[name].from_attr # "" THEN ResolveAttr(chart, signals[name].from_attr)
                ELSE EvalSignal(signals[name], chart.weight, Perturbation(fault, name), noise[key])
    BY <2>1 DEF Settles
  <2>3. signals[name] \in Signals /\ chart.weight \in Int
    BY <2>2, ChartIs
  <2>4. noise[key] \in Int
    BY NumbersAssumption
  <2>5. Perturbation(fault, name).multiplier \in Int /\ Perturbation(fault, name).additive \in Int
    BY FaultsAssumption DEF Perturbation
  <2>6. ResolveAttr(chart, signals[name].from_attr) \in Int
    BY <2>2, AttrIs
  <2>7. EvalSignal(signals[name], chart.weight, Perturbation(fault, name), noise[key]) \in Int
    BY <2>3, <2>4, <2>5, EvalIs
  <2> QED
    BY <2>2, <2>6, <2>7
<1>2. Values(fault, noise) = [key \in Streams |-> Values(fault, noise)[key]]
  BY DEF Values
<1> QED
  BY <1>1, <1>2

\* What has been set up gives the same samples and lines of the same values.
LEMMA SameTick ==
    ASSUME profile' = profile, spec' = spec, signals' = signals, plan' = plan
    PROVE  /\ Cells' = Cells /\ Streams' = Streams
           /\ \A c, v, a : SampleChart(c, v, a)' = SampleChart(c, v, a)
           /\ \A v : Lines(v)' = Lines(v)
<1>1. Cells' = Cells
  BY DEF Cells, Shape
<1>2. Streams' = Streams
  BY DEF Streams, Shape, Key
<1>3. ASSUME NEW c, NEW v, NEW a PROVE SampleChart(c, v, a)' = SampleChart(c, v, a)
  BY DEF SampleChart, Dim, Name, Shape, Counts, Part, Driver, Total, ResolveAttr, Key
<1>4. ASSUME NEW v PROVE Lines(v)' = Lines(v)
  BY DEF Lines, Said, InstancesFor, HasService, Group, Capacity, Observed, Severe, Used
<1> QED
  BY <1>1, <1>2, <1>3, <1>4

\* The samples are those of the values of the last tick.
Sampled ==
    \/ sample = Nothing
    \/ /\ spec # Refused /\ drawn \in [Streams -> Int]
       /\ sample = [c \in Cells |-> SampleChart(c, drawn, counters)]

LEMMA SampledHolds == Spec => []Sampled
<1>1. Init => Sampled
  BY DEF Init, Sampled
<1>2. SetUp /\ Sampled /\ [Next]_engineVars => Sampled'
  <2> SUFFICES ASSUME SetUp, Sampled, [Next]_engineVars PROVE Sampled'
    OBVIOUS
  <2>0. profile' = profile /\ spec' = spec /\ signals' = signals /\ plan' = plan
    BY DEF Next, EngineTick, LogsTick, engineVars
  <2>1. /\ Cells' = Cells /\ Streams' = Streams
        /\ \A c, v, a : SampleChart(c, v, a)' = SampleChart(c, v, a)
    BY <2>0, SameTick
  <2>2. CASE EngineTick
    <3>1. PICK fault \in Faults, noise \in [Streams -> Noise] :
            /\ drawn' = Values(fault, noise)
            /\ counters' = Accumulated(Values(fault, noise))
            /\ sample' = [c \in Cells |-> SampleChart(c, Values(fault, noise), Accumulated(Values(fault, noise)))]
      BY <2>2 DEF EngineTick
    <3>2. spec # Refused
      BY <2>2 DEF EngineTick
    <3> DEFINE v == Values(fault, noise)
               a == Accumulated(v)
    <3>3. v \in [Streams -> Int]
      BY <3>2, ValuesIs
    <3>4. drawn' = v /\ counters' = a /\ sample' = [c \in Cells |-> SampleChart(c, v, a)]
      BY <3>1
    <3> HIDE DEF v, a
    <3>5. drawn' \in [Streams' -> Int]
      BY <2>1, <3>3, <3>4
    <3>6. sample' = [c \in Cells' |-> SampleChart(c, drawn, counters)']
      BY <2>1, <3>4
    <3> QED
      BY <2>0, <3>2, <3>5, <3>6 DEF Sampled
  <2>3. CASE ~EngineTick
    <3>1. sample' = sample /\ drawn' = drawn /\ counters' = counters
      BY <2>3, RestsIs DEF Rests
    <3> QED
      BY <2>0, <2>1, <3>1 DEF Sampled
  <2> QED
    BY <2>2, <2>3
<1> QED
  BY <1>1, <1>2, SetUpHolds, PTL DEF Spec

\* The lines are those of the values that the logs process has read.
Told ==
    \/ lines = {}
    \/ spec # Refused /\ told \in [Streams -> Int] /\ lines = Lines(told)

LEMMA ToldHolds == Spec => []Told
<1>1. Init => Told
  BY DEF Init, Told
<1>2. SetUp /\ Told /\ [Next]_engineVars => Told'
  <2> SUFFICES ASSUME SetUp, Told, [Next]_engineVars PROVE Told'
    OBVIOUS
  <2>0. profile' = profile /\ spec' = spec /\ signals' = signals /\ plan' = plan
    BY DEF Next, EngineTick, LogsTick, engineVars
  <2>1. Streams' = Streams /\ \A v : Lines(v)' = Lines(v)
    BY <2>0, SameTick
  <2>2. CASE LogsTick
    <3>1. PICK fault \in Faults, noise \in [Streams -> Noise] : told' = Values(fault, noise)
      BY <2>2 DEF LogsTick
    <3>2. spec # Refused /\ lines' = Lines(told')
      BY <2>2 DEF LogsTick
    <3> DEFINE v == Values(fault, noise)
    <3>3. v \in [Streams -> Int] /\ told' = v /\ lines' = Lines(v)
      BY <3>1, <3>2, ValuesIs
    <3> HIDE DEF v
    <3>4. told' \in [Streams' -> Int] /\ lines' = Lines(told)'
      BY <2>1, <3>3
    <3> QED
      BY <2>0, <3>2, <3>4 DEF Told
  <2>3. CASE ~LogsTick
    <3>1. told' = told /\ lines' = lines
      BY <2>3 DEF Next, EngineTick, engineVars
    <3> QED
      BY <2>0, <2>1, <3>1 DEF Told
  <2> QED
    BY <2>2, <2>3
<1> QED
  BY <1>1, <1>2, SetUpHolds, PTL DEF Spec

-----------------------------------------------------------------------------
(* One value, wherever it is shown. *)

\* A cell is a dimension of a chart.
LEMMA CellIs ==
    ASSUME NEW c \in Cells
    PROVE  /\ c[1] \in DOMAIN plan /\ plan[c[1]] \in ToSet(plan)
           /\ c[2] \in DOMAIN Shape(plan[c[1]]).dims
           /\ Dim(c) = Shape(plan[c[1]]).dims[c[2]]
<1>1. PICK i \in DOMAIN plan : c \in {i} \X DOMAIN Shape(plan[i]).dims
  BY DEF Cells
<1>2. c[1] = i /\ c[2] \in DOMAIN Shape(plan[i]).dims
  BY <1>1
<1> QED
  BY <1>2 DEF Dim, ToSet

\* A chart that shows a signal has its stream.
LEMMA ShownIs ==
    ASSUME NEW c \in Cells, NEW v, NEW a, Shape(plan[c[1]]).kind = "independent"
    PROVE  /\ <<plan[c[1]].scope, Dim(c).signal>> \in Streams
           /\ SampleChart(c, v, a) = Round(v[<<plan[c[1]].scope, Dim(c).signal>>])
<1> DEFINE chart == plan[c[1]]
<1>1. chart \in ToSet(plan) /\ c[2] \in DOMAIN Shape(chart).dims /\ Dim(c) = Shape(chart).dims[c[2]]
  BY CellIs
<1>2. Reads(Shape(chart)) = [i \in DOMAIN Shape(chart).dims |-> Shape(chart).dims[i].signal]
  BY DEF Reads
<1>3. Dim(c).signal \in ToSet(Reads(Shape(chart)))
  BY <1>1, <1>2 DEF ToSet
<1>4. Key(chart, Dim(c).signal) \in Streams
  BY <1>1, <1>3 DEF Streams
<1>5. ~Counts(Shape(chart))
  BY DEF Counts
<1>6. SampleChart(c, v, a) = Round(v[Key(chart, Dim(c).signal)])
  BY <1>5 DEF SampleChart
<1> QED
  BY <1>4, <1>6 DEF Key

\* Charts of one scope show one value of a signal.
LEMMA OneValueIs == Sampled => OneValue
<1> SUFFICES ASSUME Sampled, sample # Nothing, NEW c \in Cells, NEW d \in Cells,
                    Shape(plan[c[1]]).kind = "independent", Shape(plan[d[1]]).kind = "independent",
                    plan[c[1]].scope = plan[d[1]].scope, Dim(c).signal = Dim(d).signal
             PROVE  sample[c] = sample[d]
  BY DEF OneValue
<1>1. sample = [x \in Cells |-> SampleChart(x, drawn, counters)]
  BY DEF Sampled
<1>2. SampleChart(c, drawn, counters) = SampleChart(d, drawn, counters)
  BY ShownIs
<1> QED
  BY <1>1, <1>2

\* A quotient is the one number that leaves a remainder less than the divisor.
LEMMA QuotientIs ==
    ASSUME NEW m \in Int, NEW d \in Nat \ {0}, NEW q \in Int, NEW r \in Int, m = d * q + r, 0 <= r, r < d
    PROVE  m \div d = q
<1> DEFINE p == m \div d
           t == m % d
<1>1. p \in Int /\ t \in Int /\ m = d * p + t /\ 0 <= t /\ t < d
  OBVIOUS
<1> HIDE DEF p, t
<1>2. d * p + t = d * q + r
  BY <1>1
<1>3. d * (p - q) = r - t
  BY <1>1, <1>2
<1>4. ~(p - q >= 1)
  <2> SUFFICES ASSUME p - q >= 1 PROVE FALSE
    OBVIOUS
  <2>1. \A x, y \in Int : x > 0 /\ y >= 1 => x * y >= x
    OBVIOUS
  <2>2. d * (p - q) >= d
    BY <1>1, <2>1
  <2> QED
    BY <1>1, <1>3, <2>2
<1>5. ~(q - p >= 1)
  <2> SUFFICES ASSUME q - p >= 1 PROVE FALSE
    OBVIOUS
  <2>1. \A x, y \in Int : x > 0 /\ y >= 1 => x * y >= x
    OBVIOUS
  <2>2. d * (q - p) >= d
    BY <1>1, <2>1
  <2>3. d * (q - p) = t - r
    BY <1>1, <1>2
  <2> QED
    BY <1>1, <2>2, <2>3
<1>6. p = q
  BY <1>1, <1>4, <1>5
<1> QED
  BY <1>6 DEF p

\* Hundredths are rounded as what they are hundredths of.
LEMMA RoundIs ==
    ASSUME NEW x \in Nat
    PROVE  RoundTo(100 * Unit, 100 * x) = Round(x)
<1> DEFINE a == 2 * x + Unit
           b == 2 * Unit
           q == a \div b
           r == a % b
<1>0. Unit \in Nat \ {0}
  BY NumbersAssumption
<1>1. a \in Nat /\ b \in Nat \ {0}
  BY <1>0
<1>2. Round(x) = q
  BY DEF Round, RoundTo
<1>3. RoundTo(100 * Unit, 100 * x) = (100 * a) \div (100 * b)
  <2>1. 2 * (100 * x) + 100 * Unit = 100 * a /\ 2 * (100 * Unit) = 100 * b /\ 100 * x >= 0
    BY <1>0
  <2> HIDE DEF a, b
  <2> QED
    BY <2>1 DEF RoundTo
<1> HIDE DEF a, b
<1>4. q \in Int /\ r \in Int /\ a = b * q + r /\ 0 <= r /\ r < b
  BY <1>1
<1> HIDE DEF q, r
<1>5. 100 * a = (100 * b) * q + 100 * r
  BY <1>1, <1>4
<1>6. (100 * a) \div (100 * b) = q
  <2>1. 100 * a \in Int /\ 100 * b \in Nat \ {0} /\ 100 * r \in Int /\ 0 <= 100 * r /\ 100 * r < 100 * b
    BY <1>1, <1>4
  <2> QED
    BY <1>4, <1>5, <2>1, QuotientIs
<1> QED
  BY <1>2, <1>3, <1>6

\* What a line of the log is made of.
LEMMA LineIs ==
    ASSUME NEW values, NEW l \in Lines(values)
    PROVE  /\ l.rule \in Rules /\ l.instance \in InstancesFor(l.rule)
           /\ l.capacity \in Capacity(l.rule, l.instance, values) /\ l.capacity > 0
           /\ \E v \in Observed(values, l.instance, l.rule.signal), k \in Capacity(l.rule, l.instance, values) :
                l.value = Used(l.rule, v, k)
<1>1. PICK r \in Rules : l \in UNION {Said(r, i, values) : i \in InstancesFor(r)}
  BY DEF Lines
<1>2. PICK i \in InstancesFor(r) : l \in Said(r, i, values)
  BY <1>1
<1>3. /\ l.rule = r /\ l.instance = i /\ l.capacity \in Capacity(r, i, values)
      /\ l.value \in {Used(r, v, k) : v \in Observed(values, i, r.signal), k \in Capacity(r, i, values)}
  BY <1>2 DEF Said
<1>4. l.capacity > 0
  BY DEF Lines
<1>5. \E v \in Observed(values, i, r.signal), k \in Capacity(r, i, values) : l.value = Used(r, v, k)
  BY <1>3
<1> QED
  BY <1>1, <1>2, <1>3, <1>4, <1>5

\* The size of a volume is that of the charts that show it.
LEMMA SizeIs ==
    ASSUME OneNameOneSize, SetUp, spec # Refused, NEW values, NEW r \in Rules, r.volume, NEW i \in InstancesFor(r),
           NEW chart \in ToSet(plan), chart.scope = i
    PROVE  \A k \in Capacity(r, i, values) : k = ResolveAttr(chart, r.attr)
<1> SUFFICES ASSUME NEW k \in Capacity(r, i, values) PROVE k = ResolveAttr(chart, r.attr)
  OBVIOUS
<1>1. r.limit = "" /\ r.attr # "" /\ r.group # ""
  BY RulesAssumption
<1> DEFINE own == {y \in Group(r.group) : y.name = i /\ r.attr \in DOMAIN y.attrs}
           given == {y.attrs[r.attr] : y \in own}
           shared == {profile.attrs[a] : a \in {r.attr} \cap DOMAIN profile.attrs}
<1>2. k \in IF own # {} THEN given ELSE shared
  BY <1>1 DEF Capacity
<1>3. PICK x \in Group(r.group) : x.name = i
  BY <1>1 DEF InstancesFor
<1>4. r.group \in DOMAIN profile.instances /\ Group(r.group) = ToSet(profile.instances[r.group])
  BY <1>3 DEF Group
<1>5. chart.attrs = x.attrs
  <2>1. i # ""
    BY <1>3, <1>4 DEF OneNameOneSize, SetUp
  <2>2. PICK g \in DOMAIN profile.instances : \E y \in ToSet(profile.instances[g]) :
            chart.scope = y.name /\ chart.attrs = y.attrs
    BY <2>1, ChartIs
  <2>3. PICK y \in ToSet(profile.instances[g]) : chart.scope = y.name /\ chart.attrs = y.attrs
    BY <2>2
  <2>4. profile \in Profiles /\ x \in ToSet(profile.instances[r.group])
    BY <1>3, <1>4 DEF SetUp
  <2>5. y.name = x.name => y.attrs = x.attrs
    BY <1>4, <2>3, <2>4 DEF OneNameOneSize
  <2> QED
    BY <1>3, <2>3, <2>5
<1>6. \A y \in own : y.attrs = x.attrs
  <2> TAKE y \in own
  <2>1. y \in Group(r.group) /\ y.name = i
    OBVIOUS
  <2>2. y \in ToSet(profile.instances[r.group]) /\ x \in ToSet(profile.instances[r.group])
    BY <2>1, <1>3, <1>4
  <2>3. profile \in Profiles
    BY DEF SetUp
  <2> HIDE DEF own, given, shared
  <2> QED
    BY <1>3, <1>4, <2>1, <2>2, <2>3 DEF OneNameOneSize
<1>7. CASE r.attr \in DOMAIN x.attrs
  <2>1. x \in own
    BY <1>3, <1>7
  <2>2. k \in given
    BY <1>2, <2>1
  <2>3. PICK y \in own : k = y.attrs[r.attr]
    BY <2>2
  <2> QED
    BY <1>5, <1>6, <1>7, <2>3 DEF ResolveAttr
<1>8. CASE r.attr \notin DOMAIN x.attrs
  <2>1. own = {}
    BY <1>6, <1>8
  <2>2. k \in shared
    BY <1>2, <2>1
  <2>3. r.attr \in DOMAIN profile.attrs /\ k = profile.attrs[r.attr]
    BY <2>2
  <2> QED
    BY <1>5, <1>8, <2>3 DEF ResolveAttr
<1> QED
  BY <1>7, <1>8

\* Charts of one scope show one value of a signal, for all files, nodes, faults and noise.
THEOREM OneValueHolds == Spec => []OneValue
  BY SampledHolds, OneValueIs, PTL

-----------------------------------------------------------------------------
(* Sums. *)

\* A sum grows by one term after the other.
LEMMA AddedIs ==
    ASSUME NEW n \in Nat, NEW t \in [1..n -> Int]
    PROVE  \E u \in [0..n -> Int] :
               u[0] = 0 /\ (\A i \in 1..n : u[i] = u[i - 1] + t[i]) /\ Added(t) = u[n]
<1> DEFINE A == Int
           R(f) == [i \in 0..n |-> IF i = 0 THEN 0 ELSE f[i - 1] + t[i]]
           step == [i \in 1..n |-> [a \in A |-> a + t[i]]]
           u == CHOOSE f : f = R(f)
<1>0. Len(t) = n
  <2>1. t \in Seq(Int) /\ DOMAIN t = 1..n
    OBVIOUS
  <2> QED
    BY <2>1, LenProperties
<1>1. 0 \in A /\ step \in [1..n -> [A -> A]]
  OBVIOUS
<1>2. PICK f : Run(f, A, n, 0, step)
  <2> HIDE DEF step, A
  <2> QED
    BY <1>1, RunExists
<1>3. f = R(f)
  <2>0. f \in [0..n -> A] /\ f[0] = 0 /\ \A i \in 1..n : f[i] = step[i][f[i - 1]]
    BY <1>2 DEF Run
  <2>1. ASSUME NEW i \in 0..n PROVE f[i] = R(f)[i]
    <3>1. CASE i = 0
      BY <2>0, <3>1
    <3>2. CASE i # 0
      <4>1. i \in 1..n /\ i - 1 \in 0..n
        BY <3>2
      <4>2. f[i - 1] \in A /\ f[i] = step[i][f[i - 1]]
        BY <2>0, <4>1
      <4> QED
        BY <3>2, <4>1, <4>2
    <3> QED
      BY <3>1, <3>2
  <2> HIDE DEF step, A
  <2> QED
    BY <2>0, <2>1
<1>4. u = R(u)
  BY <1>3
<1>5. Added(t) = u[n]
  BY <1>0 DEF Added
<1> HIDE DEF u
<1>6. u[0] = 0 /\ \A i \in 1..n : u[i] = u[i - 1] + t[i]
  <2>1. 0 \in 0..n /\ \A i \in 1..n : i \in 0..n /\ i # 0
    OBVIOUS
  <2> QED
    BY <1>4, <2>1
<1>7. \A i \in 0..n : u[i] \in Int
  <2>1. u[0] \in Int /\ \A i \in 1..n : u[i - 1] \in Int => u[i] \in Int
    BY <1>6
  <2> QED
    BY <2>1, StaysIn
<1>8. u \in [0..n -> Int]
  BY <1>4, <1>7
<1> QED
  BY <1>5, <1>6, <1>8

\* Sums are as far apart as their terms, taken together.
LEMMA AddedClose ==
    ASSUME NEW n \in Nat, NEW s \in [1..n -> Int], NEW t \in [1..n -> Int], NEW a \in Int, NEW b \in Int,
           NEW e \in Nat, \A i \in 1..n : -e <= a * s[i] - b * t[i] /\ a * s[i] - b * t[i] <= e
    PROVE  /\ Added(s) \in Int /\ Added(t) \in Int
           /\ -(n * e) <= a * Added(s) - b * Added(t) /\ a * Added(s) - b * Added(t) <= n * e
<1>1. PICK p \in [0..n -> Int] : p[0] = 0 /\ (\A i \in 1..n : p[i] = p[i - 1] + s[i]) /\ Added(s) = p[n]
  BY AddedIs
<1>2. PICK q \in [0..n -> Int] : q[0] = 0 /\ (\A i \in 1..n : q[i] = q[i - 1] + t[i]) /\ Added(t) = q[n]
  BY AddedIs
<1> DEFINE S == {i \in 0..n : -(i * e) <= a * p[i] - b * q[i] /\ a * p[i] - b * q[i] <= i * e}
<1>3. 0 \in S
  <2>1. a * p[0] = 0 /\ b * q[0] = 0 /\ 0 * e = 0
    BY <1>1, <1>2
  <2> QED
    BY <2>1
<1>4. ASSUME NEW i \in 0..n, i \in S, i # n PROVE i + 1 \in S
  <2>1. i + 1 \in 1..n /\ (i + 1) - 1 = i /\ i \in Nat /\ i + 1 \in 0..n
    BY <1>4
  <2> DEFINE x == p[i]
             y == q[i]
             f == s[i + 1]
             g == t[i + 1]
  <2>2. x \in Int /\ y \in Int /\ f \in Int /\ g \in Int
    BY <2>1
  <2>3. p[i + 1] = x + f /\ q[i + 1] = y + g
    BY <1>1, <1>2, <2>1
  <2>4. -(i * e) <= a * x - b * y /\ a * x - b * y <= i * e
    BY <1>4
  <2>5. -e <= a * f - b * g /\ a * f - b * g <= e
    BY <2>1
  <2> HIDE DEF x, y, f, g
  <2>6. a * (x + f) - b * (y + g) = (a * x - b * y) + (a * f - b * g) /\ (i + 1) * e = i * e + e
    BY <2>1, <2>2
  <2>7. -((i + 1) * e) <= a * (x + f) - b * (y + g) /\ a * (x + f) - b * (y + g) <= (i + 1) * e
    <3> DEFINE h == a * x - b * y
               k == a * f - b * g
               m == i * e
    <3>1. h \in Int /\ k \in Int /\ m \in Int
      BY <2>1, <2>2
    <3>2. a * (x + f) - b * (y + g) = h + k /\ (i + 1) * e = m + e /\ -m <= h /\ h <= m /\ -e <= k /\ k <= e
      BY <2>4, <2>5, <2>6
    <3> HIDE DEF h, k, m
    <3> QED
      BY <3>1, <3>2
  <2> QED
    BY <2>1, <2>3, <2>7
<1>5. n \in S
  <2> HIDE DEF S
  <2>1. 0..n \subseteq S
    BY <1>3, <1>4, Inductively
  <2> QED
    BY <2>1
<1> QED
  BY <1>1, <1>2, <1>5

\* A sum is less far above another if one of its terms is.
LEMMA AddedBelow ==
    ASSUME NEW n \in Nat, NEW s \in [1..n -> Int], NEW t \in [1..n -> Int], NEW a \in Int, NEW b \in Int,
           NEW e \in Nat, \A i \in 1..n : a * s[i] - b * t[i] <= e,
           NEW j \in 1..n, a * s[j] - b * t[j] < e
    PROVE  a * Added(s) - b * Added(t) < n * e
<1>1. PICK p \in [0..n -> Int] : p[0] = 0 /\ (\A i \in 1..n : p[i] = p[i - 1] + s[i]) /\ Added(s) = p[n]
  BY AddedIs
<1>2. PICK q \in [0..n -> Int] : q[0] = 0 /\ (\A i \in 1..n : q[i] = q[i - 1] + t[i]) /\ Added(t) = q[n]
  BY AddedIs
<1> DEFINE S == {i \in 0..n : /\ a * p[i] - b * q[i] <= i * e
                              /\ j <= i => a * p[i] - b * q[i] < i * e}
<1>3. 0 \in S
  <2>1. a * p[0] = 0 /\ b * q[0] = 0 /\ 0 * e = 0
    BY <1>1, <1>2
  <2> QED
    BY <2>1
<1>4. ASSUME NEW i \in 0..n, i \in S, i # n PROVE i + 1 \in S
  <2>1. i + 1 \in 1..n /\ (i + 1) - 1 = i /\ i \in Nat /\ i + 1 \in 0..n
    BY <1>4
  <2> DEFINE x == p[i]
             y == q[i]
             f == s[i + 1]
             g == t[i + 1]
             h == a * x - b * y
             k == a * f - b * g
             m == i * e
  <2>2. x \in Int /\ y \in Int /\ f \in Int /\ g \in Int
    BY <2>1
  <2>3. p[i + 1] = x + f /\ q[i + 1] = y + g
    BY <1>1, <1>2, <2>1
  <2>4. h <= m /\ (j <= i => h < m)
    BY <1>4
  <2>5. k <= e /\ (j = i + 1 => k < e)
    BY <2>1
  <2> HIDE DEF x, y, f, g
  <2>6. a * (x + f) - b * (y + g) = h + k /\ (i + 1) * e = m + e /\ h \in Int /\ k \in Int /\ m \in Int
    BY <2>1, <2>2
  <2> HIDE DEF h, k, m
  <2>7. h + k <= m + e /\ (j <= i + 1 => h + k < m + e)
    <3>1. h + k <= m + e
      BY <2>4, <2>5, <2>6
    <3>2. CASE j <= i
      BY <2>4, <2>5, <2>6, <3>1, <3>2
    <3>3. CASE j = i + 1
      BY <2>4, <2>5, <2>6, <3>1, <3>3
    <3>4. j <= i + 1 => j <= i \/ j = i + 1
      BY <2>1
    <3> QED
      BY <3>1, <3>2, <3>3, <3>4
  <2>8. /\ a * p[i + 1] - b * q[i + 1] <= (i + 1) * e
        /\ j <= i + 1 => a * p[i + 1] - b * q[i + 1] < (i + 1) * e
    BY <2>3, <2>6, <2>7
  <2> QED
    BY <2>1, <2>8
<1>5. n \in S
  <2> HIDE DEF S
  <2>1. 0..n \subseteq S
    BY <1>3, <1>4, Inductively
  <2> QED
    BY <2>1
<1> QED
  BY <1>1, <1>2, <1>5

\* A rounded number is half a unit off at the most, and that above a half only.
LEMMA Nearest ==
    ASSUME NEW u \in Nat \ {0}, NEW x \in Nat
    PROVE  /\ RoundTo(u, x) \in Int
           /\ -u < 2 * u * RoundTo(u, x) - 2 * x /\ 2 * u * RoundTo(u, x) - 2 * x <= u
           /\ 2 * u * RoundTo(u, x) - 2 * x = u => 2 * (x % u) = u
<1> DEFINE m == 2 * x + u
           d == 2 * u
           q == m \div d
           r == m % d
           y == x \div u
           z == x % u
<1>1. m \in Nat /\ d \in Nat \ {0}
  OBVIOUS
<1>2. RoundTo(u, x) = q
  BY DEF RoundTo
<1>3. q \in Int /\ r \in Int /\ m = d * q + r /\ 0 <= r /\ r < d
  <2> HIDE DEF m, d
  <2> QED
    BY <1>1
<1>4. y \in Int /\ z \in Int /\ x = u * y + z /\ 0 <= z /\ z < u
  OBVIOUS
<1> HIDE DEF q, r, y, z
<1>5. d * q - 2 * x = u - r
  BY <1>3
<1>6. r = 0 => 2 * z = u
  <2> SUFFICES ASSUME r = 0 PROVE 2 * z = u
    OBVIOUS
  <2> DEFINE k == q - y
  <2>1. 2 * z + u = 2 * (u * k)
    BY <1>3, <1>4
  <2>2. k \in Int
    BY <1>3, <1>4
  <2> HIDE DEF k
  <2>3. ~(k <= 0)
    <3> SUFFICES ASSUME k <= 0 PROVE FALSE
      OBVIOUS
    <3>1. u * (-k) >= 0
      <4>1. \A g, h \in Nat : g * h >= 0
        OBVIOUS
      <4> QED
        BY <2>2, <4>1
    <3>2. u * (-k) = -(u * k) /\ u * k \in Int
      BY <2>2
    <3> QED
      BY <1>4, <2>1, <3>1, <3>2
  <2>4. ~(k >= 2)
    <3> SUFFICES ASSUME k >= 2 PROVE FALSE
      OBVIOUS
    <3>1. u * (k - 2) >= 0
      <4>1. \A g, h \in Nat : g * h >= 0
        OBVIOUS
      <4> QED
        BY <2>2, <4>1
    <3>2. u * (k - 2) = u * k - 2 * u /\ u * k \in Int
      BY <2>2
    <3> QED
      BY <1>4, <2>1, <3>1, <3>2
  <2>5. k = 1
    BY <2>2, <2>3, <2>4
  <2> QED
    BY <1>4, <2>1, <2>5
<1> QED
  BY <1>2, <1>3, <1>5, <1>6 DEF z

-----------------------------------------------------------------------------
(* The parts of a total. *)

\* A total that is read from an attribute is not negative if none is.
LEMMA TotalIs ==
    ASSUME SizesNatural, SetUp, spec # Refused, NEW chart \in ToSet(plan), Shape(chart).kind = "partition"
    PROVE  Total(chart) \in Nat
<1>1. Shape(chart) \in Shapes /\ ValidShape(Shape(chart))
  BY ChartIs
<1>2. CASE Shape(chart).attr = ""
  <2>1. Shape(chart).total > 0 /\ Shape(chart).total \in Int
    BY <1>1, <1>2 DEF ValidShape, Shapes
  <2>2. Total(chart) = Shape(chart).total
    BY <1>2 DEF Total
  <2>3. \A x \in Int : x > 0 => x \in Nat
    OBVIOUS
  <2> QED
    BY <2>1, <2>2, <2>3
<1>3. CASE Shape(chart).attr # ""
  <2> DEFINE name == Shape(chart).attr
  <2>1. ResolveAttr(chart, name) \in Int
    BY AttrIs
  <2>2. \A a \in DOMAIN profile.attrs : profile.attrs[a] >= 0
    BY DEF SizesNatural, SetUp
  <2>3. \A a \in DOMAIN chart.attrs : chart.attrs[a] >= 0
    <3>1. CASE chart.attrs = Nothing
      BY <3>1, NothingIs
    <3>2. CASE \E g \in DOMAIN profile.instances : \E x \in ToSet(profile.instances[g]) : chart.attrs = x.attrs
      BY <3>2 DEF SizesNatural, SetUp
    <3> QED
      BY <3>1, <3>2, ChartIs
  <2>4. ResolveAttr(chart, name) >= 0
    BY <2>2, <2>3 DEF ResolveAttr
  <2>5. Total(chart) = ResolveAttr(chart, name)
    BY <1>3 DEF Total
  <2>6. \A x \in Int : x >= 0 => x \in Nat
    OBVIOUS
  <2> HIDE DEF name
  <2> QED
    BY <2>1, <2>4, <2>5, <2>6
<1> QED
  BY <1>2, <1>3

\* What a partition divides is no more than its total.
LEMMA DriverIs ==
    ASSUME SizesNatural, SetUp, spec # Refused, NEW chart \in ToSet(plan), Shape(chart).kind = "partition",
           NEW values \in [Streams -> Int]
    PROVE  Driver(chart, values) \in 0..Total(chart)
<1>1. Total(chart) \in Nat
  BY TotalIs
<1>2. Key(chart, Shape(chart).driver) \in Streams
  <2>1. Reads(Shape(chart)) = <<Shape(chart).driver>>
    BY DEF Reads
  <2>2. Shape(chart).driver \in ToSet(Reads(Shape(chart)))
    BY <2>1 DEF ToSet
  <2> QED
    BY <2>2 DEF Streams
<1>3. values[Key(chart, Shape(chart).driver)] \in Int
  BY <1>2
<1> QED
  BY <1>1, <1>3 DEF Driver, Clamp

\* The shares of a partition leave something of its driver.
LEMMA SharesAre ==
    ASSUME NEW shape \in Shapes, ValidShape(shape), shape.kind = "partition"
    PROVE  /\ Len(shape.dims) \in Nat /\ DOMAIN shape.dims = 1..Len(shape.dims)
           /\ \A i \in 1..Len(shape.dims) :
                shape.dims[i] \in Dims /\ (~shape.dims[i].remainder => shape.dims[i].share \in Nat)
           /\ AllShares(shape) \in Int /\ AllShares(shape) <= 100
           /\ \E r \in 1..Len(shape.dims) : \A i \in 1..Len(shape.dims) : shape.dims[i].remainder <=> i = r
<1> DEFINE n == Len(shape.dims)
           R == {i \in DOMAIN shape.dims : shape.dims[i].remainder}
           sh == [i \in DOMAIN shape.dims |-> IF shape.dims[i].remainder THEN 0 ELSE shape.dims[i].share]
<1>1. n \in Nat /\ DOMAIN shape.dims = 1..n /\ \A i \in 1..n : shape.dims[i] \in Dims
  <2>1. shape.dims \in Seq(Dims)
    BY DEF Shapes
  <2> DEFINE d == shape.dims
  <2> HIDE DEF d
  <2>2. d \in Seq(Dims) => Len(d) \in Nat /\ DOMAIN d = 1..Len(d) /\ \A i \in 1..Len(d) : d[i] \in Dims
    OBVIOUS
  <2> QED
    BY <2>1, <2>2 DEF d
<1>2. /\ Cardinality(R) = 1
      /\ \A i \in DOMAIN shape.dims : ~shape.dims[i].remainder => shape.dims[i].share >= 0
      /\ AllShares(shape) <= 100
  BY DEF ValidShape
<1>3. \A i \in 1..n : ~shape.dims[i].remainder => shape.dims[i].share \in Nat
  BY <1>1, <1>2 DEF Dims
<1>4. \E r \in 1..n : \A i \in 1..n : shape.dims[i].remainder <=> i = r
  <2>1. R \subseteq 1..n /\ IsFiniteSet(1..n)
    BY <1>1, FS_Interval
  <2>2. IsFiniteSet(R)
    BY <2>1, FS_Subset
  <2>3. PICK r : R = {r}
    BY <1>2, <2>2, FS_Singleton
  <2>4. r \in 1..n
    BY <2>1, <2>3
  <2>5. \A i \in 1..n : i \in R <=> shape.dims[i].remainder
    BY <1>1
  <2> HIDE DEF R
  <2>6. \A i \in 1..n : shape.dims[i].remainder <=> i = r
    BY <2>3, <2>5
  <2> QED
    BY <2>4, <2>6
<1>5. AllShares(shape) \in Int
  <2>1. sh \in [1..n -> Int]
    BY <1>1 DEF Dims
  <2>2. AllShares(shape) = Added(sh)
    BY DEF AllShares
  <2> HIDE DEF sh, n
  <2> QED
    BY <1>1, <2>1, <2>2, AddedIs
<1> HIDE DEF n, R, sh
<1> QED
  BY <1>1, <1>2, <1>3, <1>4, <1>5 DEF n

\* What the driver's shares take of a total leaves the remainder.
LEMMA RestIs ==
    ASSUME NEW total \in Nat, NEW driver \in 0..total, NEW shares \in Int, shares <= 100
    PROVE  driver * shares \in Int /\ 100 * total - driver * shares >= 0
<1>1. \A x \in Nat, y \in Nat : x * y >= 0
  OBVIOUS
<1>2. driver * (100 - shares) >= 0
  BY <1>1
<1>3. driver * (100 - shares) = 100 * driver - driver * shares /\ driver * shares \in Int
  OBVIOUS
<1> QED
  BY <1>2, <1>3

\* The parts of a partition are not negative, and add up to its total.
LEMMA PartsAdd ==
    ASSUME SizesNatural, SetUp, spec # Refused, NEW chart \in ToSet(plan), Shape(chart).kind = "partition",
           NEW driver \in 0..Total(chart)
    PROVE  LET dims == Shape(chart).dims IN
           /\ \A i \in 1..Len(dims) : Part(chart, dims[i], driver) \in Nat
           /\ Added([i \in 1..Len(dims) |-> Part(chart, dims[i], driver)]) = 100 * Total(chart)
<1> DEFINE shape == Shape(chart)
           dims == shape.dims
           n == Len(dims)
           T == Total(chart)
           A == AllShares(shape)
           sh == [i \in DOMAIN shape.dims |-> IF shape.dims[i].remainder THEN 0 ELSE shape.dims[i].share]
           parts == [i \in 1..n |-> Part(chart, dims[i], driver)]
<1>1. T \in Nat
  BY TotalIs
<1>2. /\ n \in Nat /\ DOMAIN dims = 1..n
      /\ \A i \in 1..n : dims[i] \in Dims /\ (~dims[i].remainder => dims[i].share \in Nat)
      /\ A \in Int /\ A <= 100
      /\ \E r \in 1..n : \A i \in 1..n : dims[i].remainder <=> i = r
  <2>1. shape \in Shapes /\ ValidShape(shape)
    BY ChartIs
  <2> QED
    BY <2>1, SharesAre
<1>3. PICK r \in 1..n : \A i \in 1..n : dims[i].remainder <=> i = r
  BY <1>2
<1>4. A = Added(sh)
  BY DEF AllShares
<1> DEFINE rest == 100 * T - driver * A
<1>5. rest \in Nat
  <2>1. driver \in 0..T
    OBVIOUS
  <2> HIDE DEF T, A, n
  <2> QED
    BY <1>1, <1>2, <2>1, RestIs
<1>6. ASSUME NEW i \in 1..n
      PROVE  parts[i] = (IF i = r THEN rest ELSE driver * sh[i]) /\ parts[i] \in Nat
             /\ (i = r => sh[i] = 0)
  <2>1. parts[i] = Part(chart, dims[i], driver)
    OBVIOUS
  <2>2. CASE i = r
    <3>1. dims[i].remainder
      BY <1>3, <2>2
    <3>2. Part(chart, dims[i], driver) = AtLeast(rest, 0)
      BY <3>1 DEF Part
    <3>3. sh[i] = 0
      BY <1>2, <3>1
    <3> HIDE DEF rest, parts, sh
    <3> QED
      BY <1>5, <2>1, <2>2, <3>2, <3>3 DEF AtLeast
  <2>3. CASE i # r
    <3>1. ~dims[i].remainder
      BY <1>3, <2>3
    <3>2. Part(chart, dims[i], driver) = driver * dims[i].share
      BY <3>1 DEF Part
    <3>3. sh[i] = dims[i].share /\ dims[i].share \in Nat
      BY <1>2, <3>1
    <3>4. driver \in Nat /\ \A x, y \in Nat : x * y \in Nat
      BY <1>1
    <3> HIDE DEF rest, parts, sh
    <3> QED
      BY <2>1, <2>3, <3>2, <3>3, <3>4
  <2> QED
    BY <2>2, <2>3
<1>7. parts \in [1..n -> Int] /\ sh \in [1..n -> Int]
  <2>1. \A i \in 1..n : parts[i] \in Int
    <3> HIDE DEF parts, rest, sh, n
    <3> QED
      BY <1>6
  <2>2. sh \in [1..n -> Int]
    BY <1>2 DEF Dims
  <2> HIDE DEF n
  <2> QED
    BY <2>1, <2>2
<1> HIDE DEF sh, n, T, A, rest
<1>8. PICK p \in [0..n -> Int] : p[0] = 0 /\ (\A i \in 1..n : p[i] = p[i - 1] + parts[i]) /\ Added(parts) = p[n]
  <2> HIDE DEF parts
  <2> QED
    BY <1>2, <1>7, AddedIs
<1>9. PICK q \in [0..n -> Int] : q[0] = 0 /\ (\A i \in 1..n : q[i] = q[i - 1] + sh[i]) /\ Added(sh) = q[n]
  BY <1>2, <1>7, AddedIs
<1> HIDE DEF parts
<1> DEFINE S == {i \in 0..n : p[i] = driver * q[i] + (IF i >= r THEN rest ELSE 0)}
<1>10. 0 \in S
  <2>1. driver * q[0] = 0 /\ ~(0 >= r) /\ 0 \in 0..n
    BY <1>2, <1>9
  <2> QED
    BY <1>8, <2>1
<1>11. ASSUME NEW i \in 0..n, i \in S, i # n PROVE i + 1 \in S
  <2>1. i + 1 \in 1..n /\ (i + 1) - 1 = i /\ i + 1 \in 0..n
    BY <1>2, <1>11
  <2>2. p[i + 1] = p[i] + parts[i + 1] /\ q[i + 1] = q[i] + sh[i + 1]
    BY <1>8, <1>9, <2>1
  <2>3. p[i] = driver * q[i] + (IF i >= r THEN rest ELSE 0)
    BY <1>11
  <2>4. p[i] \in Int /\ q[i] \in Int /\ sh[i + 1] \in Int /\ driver \in Int /\ rest \in Int
    BY <1>1, <1>5, <1>7, <2>1
  <2>5. driver * (q[i] + sh[i + 1]) = driver * q[i] + driver * sh[i + 1]
    BY <2>4
  <2>6. CASE i + 1 = r
    <3>1. parts[i + 1] = rest /\ sh[i + 1] = 0
      BY <1>6, <2>1, <2>6
    <3>2. driver * sh[i + 1] = 0
      BY <2>4, <3>1
    <3>3. i + 1 >= r /\ ~(i >= r)
      BY <1>2, <2>6
    <3> QED
      BY <2>1, <2>2, <2>3, <2>4, <2>5, <3>1, <3>2, <3>3
  <2>7. CASE i + 1 # r
    <3>1. parts[i + 1] = driver * sh[i + 1]
      BY <1>6, <2>1, <2>7
    <3>2. i + 1 >= r <=> i >= r
      BY <1>2, <2>1, <2>7
    <3> QED
      BY <2>1, <2>2, <2>3, <2>4, <2>5, <3>1, <3>2
  <2> QED
    BY <2>6, <2>7
<1>12. n \in S
  <2> HIDE DEF S
  <2>1. 0..n \subseteq S
    BY <1>2, <1>10, <1>11, Inductively
  <2> QED
    BY <1>2, <2>1
<1>13. Added(parts) = driver * A + rest
  BY <1>2, <1>4, <1>8, <1>9, <1>12
<1>14. driver * A + rest = 100 * T
  BY <1>1, <1>2 DEF rest
<1> QED
  BY <1>6, <1>13, <1>14 DEF parts, n, T

-----------------------------------------------------------------------------
(* Counters, and what the lint remembers of them. *)

\* A natural number divides into one.
LEMMA QuotientNat ==
    ASSUME NEW m \in Nat, NEW d \in Nat \ {0}
    PROVE  m \div d \in Nat
<1> DEFINE q == m \div d
           r == m % d
<1>1. q \in Int /\ r \in Int /\ m = d * q + r /\ 0 <= r /\ r < d
  OBVIOUS
<1> HIDE DEF q, r
<1>2. ~(q <= -1)
  <2> SUFFICES ASSUME q <= -1 PROVE FALSE
    OBVIOUS
  <2>1. \A x, y \in Int : x > 0 /\ y >= 1 => x * y >= x
    OBVIOUS
  <2>2. d * (-q) >= d
    BY <1>1, <2>1
  <2>3. d * (-q) = -(d * q)
    BY <1>1
  <2> QED
    BY <1>1, <2>2, <2>3
<1>3. q \in Nat
  BY <1>1, <1>2
<1> QED
  BY <1>3 DEF q

\* What is more, is not less without its fraction.
LEMMA TruncateGrows ==
    ASSUME NEW x \in Nat, NEW y \in Nat, x <= y
    PROVE  Truncate(x) <= Truncate(y) /\ Truncate(x) \in Nat
<1>0. Unit \in Nat \ {0}
  BY NumbersAssumption
<1> DEFINE p == x \div Unit
           q == y \div Unit
           r == x % Unit
           s == y % Unit
<1>1. /\ p \in Int /\ r \in Int /\ x = Unit * p + r /\ 0 <= r /\ r < Unit
      /\ q \in Int /\ s \in Int /\ y = Unit * q + s /\ 0 <= s /\ s < Unit
  BY <1>0
<1>2. Truncate(x) = p /\ Truncate(y) = q
  BY DEF Truncate
<1>3. p \in Nat
  BY <1>0, QuotientNat
<1> HIDE DEF p, q, r, s
<1>4. ~(p - q >= 1)
  <2> SUFFICES ASSUME p - q >= 1 PROVE FALSE
    OBVIOUS
  <2>1. \A a, b \in Int : a > 0 /\ b >= 1 => a * b >= a
    OBVIOUS
  <2>2. Unit * (p - q) >= Unit
    BY <1>0, <1>1, <2>1
  <2>3. Unit * (p - q) = Unit * p - Unit * q
    BY <1>0, <1>1
  <2> QED
    BY <1>0, <1>1, <2>2, <2>3
<1> QED
  BY <1>1, <1>2, <1>3, <1>4

\* Cells of one name are one.
LEMMA CellsApart ==
    ASSUME NamesApart, SetUp, spec # Refused, NEW c \in Cells, NEW d \in Cells, Name(c) = Name(d)
    PROVE  c = d
<1>1. /\ c[1] \in DOMAIN plan /\ plan[c[1]] \in ToSet(plan) /\ c[2] \in DOMAIN Shape(plan[c[1]]).dims
      /\ d[1] \in DOMAIN plan /\ d[2] \in DOMAIN Shape(plan[d[1]]).dims
      /\ Dim(c) = Shape(plan[c[1]]).dims[c[2]] /\ Dim(d) = Shape(plan[d[1]]).dims[d[2]]
  BY CellIs
<1>2. plan[c[1]].id = plan[d[1]].id /\ Dim(c).id = Dim(d).id
  BY DEF Name
<1>3. c[1] = d[1]
  <2>1. \A i, j \in DOMAIN plan : plan[i].id = plan[j].id => i = j
    BY DEF NamesApart, Composition, SetUp
  <2> QED
    BY <1>1, <1>2, <2>1
<1>4. c[2] = d[2]
  <2>1. ValidShape(Shape(plan[c[1]]))
    BY <1>1, ChartIs
  <2> QED
    BY <1>1, <1>2, <1>3, <2>1 DEF ValidShape
<1>5. c = <<c[1], c[2]>> /\ d = <<d[1], d[2]>>
  BY DEF Cells
<1> QED
  BY <1>3, <1>4, <1>5

\* Nothing is ever taken off a counter.
LEMMA GrowsIs ==
    ASSUME SizesNatural, SetUp, spec # Refused, NEW c \in Cells, Counts(Shape(plan[c[1]])),
           NEW values \in [Streams -> Int]
    PROVE  Grows(plan[c[1]], Dim(c), values) \in Nat
<1> DEFINE chart == plan[c[1]]
           shape == Shape(chart)
           d == Dim(c)
<1>1. chart \in ToSet(plan) /\ c[2] \in DOMAIN shape.dims /\ d = shape.dims[c[2]]
  BY CellIs
<1>2. Interval \in Nat /\ Unit \in Nat
  BY NumbersAssumption
<1>3. \A x, y \in Nat : x * y \in Nat
  OBVIOUS
<1>4. CASE shape.kind = "counters"
  <2>1. Reads(shape) = [i \in DOMAIN shape.dims |-> shape.dims[i].signal]
    BY <1>4 DEF Reads
  <2>2. d.signal \in ToSet(Reads(shape))
    BY <1>1, <2>1 DEF ToSet
  <2>3. Key(chart, d.signal) \in Streams
    BY <1>1, <2>2 DEF Streams
  <2> DEFINE v == values[Key(chart, d.signal)]
  <2>4. AtLeast(v, 0) \in Nat
    BY <2>3 DEF AtLeast
  <2>5. Grows(chart, d, values) = AtLeast(v, 0) * Interval
    BY <1>4 DEF Grows
  <2> QED
    BY <1>2, <1>3, <2>4, <2>5
<1>5. CASE shape.kind = "partition"
  <2> DEFINE D == Driver(chart, values)
             T == Total(chart)
  <2>1. T \in Nat /\ D \in 0..T
    BY <1>1, <1>5, TotalIs, DriverIs
  <2>2. Part(chart, d, D) \in Nat
    <3>1. \A i \in 1..Len(shape.dims) : Part(chart, shape.dims[i], D) \in Nat
      BY <1>1, <1>5, <2>1, PartsAdd
    <3>2. c[2] \in 1..Len(shape.dims)
      <4>1. shape \in Shapes /\ ValidShape(shape)
        BY <1>1, ChartIs
      <4> QED
        BY <1>1, <1>5, <4>1, SharesAre
    <3> QED
      BY <1>1, <3>1, <3>2
  <2>3. profile.cores \in Nat
    BY ProfilesAssumption DEF SetUp
  <2>4. profile.cores * Interval * Part(chart, d, D) * Unit \in Nat
    <3>1. profile.cores * Interval \in Nat
      BY <1>2, <1>3, <2>3
    <3>2. profile.cores * Interval * Part(chart, d, D) \in Nat
      BY <1>3, <2>2, <3>1
    <3> QED
      BY <1>2, <1>3, <3>2
  <2>5. Grows(chart, d, values) =
            IF T = 0 THEN 0 ELSE (profile.cores * Interval * Part(chart, d, D) * Unit) \div T
    BY <1>5 DEF Grows
  <2> DEFINE m == profile.cores * Interval * Part(chart, d, D) * Unit
  <2>6. m \in Nat /\ Grows(chart, d, values) = IF T = 0 THEN 0 ELSE m \div T
    BY <2>4, <2>5
  <2> HIDE DEF m, T, D
  <2>7. T # 0 => m \div T \in Nat
    BY <2>1, <2>6, QuotientNat
  <2> QED
    BY <2>6, <2>7
<1> QED
  BY <1>4, <1>5 DEF Counts

\* Counters that are natural numbers stay so, and do not become less.
LEMMA AccumulatedIs ==
    ASSUME NamesApart, SizesNatural, SetUp, spec # Refused, NEW values \in [Streams -> Int],
           \A k \in DOMAIN counters : counters[k] \in Nat
    PROVE  /\ \A c \in Cells : Counts(Shape(plan[c[1]])) => Name(c) \in DOMAIN Accumulated(values)
           /\ \A k \in DOMAIN Accumulated(values) :
                /\ Accumulated(values)[k] \in Nat
                /\ k \in DOMAIN counters => counters[k] <= Accumulated(values)[k]
<1> DEFINE names == {Name(c) : c \in {c \in Cells : Counts(Shape(plan[c[1]]))}}
           g(k) == LET c == CHOOSE c \in Cells : Name(c) = k IN Grows(plan[c[1]], Dim(c), values)
           before(k) == IF k \in DOMAIN counters THEN counters[k] ELSE 0
<1>1. Accumulated(values) = [k \in names |-> before(k) + g(k)]
  BY DEF Accumulated
<1>2. ASSUME NEW k \in names PROVE g(k) \in Nat
  <2>1. PICK c \in Cells : Counts(Shape(plan[c[1]])) /\ k = Name(c)
    OBVIOUS
  <2>2. (CHOOSE x \in Cells : Name(x) = k) \in Cells /\ Name(CHOOSE x \in Cells : Name(x) = k) = k
    BY <2>1
  <2>3. (CHOOSE x \in Cells : Name(x) = k) = c
    BY <2>1, <2>2, CellsApart
  <2>4. g(k) = Grows(plan[c[1]], Dim(c), values)
    BY <2>3
  <2> QED
    BY <2>1, <2>4, GrowsIs
<1>3. \A k : before(k) \in Nat /\ (k \in DOMAIN counters => counters[k] = before(k))
  OBVIOUS
<1> HIDE DEF g, before
<1>4. \A c \in Cells : Counts(Shape(plan[c[1]])) => Name(c) \in names
  OBVIOUS
<1> HIDE DEF names
<1> QED
  BY <1>1, <1>2, <1>3, <1>4

-----------------------------------------------------------------------------
(* What the lint finds in a tick. *)

\* What a tick finds, it finds in samples of the tick's values.
LEMMA TickIs ==
    ASSUME SetUp, EngineTick
    PROVE  /\ spec # Refused /\ profile' = profile /\ spec' = spec /\ signals' = signals /\ plan' = plan
           /\ \E fault \in Faults, noise \in [Streams -> Noise] :
                LET values == Values(fault, noise)
                    shown  == [c \in Cells |-> SampleChart(c, values, Accumulated(values))]
                IN  /\ values \in [Streams -> Int]
                    /\ counters' = Accumulated(values) /\ last' = Track(shown)
                    /\ violations' = violations \cup Fell(shown)
                                        \cup UNION {CheckSample(i, shown) : i \in DOMAIN plan}
<1>1. spec # Refused /\ profile' = profile /\ spec' = spec /\ signals' = signals /\ plan' = plan
  BY DEF EngineTick
<1>2. \A fault \in Faults, noise \in [Streams -> Noise] : Values(fault, noise) \in [Streams -> Int]
  BY <1>1, ValuesIs
<1> QED
  BY <1>1, <1>2 DEF EngineTick

\* What there is to find in a sample.
LEMMA CheckIs ==
    ASSUME NEW i \in DOMAIN plan, NEW shown, NEW x \in CheckSample(i, shown)
    PROVE  LET chart == plan[i]
               shape == Shape(chart)
           IN  /\ x[2] = chart.id
               /\ \/ /\ x[1] = "unit out of range" /\ shape.kind = "independent"
                     /\ spec.contexts[chart.context].units \in Ratios
                     /\ x[3] \in DOMAIN shape.dims /\ ~Fits(shape.dims[x[3]], shown[<<i, x[3]>>])
                  \/ /\ x[1] = "partition total missing" /\ shape.kind = "partition" /\ shape.attr # ""
                     /\ shape.attr \notin DOMAIN chart.attrs /\ shape.attr \notin DOMAIN profile.attrs
                  \/ /\ x[1] = "conservation broken" /\ shape.kind = "partition" /\ ~shape.jiffies
                     /\ Broken(i, shown)
<1> DEFINE chart == plan[i]
           shape == Shape(chart)
           ratio == spec.contexts[chart.context].units \in Ratios
           over(n) == ratio /\ ~Fits(shape.dims[n], shown[<<i, n>>])
           lacks == shape.attr # "" /\ shape.attr \notin DOMAIN chart.attrs \cup DOMAIN profile.attrs
           A == {<<"unit out of range", chart.id, n>> : n \in
                    {n \in DOMAIN shape.dims : shape.kind = "independent" /\ over(n)}}
           B == {<<"partition total missing", chart.id>> : y \in
                    {y \in {1} : shape.kind = "partition" /\ ~shape.jiffies /\ lacks}}
           C == {<<"conservation broken", chart.id>> : y \in
                    {y \in {1} : shape.kind = "partition" /\ ~shape.jiffies /\ ~lacks /\ Broken(i, shown)}}
<1>1. x \in A \cup B \cup C
  BY DEF CheckSample
<1>2. CASE x \in A
  <2>1. PICK n \in DOMAIN shape.dims :
            shape.kind = "independent" /\ over(n) /\ x = <<"unit out of range", chart.id, n>>
    BY <1>2
  <2> QED
    BY <2>1
<1>3. CASE x \in B
  <2>1. shape.kind = "partition" /\ lacks /\ x = <<"partition total missing", chart.id>>
    BY <1>3
  <2> QED
    BY <2>1
<1>4. CASE x \in C
  <2>1. shape.kind = "partition" /\ ~shape.jiffies /\ Broken(i, shown) /\ x = <<"conservation broken", chart.id>>
    BY <1>4
  <2> QED
    BY <2>1
<1> HIDE DEF A, B, C
<1> QED
  BY <1>1, <1>2, <1>3, <1>4

\* A cell is called the same as long as the plan is.
LEMMA SameNames ==
    ASSUME profile' = profile, spec' = spec, signals' = signals, plan' = plan
    PROVE  /\ Cells' = Cells
           /\ \A c : Name(c)' = Name(c) /\ Counts(Shape(plan[c[1]]))' = Counts(Shape(plan[c[1]]))
<1>1. Cells' = Cells
  BY SameTick
<1>2. ASSUME NEW c PROVE Name(c)' = Name(c) /\ Counts(Shape(plan[c[1]]))' = Counts(Shape(plan[c[1]]))
  BY DEF Name, Dim, Shape, Counts
<1> QED
  BY <1>1, <1>2

\* The lint remembers what counters were, and has seen none of them go back.
Counted ==
    /\ NeverBack
    /\ \A k \in DOMAIN counters : counters[k] \in Nat
    /\ \A c \in Cells : Counts(Shape(plan[c[1]])) /\ Name(c) \in DOMAIN last =>
            Name(c) \in DOMAIN counters /\ last[Name(c)].value = Truncate(counters[Name(c)])

LEMMA CountedTick ==
    ASSUME NamesApart, SizesNatural, SetUp, Counted, EngineTick
    PROVE  Counted'
<1>1. spec # Refused /\ profile' = profile /\ spec' = spec /\ signals' = signals /\ plan' = plan
  BY TickIs
<1>2. PICK fault \in Faults, noise \in [Streams -> Noise] :
        LET values == Values(fault, noise)
            shown  == [c \in Cells |-> SampleChart(c, values, Accumulated(values))]
        IN  /\ values \in [Streams -> Int]
            /\ counters' = Accumulated(values) /\ last' = Track(shown)
            /\ violations' = violations \cup Fell(shown) \cup UNION {CheckSample(i, shown) : i \in DOMAIN plan}
  BY TickIs
<1> DEFINE values == Values(fault, noise)
           acc == Accumulated(values)
           shown == [c \in Cells |-> SampleChart(c, values, acc)]
<1>3. values \in [Streams -> Int] /\ counters' = acc /\ last' = Track(shown)
      /\ violations' = violations \cup Fell(shown) \cup UNION {CheckSample(i, shown) : i \in DOMAIN plan}
  BY <1>2
<1>4. /\ \A c \in Cells : Counts(Shape(plan[c[1]])) => Name(c) \in DOMAIN acc
      /\ \A k \in DOMAIN acc : acc[k] \in Nat /\ (k \in DOMAIN counters => counters[k] <= acc[k])
  <2> HIDE DEF values
  <2> QED
    BY <1>1, <1>3, AccumulatedIs DEF Counted
<1>5. ASSUME NEW c \in Cells, Counts(Shape(plan[c[1]])) PROVE shown[c] = Truncate(acc[Name(c)])
  <2>1. shown[c] = SampleChart(c, values, acc)
    OBVIOUS
  <2> HIDE DEF shown, acc, values
  <2> QED
    BY <2>1, <1>5 DEF SampleChart
<1> HIDE DEF shown, acc, values
<1>6. Fell(shown) = {}
  <2> SUFFICES ASSUME NEW c \in Cells, Counts(Shape(plan[c[1]])), Name(c) \in DOMAIN last,
                      shown[c] < last[Name(c)].value
               PROVE  FALSE
    BY DEF Fell
  <2>1. Name(c) \in DOMAIN counters /\ last[Name(c)].value = Truncate(counters[Name(c)])
    BY DEF Counted
  <2>2. counters[Name(c)] \in Nat /\ acc[Name(c)] \in Nat /\ counters[Name(c)] <= acc[Name(c)]
    BY <1>4, <2>1 DEF Counted
  <2>3. /\ Truncate(counters[Name(c)]) <= Truncate(acc[Name(c)])
        /\ Truncate(counters[Name(c)]) \in Nat /\ Truncate(acc[Name(c)]) \in Nat
    BY <2>2, TruncateGrows
  <2> QED
    BY <1>5, <2>1, <2>3
<1>7. NeverBack'
  <2>1. \A i \in DOMAIN plan : \A x \in CheckSample(i, shown) : x[1] # "counter went backwards"
    BY CheckIs
  <2>2. \A x \in violations : x[1] # "counter went backwards"
    BY DEF Counted, NeverBack, Found
  <2>3. \A x \in violations' : x[1] # "counter went backwards"
    BY <1>3, <1>6, <2>1, <2>2
  <2> QED
    BY <2>3 DEF NeverBack, Found
<1>8. \A k \in DOMAIN counters' : counters'[k] \in Nat
  BY <1>3, <1>4
<1>9. ASSUME NEW c \in Cells, Counts(Shape(plan[c[1]]))
      PROVE  Name(c) \in DOMAIN counters' /\ last'[Name(c)].value = Truncate(counters'[Name(c)])
  <2>1. Name(c) \in {Name(x) : x \in Cells}
    OBVIOUS
  <2>2. (CHOOSE x \in Cells : Name(x) = Name(c)) \in Cells
        /\ Name(CHOOSE x \in Cells : Name(x) = Name(c)) = Name(c)
    OBVIOUS
  <2>3. (CHOOSE x \in Cells : Name(x) = Name(c)) = c
    BY <1>1, <2>2, CellsApart
  <2>4. last'[Name(c)].value = shown[c]
    BY <1>3, <2>1, <2>3 DEF Track
  <2> QED
    BY <1>3, <1>4, <1>5, <1>9, <2>4
<1>10. Cells' = Cells /\ \A c : Name(c)' = Name(c) /\ Counts(Shape(plan[c[1]]))' = Counts(Shape(plan[c[1]]))
  BY <1>1, SameNames
<1>11. ASSUME NEW c \in Cells', Counts(Shape(plan[c[1]]))'
       PROVE  Name(c)' \in DOMAIN counters' /\ last'[Name(c)'].value = Truncate(counters'[Name(c)'])
  BY <1>9, <1>10, <1>11
<1> QED
  BY <1>7, <1>8, <1>11 DEF Counted, Truncate

\* No counter goes back (sample_chart, track): for all files that keep charts of a node apart.
THEOREM NeverBackHolds ==
    ASSUME NamesApart, SizesNatural
    PROVE  Spec => []NeverBack
<1>1. Init => Counted
  <2> SUFFICES ASSUME Init PROVE Counted
    OBVIOUS
  <2>1. counters = Nothing /\ last = Nothing /\ violations = {}
    BY DEF Init
  <2>2. DOMAIN counters = {} /\ DOMAIN last = {}
    BY <2>1, NothingIs
  <2> QED
    BY <2>1, <2>2 DEF Counted, NeverBack, Found
<1>2. SetUp /\ Counted /\ [Next]_engineVars => Counted'
  <2> SUFFICES ASSUME SetUp, Counted, [Next]_engineVars PROVE Counted'
    OBVIOUS
  <2>1. CASE EngineTick
    BY <2>1, CountedTick
  <2>2. CASE ~EngineTick
    <3>1. /\ profile' = profile /\ spec' = spec /\ signals' = signals /\ plan' = plan
          /\ counters' = counters /\ last' = last /\ violations' = violations
      BY <2>2, RestsIs DEF Rests
    <3>2. Cells' = Cells /\ \A c : Name(c)' = Name(c) /\ Counts(Shape(plan[c[1]]))' = Counts(Shape(plan[c[1]]))
      BY <3>1, SameNames
    <3>3. NeverBack'
      BY <3>1 DEF Counted, NeverBack, Found
    <3>4. ASSUME NEW c \in Cells', Counts(Shape(plan[c[1]]))', Name(c)' \in DOMAIN last'
          PROVE  Name(c)' \in DOMAIN counters' /\ last'[Name(c)'].value = Truncate(counters'[Name(c)'])
      BY <3>1, <3>2, <3>4 DEF Counted
    <3> QED
      BY <3>1, <3>3, <3>4 DEF Counted, Truncate
  <2> QED
    BY <2>1, <2>2
<1>3. Counted => NeverBack
  BY DEF Counted
<1> QED
  BY <1>1, <1>2, <1>3, SetUpHolds, PTL DEF Spec

-----------------------------------------------------------------------------
(* Totals and ratios. *)

\* What a partition shows, part by part, and what that is rounded from.
ShownParts(i, values, acc) == [k \in DOMAIN Shape(plan[i]).dims |-> SampleChart(<<i, k>>, values, acc)]
RealParts(i, values) ==
    [k \in DOMAIN Shape(plan[i]).dims |-> Part(plan[i], Shape(plan[i]).dims[k], Driver(plan[i], values))]

Splits(i, values, s, x) ==
    LET n == Len(Shape(plan[i]).dims) IN
    /\ n \in Nat /\ DOMAIN Shape(plan[i]).dims = 1..n
    /\ s \in [1..n -> Int] /\ x \in [1..n -> Int] /\ \A k \in 1..n : s[k] \in Int /\ x[k] \in Nat
    /\ \A k \in 1..n : s[k] = RoundTo(100 * Unit, x[k])
    /\ Added(s) \in Int /\ Added(x) = 100 * Total(plan[i])
    /\ Total(plan[i]) \in Nat /\ Driver(plan[i], values) \in 0..Total(plan[i])

LEMMA RoundedParts ==
    ASSUME SizesNatural, SetUp, spec # Refused, NEW i \in DOMAIN plan,
           Shape(plan[i]).kind = "partition", ~Shape(plan[i]).jiffies,
           NEW values \in [Streams -> Int], NEW acc
    PROVE  LET shown == [c \in Cells |-> SampleChart(c, values, acc)] IN
           /\ Splits(i, values, ShownParts(i, values, acc), RealParts(i, values))
           /\ [k \in DOMAIN Shape(plan[i]).dims |-> shown[<<i, k>>]] = ShownParts(i, values, acc)
<1> DEFINE chart == plan[i]
           shape == Shape(chart)
           dims == shape.dims
           n == Len(dims)
           T == Total(chart)
           D == Driver(chart, values)
           shown == [c \in Cells |-> SampleChart(c, values, acc)]
           s == ShownParts(i, values, acc)
           x == RealParts(i, values)
           u == 100 * Unit
<1>1. chart \in ToSet(plan)
  BY DEF ToSet
<1>2. n \in Nat /\ DOMAIN dims = 1..n
  <2>1. shape \in Shapes /\ ValidShape(shape)
    BY <1>1, ChartIs
  <2> QED
    BY <2>1, SharesAre
<1>4. T \in Nat /\ D \in 0..T
  BY <1>1, TotalIs, DriverIs
<1>5. /\ \A k \in 1..n : Part(chart, dims[k], D) \in Nat
      /\ Added([k \in 1..n |-> Part(chart, dims[k], D)]) = 100 * T
  BY <1>1, <1>4, PartsAdd
<1>6. u \in Nat \ {0}
  BY NumbersAssumption
<1>7. x = [k \in 1..n |-> Part(chart, dims[k], D)]
  BY <1>2 DEF RealParts
<1>8. ASSUME NEW k \in 1..n
      PROVE  s[k] = RoundTo(u, x[k]) /\ x[k] \in Nat /\ shown[<<i, k>>] = s[k]
  <2>1. <<i, k>> \in Cells
    BY <1>2 DEF Cells
  <2>2. shown[<<i, k>>] = SampleChart(<<i, k>>, values, acc) /\ s[k] = SampleChart(<<i, k>>, values, acc)
    BY <1>2, <2>1 DEF ShownParts
  <2>3. ~Counts(shape)
    BY DEF Counts
  <2>4. Dim(<<i, k>>) = dims[k]
    BY DEF Dim
  <2>5. SampleChart(<<i, k>>, values, acc) = RoundTo(u, Part(chart, dims[k], D))
    BY <2>3, <2>4 DEF SampleChart
  <2>6. x[k] = Part(chart, dims[k], D)
    BY <1>7
  <2> QED
    BY <1>5, <2>2, <2>5, <2>6
<1>9. s = [k \in 1..n |-> s[k]]
  BY <1>2 DEF ShownParts
<1>10. [k \in DOMAIN dims |-> shown[<<i, k>>]] = s
  <2> HIDE DEF shown, s, n
  <2> QED
    BY <1>2, <1>8, <1>9
<1> HIDE DEF T, D, u, s, x, n
<1>11. \A k \in 1..n : s[k] \in Int
  BY <1>6, <1>8, Nearest
<1>12. s \in [1..n -> Int]
  BY <1>9, <1>11
<1>13. x \in [1..n -> Int]
  <2>1. x = [k \in 1..n |-> x[k]]
    BY <1>7
  <2>2. \A k \in 1..n : x[k] \in Nat
    BY <1>8
  <2>3. \A k \in 1..n : x[k] \in Int
    BY <2>2
  <2> QED
    BY <2>1, <2>3
<1>14. Added(x) = 100 * T
  BY <1>5, <1>7
<1>15. \A k \in 1..n : s[k] = RoundTo(u, x[k]) /\ x[k] \in Nat
  BY <1>8
<1>16. Added(s) \in Int
  BY <1>2, <1>12, AddedIs
<1>17. Splits(i, values, s, x)
  BY <1>2, <1>4, <1>11, <1>12, <1>13, <1>14, <1>15, <1>16 DEF Splits, T, D, u, n
<1> QED
  BY <1>10, <1>17 DEF s, x

\* The samples of a partition are no further from its total than half a unit for each of its parts.
LEMMA RoundedSum ==
    ASSUME SizesNatural, SetUp, spec # Refused, NEW i \in DOMAIN plan,
           Shape(plan[i]).kind = "partition", ~Shape(plan[i]).jiffies,
           NEW values \in [Streams -> Int], NEW acc
    PROVE  LET dims  == Shape(plan[i]).dims
               shown == [c \in Cells |-> SampleChart(c, values, acc)]
               off   == Added([k \in DOMAIN dims |-> shown[<<i, k>>]]) * Unit - Total(plan[i])
           IN  /\ Len(dims) \in Nat /\ off \in Int
               /\ -(Len(dims) * Unit) <= 2 * off /\ 2 * off <= Len(dims) * Unit
<1> DEFINE dims == Shape(plan[i]).dims
           n == Len(dims)
           T == Total(plan[i])
           shown == [c \in Cells |-> SampleChart(c, values, acc)]
           s == ShownParts(i, values, acc)
           x == RealParts(i, values)
           u == 100 * Unit
<1>0. Splits(i, values, s, x) /\ [k \in DOMAIN dims |-> shown[<<i, k>>]] = s
  BY RoundedParts
<1>1. n \in Nat /\ Added(s) \in Int /\ Added(x) = 100 * T /\ T \in Nat
  BY <1>0 DEF Splits
<1>2. s \in [1..n -> Int] /\ x \in [1..n -> Int]
  BY <1>0 DEF Splits
<1>3. \A k \in 1..n : s[k] \in Int /\ x[k] \in Nat /\ s[k] = RoundTo(u, x[k])
  BY <1>0 DEF Splits
<1>6. u \in Nat \ {0} /\ Unit \in Nat
  BY NumbersAssumption
<1> HIDE DEF n, T, shown, s, x, u
<1>9. \A k \in 1..n : -u <= (2 * u) * s[k] - 2 * x[k] /\ (2 * u) * s[k] - 2 * x[k] <= u
  <2> SUFFICES ASSUME NEW k \in 1..n
               PROVE  -u <= (2 * u) * s[k] - 2 * x[k] /\ (2 * u) * s[k] - 2 * x[k] <= u
    OBVIOUS
  <2>1. x[k] \in Nat /\ s[k] \in Int /\ s[k] = RoundTo(u, x[k])
    BY <1>3
  <2>2. -u < 2 * u * s[k] - 2 * x[k] /\ 2 * u * s[k] - 2 * x[k] <= u
    BY <1>6, <2>1, Nearest
  <2> QED
    BY <1>6, <2>1, <2>2
<1>11. /\ Added(s) \in Int
       /\ -(n * u) <= (2 * u) * Added(s) - 2 * Added(x) /\ (2 * u) * Added(s) - 2 * Added(x) <= n * u
  <2> DEFINE a == 2 * u
  <2>1. a \in Int /\ 2 \in Int /\ u \in Nat
    BY <1>6
  <2>2. \A k \in 1..n : -u <= a * s[k] - 2 * x[k] /\ a * s[k] - 2 * x[k] <= u
    BY <1>9
  <2> HIDE DEF a
  <2>3. /\ Added(s) \in Int
        /\ -(n * u) <= a * Added(s) - 2 * Added(x) /\ a * Added(s) - 2 * Added(x) <= n * u
    BY <1>1, <1>2, <2>1, <2>2, AddedClose
  <2> QED
    BY <2>3 DEF a
<1> DEFINE S == Added(s)
           y == S * Unit
           w == n * Unit
<1>12. y \in Int /\ w \in Int
  BY <1>1, <1>6, <1>11
<1>13. (2 * u) * S = 200 * y /\ n * u = 100 * w
  BY <1>1, <1>6, <1>11 DEF u
<1>14. -(100 * w) <= 200 * y - 200 * T /\ 200 * y - 200 * T <= 100 * w
  <2> HIDE DEF y, w
  <2> QED
    BY <1>1, <1>11, <1>12, <1>13
<1>15. y - T \in Int /\ -w <= 2 * (y - T) /\ 2 * (y - T) <= w
  <2> HIDE DEF y, w
  <2> QED
    BY <1>1, <1>12, <1>14
<1> QED
  BY <1>0, <1>1, <1>15 DEF shown, T, n

\* Four parts of a whole total, not all of them halves, are off it by one at the most.
LEMMA FourParts ==
    ASSUME SizesNatural, SetUp, spec # Refused, NEW i \in DOMAIN plan,
           Shape(plan[i]).kind = "partition", ~Shape(plan[i]).jiffies,
           Len(Shape(plan[i]).dims) = 4, Total(plan[i]) % Unit = 0,
           \A driver \in 0 .. Total(plan[i]) : \E d \in ToSet(Shape(plan[i]).dims) :
                ~d.remainder /\ (driver * d.share) % (100 * Unit) # 50 * Unit,
           NEW values \in [Streams -> Int], NEW acc
    PROVE  LET dims  == Shape(plan[i]).dims
               shown == [c \in Cells |-> SampleChart(c, values, acc)]
               off   == Added([k \in DOMAIN dims |-> shown[<<i, k>>]]) * Unit - Total(plan[i])
           IN  off \in Int /\ -(3 * Unit) <= 2 * off /\ 2 * off <= 3 * Unit
<1> DEFINE dims == Shape(plan[i]).dims
           n == Len(dims)
           T == Total(plan[i])
           D == Driver(plan[i], values)
           shown == [c \in Cells |-> SampleChart(c, values, acc)]
           s == ShownParts(i, values, acc)
           x == RealParts(i, values)
           u == 100 * Unit
<1>0. Splits(i, values, s, x) /\ [k \in DOMAIN dims |-> shown[<<i, k>>]] = s
  BY RoundedParts
<1>1. /\ n = 4 /\ n \in Nat /\ DOMAIN dims = 1..n
      /\ Added(s) \in Int /\ Added(x) = 100 * T /\ T \in Nat /\ D \in 0..T
  BY <1>0 DEF Splits
<1>19. s \in [1..n -> Int] /\ x \in [1..n -> Int]
  BY <1>0 DEF Splits
<1>20. \A k \in 1..n : s[k] \in Int /\ x[k] \in Nat /\ s[k] = RoundTo(u, x[k])
  BY <1>0 DEF Splits
<1>2. u \in Nat \ {0} /\ Unit \in Nat \ {0}
  BY NumbersAssumption
<1>3. PICK d \in ToSet(dims) : ~d.remainder /\ (D * d.share) % u # 50 * Unit
  BY <1>1
<1>4. PICK j \in 1..n : d = dims[j]
  BY <1>1 DEF ToSet
<1>5. x[j] = D * d.share
  BY <1>1, <1>3, <1>4 DEF RealParts, Part
<1> HIDE DEF n, T, D, shown, s, x, u
<1>6. ASSUME NEW k \in 1..n
      PROVE  /\ -u < (2 * u) * s[k] - 2 * x[k] /\ (2 * u) * s[k] - 2 * x[k] <= u
             /\ (2 * u) * s[k] - 2 * x[k] = u => 2 * (x[k] % u) = u
  <2>1. x[k] \in Nat /\ s[k] \in Int /\ s[k] = RoundTo(u, x[k])
    BY <1>20
  <2> DEFINE y == x[k]
             r == s[k]
  <2>2. u \in Nat \ {0} /\ y \in Nat /\ r = RoundTo(u, y)
    BY <1>2, <2>1
  <2> HIDE DEF y, r
  <2>3. /\ -u < 2 * u * r - 2 * y /\ 2 * u * r - 2 * y <= u
        /\ 2 * u * r - 2 * y = u => 2 * (y % u) = u
    BY <2>2, Nearest
  <2> QED
    BY <2>3 DEF y, r
<1>7. (2 * u) * s[j] - 2 * x[j] < u
  <2>1. x[j] \in Nat /\ s[j] \in Int
    BY <1>20
  <2> DEFINE e == (2 * u) * s[j] - 2 * x[j]
             z == x[j] % u
  <2>2. e \in Int /\ e <= u /\ (e = u => 2 * z = u)
    BY <1>2, <1>6, <2>1
  <2>3. z # 50 * Unit /\ z \in Int
    BY <1>2, <1>3, <1>5, <2>1
  <2>4. u = 2 * (50 * Unit)
    BY <1>2 DEF u
  <2> HIDE DEF e, z
  <2>5. e < u
    BY <1>2, <2>2, <2>3, <2>4
  <2> QED
    BY <2>5 DEF e
<1>8. Added(s) \in Int
  BY <1>1
<1>9. (2 * u) * Added(s) - 2 * Added(x) < n * u
  <2> DEFINE a == 2 * u
  <2>1. a \in Int /\ 2 \in Int /\ u \in Nat
    BY <1>2
  <2>2. (\A k \in 1..n : a * s[k] - 2 * x[k] <= u) /\ a * s[j] - 2 * x[j] < u
    BY <1>6, <1>7
  <2> HIDE DEF a
  <2>3. a * Added(s) - 2 * Added(x) < n * u
    BY <1>1, <1>19, <2>1, <2>2, AddedBelow
  <2> QED
    BY <2>3 DEF a
<1>10. (-(2 * u)) * Added(s) - (-2) * Added(x) < n * u
  <2> DEFINE a == -(2 * u)
             b == -2
  <2>1. a \in Int /\ b \in Int /\ u \in Nat
    BY <1>2
  <2>2. ASSUME NEW k \in 1..n PROVE a * s[k] - b * x[k] < u
    <3>1. x[k] \in Int /\ s[k] \in Int /\ -u < (2 * u) * s[k] - 2 * x[k]
      BY <1>6, <1>20
    <3>2. a * s[k] - b * x[k] = -((2 * u) * s[k] - 2 * x[k]) /\ (2 * u) * s[k] - 2 * x[k] \in Int
      BY <1>2, <3>1
    <3> DEFINE e == (2 * u) * s[k] - 2 * x[k]
    <3> HIDE DEF e
    <3>3. e \in Int /\ -u < e => -e < u
      BY <1>2
    <3> QED
      BY <3>1, <3>2, <3>3 DEF e
  <2> HIDE DEF a, b
  <2>3. \A k \in 1..n : a * s[k] - b * x[k] \in Int /\ a * s[k] - b * x[k] <= u
    <3> SUFFICES ASSUME NEW k \in 1..n PROVE a * s[k] - b * x[k] \in Int /\ a * s[k] - b * x[k] <= u
      OBVIOUS
    <3>1. a * s[k] - b * x[k] \in Int
      <4>1. x[k] \in Int /\ s[k] \in Int
        BY <1>20
      <4> QED
        BY <2>1, <4>1
    <3> QED
      BY <2>1, <2>2, <3>1
  <2>4. a * Added(s) - b * Added(x) < n * u
    <3>1. a * s[j] - b * x[j] < u
      BY <2>2
    <3> QED
      BY <1>1, <1>19, <2>1, <2>3, <3>1, AddedBelow
  <2> QED
    BY <2>4 DEF a, b
<1> DEFINE S == Added(s)
           t == T \div Unit
           g == Unit * (S - t)
<1>11. t \in Int /\ T = Unit * t
  BY <1>1, <1>2 DEF T
<1> HIDE DEF t
<1>12. g \in Int /\ S * Unit - T = g
  BY <1>2, <1>8, <1>11
<1>13. (2 * u) * S = 200 * (Unit * S) /\ (-(2 * u)) * S = -(200 * (Unit * S)) /\ n * u = 400 * Unit
  BY <1>1, <1>2, <1>8 DEF u
<1>14. Unit * S - T = g /\ Unit * S \in Int
  BY <1>2, <1>8, <1>12
<1> HIDE DEF S, g
<1>15. g < 2 * Unit /\ -g < 2 * Unit
  BY <1>1, <1>2, <1>9, <1>10, <1>12, <1>13, <1>14 DEF S
<1>16. S - t \in -1..1
  <2>1. S - t \in Int
    BY <1>8, <1>11 DEF S
  <2> DEFINE h == S - t
  <2>2. Unit * h < 2 * Unit /\ -(Unit * h) < 2 * Unit
    BY <1>15 DEF g
  <2>3. h \in Int
    BY <2>1
  <2> HIDE DEF h
  <2>4. \A y, z \in Nat : y * z >= 0
    OBVIOUS
  <2>5. ~(h >= 2)
    <3> SUFFICES ASSUME h >= 2 PROVE FALSE
      OBVIOUS
    <3>1. Unit * (h - 2) >= 0
      BY <1>2, <2>3, <2>4
    <3>2. Unit * (h - 2) = Unit * h - 2 * Unit /\ Unit * h \in Int
      BY <1>2, <2>3
    <3> QED
      BY <1>2, <2>2, <3>1, <3>2
  <2>6. ~(h <= -2)
    <3> SUFFICES ASSUME h <= -2 PROVE FALSE
      OBVIOUS
    <3>1. Unit * (-h - 2) >= 0
      BY <1>2, <2>3, <2>4
    <3>2. Unit * (-h - 2) = -(Unit * h) - 2 * Unit /\ Unit * h \in Int
      BY <1>2, <2>3
    <3> QED
      BY <1>2, <2>2, <3>1, <3>2
  <2> QED
    BY <2>3, <2>5, <2>6 DEF h
<1>17. g \in {-Unit, 0, Unit}
  <2>1. S - t = -1 \/ S - t = 0 \/ S - t = 1
    BY <1>16
  <2>2. Unit * (-1) = -Unit /\ Unit * 0 = 0 /\ Unit * 1 = Unit
    BY <1>2
  <2> QED
    BY <2>1, <2>2 DEF g
<1>18. -(3 * Unit) <= 2 * g /\ 2 * g <= 3 * Unit
  BY <1>2, <1>17
<1> QED
  BY <1>0, <1>12, <1>18 DEF S, shown, T

\* Those of few parts are not further from it than the lint puts up with.
LEMMA NotBroken ==
    ASSUME SizesNatural, SetUp, spec # Refused, NEW i \in DOMAIN plan,
           Shape(plan[i]).kind = "partition", ~Shape(plan[i]).jiffies, FewParts(plan[i]),
           NEW values \in [Streams -> Int], NEW acc
    PROVE  ~Broken(i, [c \in Cells |-> SampleChart(c, values, acc)])
<1> DEFINE n == Len(Shape(plan[i]).dims)
           shown == [c \in Cells |-> SampleChart(c, values, acc)]
           off == Added([k \in DOMAIN Shape(plan[i]).dims |-> shown[<<i, k>>]]) * Unit - Total(plan[i])
<1>1. n \in Nat /\ off \in Int /\ -(n * Unit) <= 2 * off /\ 2 * off <= n * Unit
  BY RoundedSum
<1>2. n > 3 => -(3 * Unit) <= 2 * off /\ 2 * off <= 3 * Unit
  <2> SUFFICES ASSUME n > 3 PROVE -(3 * Unit) <= 2 * off /\ 2 * off <= 3 * Unit
    OBVIOUS
  <2>1. n = 4 /\ Total(plan[i]) % Unit = 0
        /\ \A driver \in 0 .. Total(plan[i]) : \E d \in ToSet(Shape(plan[i]).dims) :
                ~d.remainder /\ (driver * d.share) % (100 * Unit) # 50 * Unit
    BY <1>1 DEF FewParts
  <2> QED
    BY <2>1, FourParts
<1>3. Broken(i, shown) <=> AtLeast(off, -off) * 2 > 3 * Unit
  BY DEF Broken
<1> HIDE DEF shown, off, n
<1>4. n <= 3 => n * Unit <= 3 * Unit
  BY <1>1, NumbersAssumption
<1>5. ~(AtLeast(off, -off) * 2 > 3 * Unit)
  <2>1. n * Unit \in Int /\ Unit \in Int
    BY <1>1, NumbersAssumption
  <2>2. -(3 * Unit) <= 2 * off /\ 2 * off <= 3 * Unit
    BY <1>1, <1>2, <1>4, <2>1
  <2> QED
    BY <1>1, <2>1, <2>2 DEF AtLeast
<1> QED
  BY <1>3, <1>5 DEF shown

\* What is in range is in range at a share of its weight.
LEMMA ScaledIs ==
    ASSUME NEW b \in Nat, NEW a \in -b..b, NEW w \in 0..100
    PROVE  (a * w) \div 100 \in -b..b
<1>1. a * w <= 100 * b /\ -(100 * b) <= a * w /\ a * w \in Int
  <2>1. \A p, q \in Nat : p * q \in Nat
    OBVIOUS
  <2>2. (b - a) * w >= 0 /\ (b + a) * w >= 0 /\ b * (100 - w) >= 0
    <3>1. b - a \in Nat /\ b + a \in Nat /\ 100 - w \in Nat /\ w \in Nat
      OBVIOUS
    <3> QED
      BY <2>1, <3>1
  <2>3. (b - a) * w = b * w - a * w /\ (b + a) * w = b * w + a * w /\ b * (100 - w) = 100 * b - b * w
    OBVIOUS
  <2>4. b * w \in Int /\ a * w \in Int
    OBVIOUS
  <2> QED
    BY <2>2, <2>3, <2>4
<1> DEFINE m == a * w
<1> HIDE DEF m
<1>2. m \in Int /\ m <= 100 * b /\ -(100 * b) <= m
  BY <1>1 DEF m
<1>3. m \div 100 \in -b..b
  BY <1>2
<1> QED
  BY <1>3 DEF m

\* Less is rounded to less, and the opposite to the opposite.
LEMMA RoundWithin ==
    ASSUME NEW b \in Nat, NEW v \in -b..b
    PROVE  Round(b) \in Nat /\ Round(-b) = -Round(b) /\ Round(v) \in -Round(b)..Round(b)
<1>0. Unit \in Nat \ {0}
  BY NumbersAssumption
<1> DEFINE Q(x) == (2 * x + Unit) \div (2 * Unit)
<1>1. ASSUME NEW y \in Nat, NEW x \in 0..y PROVE Q(x) \in Nat /\ Q(y) \in Nat /\ Q(x) <= Q(y)
  <2> DEFINE k == 2 * x + Unit
             m == 2 * y + Unit
             d == 2 * Unit
             p == k \div d
             q == m \div d
  <2>1. k \in Nat /\ m \in Nat /\ d \in Nat \ {0} /\ k <= m
    BY <1>0
  <2>2. p \in Nat /\ q \in Nat
    BY <2>1, QuotientNat
  <2> HIDE DEF k, m, d
  <2>3. /\ k = d * p + (k % d) /\ 0 <= k % d /\ k % d < d /\ k % d \in Int
        /\ m = d * q + (m % d) /\ 0 <= m % d /\ m % d < d /\ m % d \in Int
    BY <2>1
  <2> HIDE DEF p, q
  <2>4. ~(p - q >= 1)
    <3> SUFFICES ASSUME p - q >= 1 PROVE FALSE
      OBVIOUS
    <3>1. \A g, h \in Nat : g * h >= 0
      OBVIOUS
    <3>2. d * (p - q - 1) >= 0
      BY <2>1, <2>2, <3>1
    <3>3. d * (p - q - 1) = d * p - d * q - d /\ d * p \in Int /\ d * q \in Int
      BY <2>1, <2>2
    <3> QED
      BY <2>1, <2>3, <3>2, <3>3
  <2>5. p <= q
    BY <2>2, <2>4
  <2> QED
    BY <2>2, <2>5 DEF p, q, k, m, d
<1>2. \A x \in Nat : Round(x) = Q(x)
  BY DEF Round, RoundTo
<1>3. \A x \in Nat : x # 0 => Round(-x) = -Q(x)
  BY DEF Round, RoundTo
<1>4. Q(0) = 0
  <2>1. 2 * 0 + Unit = (2 * Unit) * 0 + Unit /\ 2 * 0 + Unit \in Int /\ 0 <= Unit /\ Unit < 2 * Unit
        /\ 2 * Unit \in Nat \ {0}
    BY <1>0
  <2> QED
    BY <1>0, <2>1, QuotientIs
<1> HIDE DEF Q
<1>5. Round(-b) = -Round(b) /\ Round(b) = Q(b) /\ Q(b) \in Nat
  <2>1. Q(b) \in Nat
    BY <1>1
  <2>2. CASE b = 0
    BY <1>2, <1>4, <2>1, <2>2
  <2>3. CASE b # 0
    BY <1>2, <1>3, <2>1, <2>3
  <2> QED
    BY <2>1, <2>2, <2>3
<1>6. CASE v >= 0
  <2>1. v \in 0..b /\ v \in Nat
    BY <1>6
  <2>2. Round(v) = Q(v) /\ Q(v) \in Nat /\ Q(v) <= Q(b)
    BY <1>1, <1>2, <2>1
  <2> QED
    BY <1>5, <2>2
<1>7. CASE v < 0
  <2>1. -v \in 0..b /\ -v \in Nat /\ -v # 0 /\ -(-v) = v
    BY <1>7
  <2>2. Round(-(-v)) = -Q(-v) /\ Q(-v) \in Nat /\ Q(-v) <= Q(b)
    BY <1>1, <1>3, <2>1
  <2> QED
    BY <1>5, <2>1, <2>2
<1> QED
  BY <1>5, <1>6, <1>7

\* What a fault or noise does to a signal whose ceiling is physical leaves it within its bounds.
LEMMA RatioKeeps ==
    ASSUME NEW signal \in Signals, signal.max_is_ceiling, NEW b \in Nat,
           {signal.min, signal.max} \subseteq -b..b,
           NEW weight \in Int, signal.ignore_weight \/ weight \in 0..100,
           NEW fault, NEW noise \in Int, fault.multiplier \in Int, fault.additive \in Int
    PROVE  EvalSignal(signal, weight, fault, noise) \in -b..b
<1> DEFINE w == Weight(signal, weight)
           level == (signal.base * w * fault.multiplier) \div 100 + fault.additive
           value == level + ((IF level < 0 THEN -level ELSE level) * noise) \div 100
           lo == Floor(signal, w)
           hi == Ceiling(signal, w, fault)
<1>1. b \in Nat /\ signal.min \in -b..b /\ signal.max \in -b..b
  OBVIOUS
<1>2. w \in 0..100
  BY DEF Weight, Signals
<1> HIDE DEF w
<1>3. (signal.min * w) \div 100 \in -b..b /\ (signal.max * w) \div 100 \in -b..b
  BY <1>1, <1>2, ScaledIs
<1>4. lo \in -b..b
  BY <1>1, <1>3 DEF Floor
<1>5. hi \in -b..b
  BY <1>3 DEF Ceiling, MaxIsPhysical
<1>6. EvalSignal(signal, weight, fault, noise) = Clamp(value, lo, hi)
  BY DEF EvalSignal, w
<1>7. EvalSignal(signal, weight, fault, noise) \in Int
  BY EvalIs
<1> HIDE DEF value, lo, hi
<1>8. Clamp(value, lo, hi) \in -b..b
  <2>1. CASE value < lo
    BY <1>4, <2>1 DEF Clamp
  <2>2. CASE ~(value < lo) /\ value > hi
    BY <1>5, <2>2 DEF Clamp
  <2>3. CASE ~(value < lo) /\ ~(value > hi)
    <3>1. Clamp(value, lo, hi) = value /\ value \in Int
      BY <1>6, <1>7, <2>3 DEF Clamp
    <3> QED
      BY <1>1, <1>4, <1>5, <2>3, <3>1
  <2> QED
    BY <2>1, <2>2, <2>3
<1> QED
  BY <1>6, <1>8

\* What is between a number that fits and its opposite fits.
LEMMA LessFits ==
    ASSUME NEW m \in Int, NEW k \in Int, NEW r \in Nat, r * m \in -k..k \/ (-r) * m \in -k..k, NEW p \in -r..r
    PROVE  p * m \in -k..k
<1>1. r * m \in -k..k
  <2>1. r * m \in Int /\ (-r) * m = -(r * m)
    OBVIOUS
  <2> DEFINE y == r * m
  <2> HIDE DEF y
  <2>2. y \in Int /\ (-y \in -k..k \/ y \in -k..k) => y \in -k..k
    OBVIOUS
  <2> QED
    BY <2>1, <2>2 DEF y
<1>2. \A g, h \in Nat : g * h >= 0
  OBVIOUS
<1> DEFINE y == p * m
           z == r * m
<1>3. y \in Int /\ z \in Int
  OBVIOUS
<1>4. CASE m >= 0
  <2>1. (r - p) * m >= 0 /\ (r + p) * m >= 0
    BY <1>2, <1>4
  <2>2. (r - p) * m = z - y /\ (r + p) * m = z + y
    OBVIOUS
  <2> HIDE DEF y, z
  <2>3. z - y >= 0 /\ z + y >= 0
    BY <2>1, <2>2
  <2> QED
    BY <1>1, <1>3, <2>3 DEF y, z
<1>5. CASE m < 0
  <2>1. (r - p) * (-m) >= 0 /\ (r + p) * (-m) >= 0
    BY <1>2, <1>5
  <2>2. (r - p) * (-m) = y - z /\ (r + p) * (-m) = -z - y
    OBVIOUS
  <2> HIDE DEF y, z
  <2>3. y - z >= 0 /\ -z - y >= 0
    BY <2>1, <2>2
  <2> QED
    BY <1>1, <1>3, <2>3 DEF y, z
<1> QED
  BY <1>4, <1>5

\* A ratio is shown as one.
LEMMA RatioIs ==
    ASSUME SetUp, spec # Refused, NEW fault \in Faults, NEW noise \in [Streams -> Noise],
           NEW i \in DOMAIN plan, NEW n \in DOMAIN Shape(plan[i]).dims,
           Shape(plan[i]).kind = "independent", PhysicalRatio(Shape(plan[i]).dims[n]), NEW acc
    PROVE  Fits(Shape(plan[i]).dims[n], [c \in Cells |-> SampleChart(c, Values(fault, noise), acc)][<<i, n>>])
<1> DEFINE chart == plan[i]
           shape == Shape(chart)
           d == shape.dims[n]
           c == <<i, n>>
           key == Key(chart, d.signal)
           v == Values(fault, noise)
           signal == signals[d.signal]
<1>1. chart \in ToSet(plan)
  BY DEF ToSet
<1>2. c \in Cells /\ Dim(c) = d
  BY DEF Cells, Dim
<1>3. /\ chart.context \in DOMAIN spec.contexts /\ shape \in Shapes
      /\ \A s \in ToSet(Reads(shape)) : s \in DOMAIN signals /\ signals[s] \in Signals
  BY <1>1, ChartIs
<1>4. d.signal \in ToSet(Reads(shape)) /\ key \in Streams
  <2>1. Reads(shape) = [k \in DOMAIN shape.dims |-> shape.dims[k].signal]
    BY DEF Reads
  <2>2. d.signal \in ToSet(Reads(shape))
    BY <2>1 DEF ToSet
  <2> QED
    BY <1>1, <2>2 DEF Streams
<1>5. SampleChart(c, v, acc) = Round(v[key])
  <2>1. ~Counts(shape)
    BY DEF Counts
  <2> HIDE DEF v
  <2> QED
    BY <1>2, <2>1 DEF SampleChart
<1>6. /\ signal.from_attr = "" /\ signal.max_is_ceiling
      /\ Fits(d, Round(signal.min)) /\ Fits(d, Round(signal.max))
      /\ signal.ignore_weight \/ \A g \in DOMAIN profile.instances :
            \A y \in ToSet(profile.instances[g]) : y.weight \in 0 .. 100
  BY DEF PhysicalRatio
<1>7. PICK other, name : Settles(other, name, fault, noise, key)
  BY <1>4, ValueOf
<1>8. /\ other \in ToSet(plan) /\ Key(other, name) = key
      /\ v[key] = IF signals[name].from_attr # "" THEN ResolveAttr(other, signals[name].from_attr)
                  ELSE EvalSignal(signals[name], other.weight, Perturbation(fault, name), noise[key])
  BY <1>7 DEF Settles
<1>9. name = d.signal
  BY <1>8 DEF Key
<1>10. v[key] = EvalSignal(signal, other.weight, Perturbation(fault, name), noise[key])
  BY <1>6, <1>8, <1>9
<1>11. noise[key] \in Int
  BY <1>4, NumbersAssumption
<1>12. Perturbation(fault, name).multiplier \in Int /\ Perturbation(fault, name).additive \in Int
  BY FaultsAssumption DEF Perturbation
<1>13. other.weight \in Int /\ (signal.ignore_weight \/ other.weight \in 0..100)
  <2>1. other.weight \in Int
    BY <1>8, ChartIs
  <2>2. other.weight = 100 \/ \E g \in DOMAIN profile.instances : \E y \in ToSet(profile.instances[g]) :
            other.weight = y.weight
    BY <1>8, ChartIs
  <2>3. CASE other.weight = 100
    BY <2>3
  <2>4. CASE \E g \in DOMAIN profile.instances : \E y \in ToSet(profile.instances[g]) : other.weight = y.weight
    <3>1. PICK g \in DOMAIN profile.instances : \E y \in ToSet(profile.instances[g]) : other.weight = y.weight
      BY <2>4
    <3>2. PICK y \in ToSet(profile.instances[g]) : other.weight = y.weight
      BY <3>1
    <3> QED
      BY <1>6, <2>1, <3>2
  <2> QED
    BY <2>2, <2>3, <2>4
<1>14. signal \in Signals /\ signal.min \in Int /\ signal.max \in Int
  <2>1. signal \in Signals
    BY <1>3, <1>4
  <2> HIDE DEF signal
  <2> QED
    BY <2>1 DEF Signals
<1>15. d.multiplier \in Int /\ d.divisor \in Int
  <2>1. shape.dims \in Seq(Dims)
    BY <1>3 DEF Shapes
  <2> DEFINE dims == shape.dims
  <2>2. dims \in Seq(Dims) /\ n \in DOMAIN dims
    BY <2>1
  <2> HIDE DEF dims
  <2>3. dims[n] \in Dims
    BY <2>2
  <2> QED
    BY <2>3 DEF dims, Dims
<1> DEFINE K == 100 * AtLeast(d.divisor, -d.divisor)
<1>16. K \in Int
  BY <1>15 DEF AtLeast
<1>17. \A e : Fits(d, e) <=> e * d.multiplier \in -K..K
  BY DEF Fits
<1>18. [x \in Cells |-> SampleChart(x, v, acc)][c] = Round(v[key])
  BY <1>2, <1>5
<1> DEFINE B(m) == IF m >= 0 THEN m ELSE -m
           b == IF B(signal.min) >= B(signal.max) THEN B(signal.min) ELSE B(signal.max)
<1>19. b \in Nat /\ {signal.min, signal.max} \subseteq -b..b
       /\ \E m \in {signal.min, signal.max} : b = m \/ b = -m
  <2> DEFINE lo == signal.min
             hi == signal.max
  <2> HIDE DEF lo, hi
  <2>1. lo \in Int /\ hi \in Int
    BY <1>14 DEF lo, hi
  <2>2. b = IF B(lo) >= B(hi) THEN B(lo) ELSE B(hi)
    BY DEF lo, hi
  <2> HIDE DEF b
  <2>3. b \in Nat /\ {lo, hi} \subseteq -b..b /\ \E m \in {lo, hi} : b = m \/ b = -m
    BY <2>1, <2>2
  <2> QED
    BY <2>3 DEF lo, hi
<1> HIDE DEF b, B, K
<1>20. v[key] \in -b..b
  <2>1. signal \in Signals
    BY <1>14
  <2> HIDE DEF signal
  <2> QED
    BY <1>6, <1>10, <1>11, <1>12, <1>13, <1>19, <2>1, RatioKeeps
<1>21. PICK m \in {signal.min, signal.max} : b = m \/ b = -m
  BY <1>19
<1>22. Round(m) * d.multiplier \in -K..K /\ m \in Int
  BY <1>6, <1>14, <1>17, <1>21
<1> DEFINE r == Round(b)
           z == v[key]
<1> HIDE DEF z
<1>23. r \in Nat /\ Round(-b) = -r /\ Round(z) \in -r..r
  BY <1>19, <1>20, RoundWithin DEF z
<1> HIDE DEF r
<1>24. r * d.multiplier \in -K..K \/ (-r) * d.multiplier \in -K..K
  <2>1. m = b \/ m = -b
    BY <1>19, <1>21, <1>22
  <2>2. Round(m) = r \/ Round(m) = -r
    BY <1>23, <2>1 DEF r
  <2> QED
    BY <1>22, <2>2
<1>25. Round(z) * d.multiplier \in -K..K
  <2> DEFINE mm == d.multiplier
             pp == Round(z)
  <2>1. mm \in Int /\ pp \in -r..r /\ (r * mm \in -K..K \/ (-r) * mm \in -K..K)
    BY <1>15, <1>23, <1>24
  <2> HIDE DEF mm, pp
  <2>2. pp * mm \in -K..K
    BY <1>16, <1>23, <2>1, LessFits
  <2> QED
    BY <2>2 DEF mm, pp
<1> QED
  BY <1>17, <1>18, <1>25 DEF z

-----------------------------------------------------------------------------
(* The log and the charts. *)

\* What has been drawn of a signal that neither noise nor a fault moves is its bound.
SteadyIn(values) ==
    \A n : Fixed(n) /\ <<"", n>> \in Streams => values[<<"", n>>] = signals[n].min

LEMMA PerturbationIs ==
    ASSUME NEW fault \in Faults, NEW name
    PROVE  Perturbation(fault, name).multiplier \in Int /\ Perturbation(fault, name).additive \in Int
<1>1. fault.multiplier \in Int /\ fault.additive \in Int
  BY FaultsAssumption
<1>2. CASE name \in fault.on
  <2>1. Perturbation(fault, name) = fault
    BY <1>2 DEF Perturbation
  <2> QED
    BY <1>1, <2>1
<1>3. CASE name \notin fault.on
  <2>1. Perturbation(fault, name) = [multiplier |-> 1, additive |-> 0]
    BY <1>3 DEF Perturbation
  <2> QED
    BY <2>1
<1> QED
  BY <1>2, <1>3

\* Between equal bounds, of which the upper one is physical, there is one value.
LEMMA PinnedIs ==
    ASSUME NEW signal \in Signals, signal.max_is_ceiling, signal.min = signal.max,
           NEW p, p.multiplier \in Int, p.additive \in Int, NEW z \in Int
    PROVE  EvalSignal(signal, 100, p, z) = signal.min
<1> DEFINE m == signal.min
<1>0. m \in Int
  BY DEF Signals
<1>1. EvalSignal(signal, 100, p, z) \in Int
  BY EvalIs
<1>2. Weight(signal, 100) = 100
  BY DEF Weight
<1>3. signal.max = m
  OBVIOUS
<1> HIDE DEF m
<1>4. (m * 100) \div 100 = m
  <2> DEFINE y == m * 100
  <2>1. y \in Int /\ y = 100 * m + 0
    BY <1>0
  <2> HIDE DEF y
  <2>2. y \div 100 = m
    BY <1>0, <2>1, QuotientIs
  <2> QED
    BY <2>2 DEF y
<1>5. Floor(signal, 100) = m
  BY <1>4 DEF Floor, m
<1>6. Ceiling(signal, 100, p) = m
  BY <1>3, <1>4 DEF Ceiling, MaxIsPhysical
<1>7. PICK v : EvalSignal(signal, 100, p, z) = Clamp(v, m, m)
  BY <1>2, <1>5, <1>6 DEF EvalSignal
<1>8. Clamp(v, m, m) = m \/ (Clamp(v, m, m) = v /\ ~(v < m) /\ ~(v > m))
  BY DEF Clamp
<1>9. CASE Clamp(v, m, m) = m
  BY <1>7, <1>9 DEF m
<1>10. CASE Clamp(v, m, m) = v /\ ~(v < m) /\ ~(v > m)
  <2> DEFINE e == EvalSignal(signal, 100, p, z)
  <2>1. e = v /\ e \in Int
    BY <1>1, <1>7, <1>10
  <2> HIDE DEF e
  <2>2. ~(e < m) /\ ~(e > m)
    BY <1>10, <2>1
  <2>3. e = m
    BY <1>0, <2>1, <2>2
  <2> QED
    BY <2>3 DEF e, m
<1> QED
  BY <1>8, <1>9, <1>10

\* That is so in every tick, where only what the node itself shows has no name.
LEMMA FixedIs ==
    ASSUME OneNameOneSize, SetUp, spec # Refused, NEW fault \in Faults, NEW noise \in [Streams -> Noise]
    PROVE  SteadyIn(Values(fault, noise))
<1> SUFFICES ASSUME NEW n, Fixed(n), <<"", n>> \in Streams
             PROVE  Values(fault, noise)[<<"", n>>] = signals[n].min
  BY DEF SteadyIn
<1> DEFINE key == <<"", n>>
           signal == signals[n]
<1>1. PICK chart, name : Settles(chart, name, fault, noise, key)
  BY ValueOf
<1>2. /\ chart \in ToSet(plan) /\ name \in ToSet(Reads(Shape(chart))) /\ Key(chart, name) = key
      /\ Values(fault, noise)[key] =
            IF signals[name].from_attr # "" THEN ResolveAttr(chart, signals[name].from_attr)
            ELSE EvalSignal(signals[name], chart.weight, Perturbation(fault, name), noise[key])
  BY <1>1 DEF Settles
<1>3. name = n /\ chart.scope = ""
  BY <1>2 DEF Key
<1>4. chart.weight = 100
  <2>1. \A g \in DOMAIN profile.instances : \A x \in ToSet(profile.instances[g]) : x.name # ""
    BY DEF OneNameOneSize, SetUp
  <2> QED
    BY <1>2, <1>3, <2>1, ChartIs
<1>5. signal \in Signals /\ noise[key] \in Int
  BY <1>2, <1>3, ChartIs, NumbersAssumption
<1>6. Perturbation(fault, n).multiplier \in Int /\ Perturbation(fault, n).additive \in Int
  BY PerturbationIs
<1>7. signal.from_attr = "" /\ signal.max_is_ceiling /\ signal.min = signal.max
  BY DEF Fixed
<1>8. Values(fault, noise)[key] = EvalSignal(signal, 100, Perturbation(fault, n), noise[key])
  BY <1>2, <1>3, <1>4, <1>7
<1> HIDE DEF signal, key
<1> QED
  BY <1>5, <1>6, <1>7, <1>8, PinnedIs DEF key, signal

\* What either engine has drawn of such a signal is its bound.
Steady == (sample # Nothing => SteadyIn(drawn)) /\ (lines # {} => SteadyIn(told))

LEMMA SteadyHolds ==
    ASSUME OneNameOneSize
    PROVE  Spec => []Steady
<1>1. Init => Steady
  BY DEF Init, Steady
<1>2. SetUp /\ Steady /\ [Next]_engineVars => Steady'
  <2> SUFFICES ASSUME SetUp, Steady, [Next]_engineVars PROVE Steady'
    OBVIOUS
  <2>0. profile' = profile /\ spec' = spec /\ signals' = signals /\ plan' = plan
    BY DEF Next, EngineTick, LogsTick, engineVars
  <2>1. ASSUME NEW v PROVE SteadyIn(v)' <=> SteadyIn(v)
    BY <2>0, SameTick DEF SteadyIn, Fixed
  <2>2. CASE EngineTick
    <3>1. PICK fault \in Faults, noise \in [Streams -> Noise] : drawn' = Values(fault, noise)
      BY <2>2 DEF EngineTick
    <3>2. spec # Refused /\ told' = told /\ lines' = lines
      BY <2>2 DEF EngineTick
    <3> DEFINE v == Values(fault, noise)
    <3>3. SteadyIn(v) /\ drawn' = v
      BY <3>1, <3>2, FixedIs
    <3> HIDE DEF v
    <3>4. SteadyIn(drawn)'
      BY <2>0, <3>3, SameTick DEF SteadyIn, Fixed
    <3>5. (lines # {} => SteadyIn(told))'
      BY <2>0, <3>2, SameTick DEF Steady, SteadyIn, Fixed
    <3> QED
      BY <3>4, <3>5 DEF Steady
  <2>3. CASE LogsTick
    <3>1. PICK fault \in Faults, noise \in [Streams -> Noise] : told' = Values(fault, noise)
      BY <2>3 DEF LogsTick
    <3>2. spec # Refused /\ drawn' = drawn /\ sample' = sample
      BY <2>3 DEF LogsTick
    <3> DEFINE v == Values(fault, noise)
    <3>3. SteadyIn(v) /\ told' = v
      BY <3>1, <3>2, FixedIs
    <3> HIDE DEF v
    <3>4. SteadyIn(told)'
      BY <2>0, <3>3, SameTick DEF SteadyIn, Fixed
    <3>5. (sample # Nothing => SteadyIn(drawn))'
      BY <2>0, <3>2, SameTick DEF Steady, SteadyIn, Fixed, Nothing
    <3> QED
      BY <3>4, <3>5 DEF Steady
  <2>4. CASE UNCHANGED engineVars
    <3>1. drawn' = drawn /\ sample' = sample /\ told' = told /\ lines' = lines
      BY <2>4 DEF engineVars
    <3> QED
      BY <2>0, <3>1, SameTick DEF Steady, SteadyIn, Fixed, Nothing
  <2> QED
    BY <2>2, <2>3, <2>4 DEF Next
<1> QED
  BY <1>1, <1>2, SetUpHolds, PTL DEF Spec

\* A line gives the number of its own engine, and the capacity that the charts of both have.
LEMMA CorrelatedIs ==
    ASSUME VolumesArePartitions, OneNameOneSize, SizesNatural, SetUp, Sampled, Told, Steady
    PROVE  Correlated
<1> SUFFICES ASSUME NEW l \in lines, NEW c \in Cells, plan[c[1]].scope = l.instance
             PROVE  LET chart  == plan[c[1]]
                        dims   == Shape(chart).dims
                        volume == /\ Shape(chart).kind = "partition" /\ ~Shape(chart).jiffies
                                  /\ Shape(chart).driver = l.rule.signal /\ Shape(chart).attr = l.rule.attr
                                  /\ l.rule.volume
                        off    == Added([n \in DOMAIN dims |-> sample[<<c[1], n>>]]) * Unit - l.capacity
                    IN  /\ (Shape(chart).kind = "independent" /\ Dim(c).signal = l.rule.signal)
                              => OfLogs(c) = Round(l.value)
                        /\ (volume /\ Dim(c).remainder /\ AllShares(Shape(chart)) = 100)
                              => OfLogs(c) = Round(l.capacity - l.value)
                        /\ (volume /\ sample # Nothing) => AtLeast(off, -off) * 2 <= Len(dims) * Unit
                        /\ ( /\ Shape(chart).kind = "independent" /\ Dim(c).signal = l.rule.limit
                             /\ l.rule.limit # "" /\ l.instance = "" /\ Fixed(l.rule.limit)
                             /\ sample # Nothing )
                              => sample[c] = Round(l.capacity)
  BY DEF Correlated
<1>1. spec # Refused /\ told \in [Streams -> Int] /\ lines = Lines(told)
  BY DEF Told
<1> DEFINE chart == plan[c[1]]
           dims == Shape(chart).dims
           r == l.rule
           i == l.instance
           off == Added([n \in DOMAIN dims |-> sample[<<c[1], n>>]]) * Unit - l.capacity
<1>2. /\ r \in Rules /\ i \in InstancesFor(r)
      /\ l.capacity \in Capacity(r, i, told) /\ l.capacity > 0
      /\ \E v \in Observed(told, i, r.signal), k \in Capacity(r, i, told) : l.value = Used(r, v, k)
  BY <1>1, LineIs
<1>3. PICK v \in Observed(told, i, r.signal), k \in Capacity(r, i, told) : l.value = Used(r, v, k)
  BY <1>2
<1>4. /\ OfLogs(c) = SampleChart(c, told, counters) /\ chart \in ToSet(plan) /\ c[1] \in DOMAIN plan
      /\ Dim(c) = dims[c[2]] /\ c[2] \in DOMAIN dims
  BY CellIs DEF OfLogs
<1>5. ASSUME <<i, r.signal>> \in Streams PROVE v = told[<<i, r.signal>>] /\ v \in Int
  <2>1. v = told[<<i, r.signal>>]
    BY <1>1, <1>3, <1>5 DEF Observed
  <2> QED
    BY <1>1, <1>5, <2>1
<1>6. ASSUME Shape(chart).kind = "independent", Dim(c).signal = r.signal
      PROVE  OfLogs(c) = Round(l.value)
  <2>1. /\ <<chart.scope, Dim(c).signal>> \in Streams
        /\ SampleChart(c, told, counters) = Round(told[<<chart.scope, Dim(c).signal>>])
    BY <1>6, ShownIs
  <2>2. v = told[<<i, r.signal>>]
    BY <1>5, <1>6, <2>1
  <2>3. ~r.volume
    <3>1. /\ spec.contexts[chart.context] \in ToSet(Compose(profile.base, profile.services).contexts)
          /\ spec.contexts[chart.context].shape = Shape(chart)
      BY <1>1, <1>4, ChartIs DEF Shape, SetUp, ToSet
    <3> QED
      BY <1>2, <1>4, <1>6, <3>1 DEF VolumesArePartitions, SetUp
  <2>4. l.value = v
    BY <1>3, <2>3 DEF Used
  <2> QED
    BY <1>4, <1>6, <2>1, <2>2, <2>4
<1> DEFINE T == Total(chart)
<1>7. ASSUME Shape(chart).attr = r.attr, r.volume
      PROVE  l.capacity = T /\ k = T /\ T \in Int /\ T > 0
  <2>1. r.attr # ""
    BY <1>2, <1>7, RulesAssumption
  <2>2. T = ResolveAttr(chart, r.attr)
    BY <1>7, <2>1 DEF Total
  <2>3. l.capacity = T /\ k = T
    BY <1>1, <1>2, <1>3, <1>4, <1>7, <2>2, SizeIs
  <2> QED
    BY <1>2, <1>4, <2>2, <2>3, AttrIs
<1>8. ASSUME Shape(chart).kind = "partition", ~Shape(chart).jiffies, Dim(c).remainder,
             Shape(chart).driver = r.signal, Shape(chart).attr = r.attr, r.volume,
             AllShares(Shape(chart)) = 100
      PROVE  OfLogs(c) = Round(l.capacity - l.value)
  <2> DEFINE D == Driver(chart, told)
  <2>1. <<i, r.signal>> \in Streams /\ Key(chart, r.signal) = <<i, r.signal>>
    <3>1. Reads(Shape(chart)) = <<r.signal>>
      BY <1>8 DEF Reads
    <3>2. r.signal \in ToSet(Reads(Shape(chart)))
      BY <3>1 DEF ToSet
    <3>3. Key(chart, r.signal) \in Streams
      BY <1>4, <3>2 DEF Streams
    <3> QED
      BY <3>3 DEF Key
  <2>2. v = told[<<i, r.signal>>] /\ v \in Int
    BY <1>5, <2>1
  <2>3. l.capacity = T /\ k = T /\ T \in Int /\ T > 0
    BY <1>7, <1>8
  <2>4. D = Clamp(v, 0, T)
    BY <1>8, <2>1, <2>2 DEF Driver
  <2>5. l.value = D
    BY <1>3, <1>8, <2>3, <2>4 DEF Used
  <2>6. ~Counts(Shape(chart))
    BY <1>8 DEF Counts
  <2>7. OfLogs(c) = RoundTo(100 * Unit, Part(chart, Dim(c), D))
    BY <1>4, <1>8, <2>6 DEF SampleChart
  <2>8. D \in Int /\ 0 <= D /\ D <= T
    <3> HIDE DEF D, T
    <3> QED
      BY <2>2, <2>3, <2>4 DEF Clamp
  <2>9. Part(chart, Dim(c), D) = AtLeast(100 * T - D * 100, 0)
    BY <1>8 DEF Part
  <2> HIDE DEF D, T
  <2>10. AtLeast(100 * T - D * 100, 0) = 100 * (T - D) /\ T - D \in Nat
    BY <2>3, <2>8 DEF AtLeast
  <2>11. RoundTo(100 * Unit, 100 * (T - D)) = Round(T - D)
    BY <2>10, RoundIs
  <2> QED
    BY <2>3, <2>5, <2>7, <2>9, <2>10, <2>11
<1>9. ASSUME Shape(chart).kind = "partition", ~Shape(chart).jiffies, Shape(chart).attr = r.attr, r.volume,
             sample # Nothing
      PROVE  AtLeast(off, -off) * 2 <= Len(dims) * Unit
  <2>1. drawn \in [Streams -> Int] /\ sample = [x \in Cells |-> SampleChart(x, drawn, counters)]
    BY <1>9 DEF Sampled
  <2> DEFINE n == Len(dims)
             w == Added([m \in DOMAIN dims |-> sample[<<c[1], m>>]]) * Unit - T
  <2>2. n \in Nat /\ w \in Int /\ -(n * Unit) <= 2 * w /\ 2 * w <= n * Unit
    <3> DEFINE shown == [x \in Cells |-> SampleChart(x, drawn, counters)]
               j == c[1]
               off2 == Added([m \in DOMAIN dims |-> shown[<<j, m>>]]) * Unit - T
    <3>1. j \in DOMAIN plan /\ Shape(plan[j]).kind = "partition" /\ ~Shape(plan[j]).jiffies
      BY <1>4, <1>9
    <3> HIDE DEF j
    <3>2. /\ Len(Shape(plan[j]).dims) \in Nat
          /\ Added([m \in DOMAIN Shape(plan[j]).dims |-> shown[<<j, m>>]]) * Unit - Total(plan[j]) \in Int
          /\ -(Len(Shape(plan[j]).dims) * Unit)
                <= 2 * (Added([m \in DOMAIN Shape(plan[j]).dims |-> shown[<<j, m>>]]) * Unit - Total(plan[j]))
          /\ 2 * (Added([m \in DOMAIN Shape(plan[j]).dims |-> shown[<<j, m>>]]) * Unit - Total(plan[j]))
                <= Len(Shape(plan[j]).dims) * Unit
      BY <1>1, <2>1, <3>1, RoundedSum
    <3>3. shown = sample
      BY <2>1
    <3> HIDE DEF shown
    <3> QED
      BY <3>2, <3>3 DEF j
  <2>3. off = w
    BY <1>7, <1>9
  <2>4. n * Unit \in Int
    BY <2>2, NumbersAssumption
  <2> HIDE DEF off, n, w
  <2>5. AtLeast(w, -w) * 2 <= n * Unit
    BY <2>2, <2>4 DEF AtLeast
  <2> QED
    BY <2>3, <2>5 DEF n
<1>10. ASSUME Shape(chart).kind = "independent", Dim(c).signal = r.limit, r.limit # "", i = "",
              Fixed(r.limit), sample # Nothing
       PROVE  sample[c] = Round(l.capacity)
  <2>1. sample[c] = SampleChart(c, drawn, counters)
    BY <1>10 DEF Sampled
  <2>2. <<"", r.limit>> \in Streams /\ sample[c] = Round(drawn[<<"", r.limit>>])
    BY <1>10, <2>1, ShownIs
  <2>3. drawn[<<"", r.limit>>] = signals[r.limit].min /\ told[<<"", r.limit>>] = signals[r.limit].min
    BY <1>10, <2>2 DEF Steady, SteadyIn
  <2>4. Capacity(r, i, told) = {told[<<"", r.limit>>]}
    <3>1. Capacity(r, i, told) = Observed(told, i, r.limit)
      <4>1. r.limit # ""
        BY <1>10
      <4> HIDE DEF r
      <4> QED
        BY <4>1 DEF Capacity
    <3> QED
      BY <1>1, <1>10, <2>2, <3>1 DEF Observed
  <2> QED
    BY <1>2, <2>2, <2>3, <2>4
<1> QED
  BY <1>6, <1>8, <1>9, <1>10

\* The charts agree with each other, and the log with its own engine and with the capacities that the
\* charts show: for all files whose volumes partitions alone show, and whose names stand for one size.
THEOREM CoherentHolds ==
    ASSUME VolumesArePartitions, OneNameOneSize, SizesNatural
    PROVE  Spec => []Coherent
<1>1. SetUp /\ Sampled /\ Told /\ Steady => Coherent
  BY OneValueIs, CorrelatedIs DEF Coherent
<1> QED
  BY <1>1, SetUpHolds, SampledHolds, ToldHolds, SteadyHolds, PTL

-----------------------------------------------------------------------------
(* What the lint never reports. *)

\* What is reported after a tick was reported before, or found in it.
LEMMA FoundIs ==
    ASSUME SetUp, EngineTick
    PROVE  /\ spec # Refused /\ profile' = profile /\ spec' = spec /\ signals' = signals /\ plan' = plan
           /\ \E fault \in Faults, noise \in [Streams -> Noise] :
                LET shown == [c \in Cells |-> SampleChart(c, Values(fault, noise), Accumulated(Values(fault, noise)))]
                IN  /\ Values(fault, noise) \in [Streams -> Int] /\ last' = Track(shown)
                    /\ \A x \in violations' : x \in violations \/ x[1] = "counter went backwards"
                                                \/ \E i \in DOMAIN plan : x \in CheckSample(i, shown)
<1>1. spec # Refused /\ profile' = profile /\ spec' = spec /\ signals' = signals /\ plan' = plan
  BY TickIs
<1>2. PICK fault \in Faults, noise \in [Streams -> Noise] :
        LET values == Values(fault, noise)
            shown  == [c \in Cells |-> SampleChart(c, values, Accumulated(values))]
        IN  /\ values \in [Streams -> Int]
            /\ counters' = Accumulated(values) /\ last' = Track(shown)
            /\ violations' = violations \cup Fell(shown) \cup UNION {CheckSample(i, shown) : i \in DOMAIN plan}
  BY TickIs
<1> DEFINE shown == [c \in Cells |-> SampleChart(c, Values(fault, noise), Accumulated(Values(fault, noise)))]
<1>3. /\ Values(fault, noise) \in [Streams -> Int] /\ last' = Track(shown)
      /\ violations' = violations \cup Fell(shown) \cup UNION {CheckSample(i, shown) : i \in DOMAIN plan}
  BY <1>2
<1> HIDE DEF shown
<1>4. ASSUME NEW x \in Fell(shown) PROVE x[1] = "counter went backwards"
  <2>1. PICK c \in Cells : x = <<"counter went backwards", Name(c)>>
    BY DEF Fell
  <2> QED
    BY <2>1
<1>5. \A x \in violations' : x \in violations \/ x[1] = "counter went backwards"
                                \/ \E i \in DOMAIN plan : x \in CheckSample(i, shown)
  BY <1>3, <1>4
<1> QED
  BY <1>1, <1>3, <1>5 DEF shown

\* The rounded parts of a partition are off its total by half a unit for each of them at the most.
Close ==
    sample # Nothing => \A i \in DOMAIN plan :
        (Shape(plan[i]).kind = "partition" /\ ~Shape(plan[i]).jiffies) =>
            LET dims == Shape(plan[i]).dims
                off  == Added([n \in DOMAIN dims |-> sample[<<i, n>>]]) * Unit - Total(plan[i])
            IN  -(Len(dims) * Unit) <= 2 * off /\ 2 * off <= Len(dims) * Unit

\* That is so in every tick (sample_chart): for all partitions, of any number of parts.
THEOREM CloseHolds ==
    ASSUME SizesNatural
    PROVE  Spec => []Close
<1>1. SetUp /\ Sampled => Close
  <2> SUFFICES ASSUME SetUp, Sampled, sample # Nothing, NEW i \in DOMAIN plan,
                      Shape(plan[i]).kind = "partition", ~Shape(plan[i]).jiffies
               PROVE  LET dims == Shape(plan[i]).dims
                          off  == Added([n \in DOMAIN dims |-> sample[<<i, n>>]]) * Unit - Total(plan[i])
                      IN  -(Len(dims) * Unit) <= 2 * off /\ 2 * off <= Len(dims) * Unit
    BY DEF Close
  <2>1. /\ spec # Refused /\ drawn \in [Streams -> Int]
        /\ sample = [c \in Cells |-> SampleChart(c, drawn, counters)]
    BY DEF Sampled
  <2> QED
    BY <2>1, RoundedSum
<1> QED
  BY <1>1, SetUpHolds, SampledHolds, PTL

\* What is said not to add up has more parts than the lint allows for (sample_chart, check_sample): for
\* all partitions, of any number of parts.
THEOREM AddsUpHolds ==
    ASSUME SizesNatural
    PROVE  Spec => []AddsUp
<1>1. Init => AddsUp
  BY DEF Init, AddsUp, Found
<1>2. SetUp /\ AddsUp /\ [Next]_engineVars => AddsUp'
  <2> SUFFICES ASSUME SetUp, AddsUp, [Next]_engineVars PROVE AddsUp'
    OBVIOUS
  <2> DEFINE Allows(id) == \E chart \in ToSet(plan) :
                chart.id = id /\ Shape(chart).kind = "partition" /\ ~FewParts(chart)
  <2>0. \A x \in violations : x[1] = "conservation broken" => Allows(x[2])
    BY DEF AddsUp, Found
  <2>1. CASE EngineTick
    <3>0. spec # Refused /\ profile' = profile /\ spec' = spec /\ signals' = signals /\ plan' = plan
      BY <2>1, FoundIs
    <3>1. PICK fault \in Faults, noise \in [Streams -> Noise] :
            LET shown == [c \in Cells |-> SampleChart(c, Values(fault, noise), Accumulated(Values(fault, noise)))]
            IN  /\ Values(fault, noise) \in [Streams -> Int]
                /\ \A x \in violations' : x \in violations \/ x[1] = "counter went backwards"
                                            \/ \E i \in DOMAIN plan : x \in CheckSample(i, shown)
      BY <2>1, FoundIs
    <3> DEFINE v == Values(fault, noise)
               a == Accumulated(v)
               shown == [c \in Cells |-> SampleChart(c, v, a)]
    <3>2. \A x \in violations' : x \in violations \/ x[1] = "counter went backwards"
                                    \/ \E i \in DOMAIN plan : x \in CheckSample(i, shown)
      BY <3>1
    <3> HIDE DEF a
    <3>3. ASSUME NEW i \in DOMAIN plan, NEW x \in CheckSample(i, shown), x[1] = "conservation broken"
          PROVE  Allows(x[2])
      <4>1. v \in [Streams -> Int]
        BY <3>1
      <4> HIDE DEF v
      <4>2. (Shape(plan[i]).kind = "partition" /\ ~Shape(plan[i]).jiffies /\ FewParts(plan[i])) => ~Broken(i, shown)
        BY <3>0, <4>1, NotBroken
      <4>3. plan[i] \in ToSet(plan)
        BY DEF ToSet
      <4> HIDE DEF shown
      <4>4. /\ x[2] = plan[i].id /\ Shape(plan[i]).kind = "partition" /\ ~Shape(plan[i]).jiffies
            /\ Broken(i, shown)
        BY <3>3, CheckIs
      <4> QED
        BY <4>2, <4>3, <4>4
    <3> HIDE DEF shown, Allows
    <3>4. \A x \in violations' : x[1] = "conservation broken" => Allows(x[2])
      BY <2>0, <3>2, <3>3
    <3>5. \A x : FewParts(x)' = FewParts(x) /\ Shape(x)' = Shape(x)
      BY <3>0 DEF FewParts, Total, ResolveAttr, Shape
    <3> QED
      BY <3>0, <3>4, <3>5 DEF AddsUp, Found, Allows
  <2>2. CASE ~EngineTick
    <3>0. profile' = profile /\ spec' = spec /\ signals' = signals /\ plan' = plan /\ violations' = violations
      BY <2>2, RestsIs DEF Rests
    <3>5. \A x : FewParts(x)' = FewParts(x) /\ Shape(x)' = Shape(x)
      BY <3>0 DEF FewParts, Total, ResolveAttr, Shape
    <3> QED
      BY <2>0, <3>0, <3>5 DEF AddsUp, Found
  <2> QED
    BY <2>1, <2>2
<1> QED
  BY <1>1, <1>2, SetUpHolds, PTL DEF Spec

\* What is said to be out of its range has no physical bounds of a ratio (eval_signal, check_sample): for
\* all faults, noise and weights.
THEOREM InRangeHolds ==
    Spec => []InRange
<1>1. Init => InRange
  BY DEF Init, InRange, Found
<1>2. SetUp /\ InRange /\ [Next]_engineVars => InRange'
  <2> SUFFICES ASSUME SetUp, InRange, [Next]_engineVars PROVE InRange'
    OBVIOUS
  <2> DEFINE Allows(id, n) == \E chart \in ToSet(plan) :
                /\ chart.id = id /\ n \in DOMAIN Shape(chart).dims
                /\ ~PhysicalRatio(Shape(chart).dims[n])
  <2>0. \A x \in violations : x[1] = "unit out of range" => Allows(x[2], x[3])
    BY DEF InRange, Found
  <2>1. CASE EngineTick
    <3>0. spec # Refused /\ profile' = profile /\ spec' = spec /\ signals' = signals /\ plan' = plan
      BY <2>1, FoundIs
    <3>1. PICK fault \in Faults, noise \in [Streams -> Noise] :
            LET shown == [c \in Cells |-> SampleChart(c, Values(fault, noise), Accumulated(Values(fault, noise)))]
            IN  /\ Values(fault, noise) \in [Streams -> Int]
                /\ \A x \in violations' : x \in violations \/ x[1] = "counter went backwards"
                                            \/ \E i \in DOMAIN plan : x \in CheckSample(i, shown)
      BY <2>1, FoundIs
    <3> DEFINE v == Values(fault, noise)
               a == Accumulated(v)
               shown == [c \in Cells |-> SampleChart(c, v, a)]
    <3>2. \A x \in violations' : x \in violations \/ x[1] = "counter went backwards"
                                    \/ \E i \in DOMAIN plan : x \in CheckSample(i, shown)
      BY <3>1
    <3> HIDE DEF a
    <3>3. ASSUME NEW i \in DOMAIN plan, NEW x \in CheckSample(i, shown), x[1] = "unit out of range"
          PROVE  Allows(x[2], x[3])
      <4>1. ASSUME NEW n \in DOMAIN Shape(plan[i]).dims, Shape(plan[i]).kind = "independent",
                   PhysicalRatio(Shape(plan[i]).dims[n])
            PROVE  Fits(Shape(plan[i]).dims[n], shown[<<i, n>>])
        BY <3>0, <4>1, RatioIs
      <4>2. plan[i] \in ToSet(plan)
        BY DEF ToSet
      <4> HIDE DEF shown
      <4>3. /\ x[2] = plan[i].id /\ Shape(plan[i]).kind = "independent"
            /\ x[3] \in DOMAIN Shape(plan[i]).dims /\ ~Fits(Shape(plan[i]).dims[x[3]], shown[<<i, x[3]>>])
        BY <3>3, CheckIs
      <4>4. ~PhysicalRatio(Shape(plan[i]).dims[x[3]])
        BY <4>1, <4>3
      <4> QED
        BY <4>2, <4>3, <4>4
    <3> HIDE DEF shown, Allows
    <3>4. \A x \in violations' : x[1] = "unit out of range" => Allows(x[2], x[3])
      BY <2>0, <3>2, <3>3
    <3>5. \A x : PhysicalRatio(x)' = PhysicalRatio(x) /\ Shape(x)' = Shape(x)
      BY <3>0 DEF PhysicalRatio, Fits, Shape
    <3> QED
      BY <3>0, <3>4, <3>5 DEF InRange, Found, Allows
  <2>2. CASE ~EngineTick
    <3>0. profile' = profile /\ spec' = spec /\ signals' = signals /\ plan' = plan /\ violations' = violations
      BY <2>2, RestsIs DEF Rests
    <3>5. \A x : PhysicalRatio(x)' = PhysicalRatio(x) /\ Shape(x)' = Shape(x)
      BY <3>0 DEF PhysicalRatio, Fits, Shape
    <3> QED
      BY <2>0, <3>0, <3>5 DEF InRange, Found
  <2> QED
    BY <2>1, <2>2
<1> QED
  BY <1>1, <1>2, SetUpHolds, PTL DEF Spec

\* A total is reported missing only where it is.
LEMMA OnlyMissingHolds == Spec => []OnlyMissing
<1>1. Init => OnlyMissing
  BY DEF Init, OnlyMissing, Found
<1>2. SetUp /\ OnlyMissing /\ [Next]_engineVars => OnlyMissing'
  <2> SUFFICES ASSUME SetUp, OnlyMissing, [Next]_engineVars PROVE OnlyMissing'
    OBVIOUS
  <2> DEFINE Lacks(id) == \E chart \in ToSet(plan) :
                chart.id = id /\ Shape(chart).kind = "partition" /\ Total(chart) = 0
  <2>0. \A x \in violations : x[1] = "partition total missing" => Lacks(x[2])
    BY DEF OnlyMissing, Found
  <2>1. CASE EngineTick
    <3>1. PICK shown : \A x \in violations' : x \in violations \/ x[1] = "counter went backwards"
                                            \/ \E i \in DOMAIN plan : x \in CheckSample(i, shown)
      BY <2>1, FoundIs
    <3>2. ASSUME NEW i \in DOMAIN plan, NEW x \in CheckSample(i, shown), x[1] = "partition total missing"
          PROVE  Lacks(x[2])
      <4>1. /\ x[2] = plan[i].id /\ Shape(plan[i]).kind = "partition" /\ Shape(plan[i]).attr # ""
            /\ Shape(plan[i]).attr \notin DOMAIN plan[i].attrs
            /\ Shape(plan[i]).attr \notin DOMAIN profile.attrs
        BY <3>2, CheckIs
      <4>2. Total(plan[i]) = 0
        BY <4>1 DEF Total, ResolveAttr
      <4>3. plan[i] \in ToSet(plan)
        BY DEF ToSet
      <4> QED
        BY <4>1, <4>2, <4>3
    <3> HIDE DEF Lacks
    <3>3. \A x \in violations' : x[1] = "partition total missing" => Lacks(x[2])
      BY <2>0, <3>1, <3>2
    <3>4. profile' = profile /\ spec' = spec /\ plan' = plan
      BY <2>1, FoundIs
    <3>5. \A x : Total(x)' = Total(x) /\ Shape(x)' = Shape(x)
      BY <3>4 DEF Total, ResolveAttr, Shape
    <3> QED
      BY <3>3, <3>4, <3>5 DEF OnlyMissing, Found, Lacks
  <2>2. CASE ~EngineTick
    <3>1. profile' = profile /\ spec' = spec /\ plan' = plan /\ violations' = violations
      BY <2>2, RestsIs DEF Rests
    <3>2. \A x : Total(x)' = Total(x) /\ Shape(x)' = Shape(x)
      BY <3>1 DEF Total, ResolveAttr, Shape
    <3> QED
      BY <2>0, <3>1, <3>2 DEF OnlyMissing, Found
  <2> QED
    BY <2>1, <2>2
<1> QED
  BY <1>1, <1>2, SetUpHolds, PTL DEF Spec

\* What the lint calls stuck was not declared so.
LEMMA StuckVariesIs ==
    ASSUME NamesApart, RolesKeepRanges, SetUp, last # Nothing => spec # Refused
    PROVE  StuckVaries
<1> SUFFICES ASSUME last # Nothing, NEW v \in Flat, NEW c \in Cells,
                    Name(c) = v[2], Shape(plan[c[1]]).kind # "partition"
             PROVE  /\ signals[Dim(c).signal].from_attr = ""
                    /\ signals[Dim(c).signal].min # signals[Dim(c).signal].max
  BY DEF StuckVaries
<1>1. PICK e \in Cells : /\ v = <<"perfectly flat", Name(e)>>
                         /\ ~DimensionIsConstant(plan[e[1]], Dim(e), last[Name(e)].value)
  BY DEF Flat
<1>2. e = c
  BY <1>1, CellsApart
<1> DEFINE shape == Shape(plan[c[1]])
           s == Dim(c).signal
<1>3. spec.signals[s].min # spec.signals[s].max /\ spec.signals[s].from_attr = ""
  BY <1>1, <1>2 DEF DimensionIsConstant
<1>4. plan[c[1]] \in ToSet(plan) /\ c[2] \in DOMAIN shape.dims /\ Dim(c) = shape.dims[c[2]]
  BY CellIs
<1>5. s \in DOMAIN spec.signals
  <2>1. Reads(shape) = [k \in DOMAIN shape.dims |-> shape.dims[k].signal]
    BY DEF Reads
  <2>2. s \in ToSet(Reads(shape))
    BY <1>4, <2>1 DEF ToSet
  <2>3. s \in DOMAIN signals
    BY <1>4, <2>2, ChartIs
  <2> QED
    BY <2>3 DEF SetUp, SignalsForRole
<1>6. signals[s].min # signals[s].max
  <2>1. /\ profile \in Profiles /\ Composition(profile) = spec
        /\ signals = SignalsForRole(Composition(profile), profile.role)
    BY DEF Composition, SetUp
  <2> HIDE DEF s
  <2> QED
    BY <1>3, <1>5, <2>1 DEF RolesKeepRanges
<1>7. signals[s].from_attr = spec.signals[s].from_attr
  <2>1. spec \in AllSpecs /\ spec.signals[s] \in Signals
    BY <1>5, SpecHas, SpecIs
  <2>2. CASE profile.role \in DOMAIN spec.roles /\ s \in DOMAIN spec.roles[profile.role]
    <3>1. spec.roles[profile.role][s] \in Patches
      BY <2>1, <2>2, SpecIs
    <3>2. signals[s] = Apply(spec.signals[s], spec.roles[profile.role][s])
      BY <1>5, <2>2 DEF SetUp, SignalsForRole
    <3>3. "from_attr" \notin DOMAIN spec.roles[profile.role][s]
      BY <3>1, PatchIs DEF IsPatch
    <3>4. "from_attr" \in DOMAIN spec.signals[s]
      BY <2>1 DEF Signals
    <3> QED
      BY <3>2, <3>3, <3>4 DEF Apply
  <2>3. CASE ~(profile.role \in DOMAIN spec.roles /\ s \in DOMAIN spec.roles[profile.role])
    BY <1>5, <2>3 DEF SetUp, SignalsForRole
  <2> QED
    BY <2>2, <2>3
<1> QED
  BY <1>3, <1>6, <1>7

\* The lint is quiet about what validation accepts, under any fault and noise: for all files that are
\* written as it takes them to be.
THEOREM LintQuietHolds ==
    ASSUME NamesApart, SizesNatural, RolesKeepRanges
    PROVE  Spec => []LintQuiet
<1> DEFINE Tracked == last # Nothing => spec # Refused
<1>1. Init => Tracked
  BY DEF Init
<1>2. SetUp /\ Tracked /\ [Next]_engineVars => Tracked'
  <2> SUFFICES ASSUME SetUp, Tracked, [Next]_engineVars PROVE Tracked'
    OBVIOUS
  <2>1. CASE EngineTick
    BY <2>1, FoundIs
  <2>2. CASE ~EngineTick
    BY <2>2, RestsIs DEF Rests
  <2> QED
    BY <2>1, <2>2
<1>3. SetUp /\ Tracked => StuckVaries
  BY StuckVariesIs
<1>4. Spec => []NeverBack
  BY NeverBackHolds
<1>5. Spec => []AddsUp
  BY AddsUpHolds
<1>6. Spec => []InRange
  BY InRangeHolds
<1>7. NeverBack /\ AddsUp /\ InRange /\ OnlyMissing /\ StuckVaries => LintQuiet
  BY DEF LintQuiet
<1> HIDE DEF Tracked
<1> QED
  BY <1>1, <1>2, <1>3, <1>4, <1>5, <1>6, <1>7, SetUpHolds, OnlyMissingHolds, PTL DEF Spec

-----------------------------------------------------------------------------
(* The host. *)

USE DEF createVars, teardownVars, diskVars, agentVars, godVars, sideVars, vars,
        Fleets, None, Foreign, No, ByLoad, ByCreate, Copying, Enabling, Removing

\* A plugin that the agent has disabled does not run.
CauseInv == proc.pc # "none" => disabled = No

OperatorsInv ==
    /\ OperatorsKept
    /\ cpc \in {"vnodes", "jobs"} => "jobs" \notin theirs

\* One request at a time: nobody writes the environment or the plugin under a teardown.
ApartInv ==
    /\ cpc = "idle" \/ tpc = "idle"
    /\ tpc \notin {"idle", "archive"} => env \in archived
    /\ cpc \in {"fill", "reempty", "refill", "rename"} => env # NoEnv
    /\ tres \in {"done", "left"} => tpc = "idle"
    /\ Stopped

\* A plugin that had loaded when its file was taken exits by itself, and none follows it.
SawInv ==
    /\ clean => tpc \in Removing
    /\ saw => tpc \in {"wait", "kill", "again"} \cup Removing
    /\ saw /\ (clean \/ tpc = "wait") =>
          bin = None /\ disabled = No /\ proc.pc \in {"none", "loaded", "running"}
    /\ saw /\ clean => proc.pc = "none"

HostInv == CauseInv /\ OperatorsInv /\ (Apart => ApartInv /\ SawInv)

Gone == bin = None /\ ~Visible

-----------------------------------------------------------------------------
\* A plugin whose file is gone and that does not run does not come back by itself.
LEMMA PluginKeeps ==
    ASSUME PluginNext
    PROVE  /\ CauseInv => CauseInv'
           /\ Gone => Gone'
           /\ bin = None /\ disabled = No /\ proc.pc \in {"none", "loaded", "running"} =>
                 /\ disabled' = No /\ proc'.pc \in {"none", "loaded", "running"}
                 /\ proc.pc = "none" => proc'.pc = "none"
           /\ UNCHANGED <<createVars, teardownVars, diskVars, godVars, sideVars>>
<1> USE DEF Gone, Visible, NoProc, CauseInv
<1>1. CASE Launch
  BY <1>1 DEF Launch
<1>2. CASE Exec
  BY <1>2 DEF Exec
<1>3. CASE Handles
  BY <1>3 DEF Handles
<1>4. CASE Load
  BY <1>4 DEF Load
<1>5. CASE Stamps
  BY <1>5 DEF Stamps
<1>6. CASE Tick
  BY <1>6 DEF Tick
<1> QED
  BY <1>1, <1>2, <1>3, <1>4, <1>5, <1>6 DEF PluginNext

LEMMA Killed ==
    ASSUME NEW cause, StopPlugin(cause)
    PROVE  /\ CauseInv => CauseInv'
           /\ ~Visible => ~Visible'
BY DEF StopPlugin, Visible, NoProc, CauseInv

LEMMA SideKeeps ==
    ASSUME SideNext
    PROVE  UNCHANGED <<createVars, teardownVars, diskVars, agentVars, jobs, vnodes, theirs>>
BY DEF SideNext, GoDStarts, WriterStarts, WriterWrites, WriterEnds, Binds, Stops

-----------------------------------------------------------------------------
(* The agent's flag. *)

LEMMA CauseStep == ASSUME HostInv, HostNext PROVE CauseInv'
<1>1. CauseInv
  BY DEF HostInv
<1>2. CASE PluginNext
  BY <1>1, <1>2, PluginKeeps
<1>3. CASE SideNext
  BY <1>1, <1>3, SideKeeps DEF CauseInv
<1>4. CASE StopPrevious
  BY <1>1, <1>4, Killed DEF StopPrevious
<1>5. CASE CreateNext /\ ~StopPrevious
  BY <1>1, <1>5 DEF CauseInv, CreateNext, Create, Refuse, HandOver, Write, Lint, CopySpecs,
     CopyEnv, RewriteEnv, PutEnv, Rename, Check, CreateFails, Guard, WriteVnodes, WriteJobs,
     CopySpec, StopOld, Spawn, ReloadGoD, NotEnabled, Disable
<1>6. CASE Kill
  BY <1>1, <1>6, Killed DEF Kill
<1>7. CASE TeardownNext /\ ~Kill
  BY <1>1, <1>7 DEF CauseInv, TeardownNext, Teardown, Archive, Disarm, RemovePlugin, Waited,
     WaitedAgain, StopLogs, RemoveJournals, TakesExportersDown, TakesConfBack, RemoveDir
<1>8. CASE Quiet
  BY <1>1, <1>8 DEF Quiet, CauseInv
<1> QED
  BY <1>2, <1>3, <1>4, <1>5, <1>6, <1>7, <1>8 DEF HostNext

(* What a teardown says of how the plugin has ended. *)

LEMMA SawStep == ASSUME HostInv, HostNext, Apart PROVE SawInv'
<1>1. CauseInv /\ ApartInv /\ SawInv
  BY DEF HostInv
<1> USE DEF SawInv
<1>2. CASE PluginNext
  BY <1>1, <1>2, PluginKeeps
<1>3. CASE SideNext
  <2>1. UNCHANGED <<tpc, clean, saw, bin, disabled, proc>>
    BY <1>3, SideKeeps
  <2> QED
    BY <1>1, <2>1
<1>4. CASE CreateNext
  <2>1. UNCHANGED <<tpc, clean, saw>>
    BY <1>4 DEF CreateNext, Create, Refuse, HandOver, Write, Lint, CopySpecs,
       CopyEnv, RewriteEnv, PutEnv, Rename, StopPrevious, Check, CreateFails, Guard, WriteVnodes,
       WriteJobs, CopySpec, StopOld, Spawn, ReloadGoD, NotEnabled, Disable
  <2>2. tpc = "idle"
    BY <1>1, <1>4 DEF ApartInv, CreateNext, Create, Refuse, HandOver, Write, Lint, CopySpecs,
       CopyEnv, RewriteEnv, PutEnv, Rename, StopPrevious, Check, CreateFails, Guard, WriteVnodes,
       WriteJobs, CopySpec, StopOld, Spawn, ReloadGoD, NotEnabled, Disable
  <2> QED
    BY <1>1, <2>1, <2>2
<1>5. CASE Teardown
  BY <1>1, <1>5 DEF Teardown
<1>6. CASE Archive \/ Disarm
  BY <1>1, <1>6 DEF Archive, Disarm, Proceed, Returns
<1>7. CASE RemovePlugin
  BY <1>1, <1>7 DEF RemovePlugin, CauseInv
<1>8. CASE Waited
  BY <1>1, <1>8 DEF Waited, Proceed, Returns, Visible
<1>9. CASE Kill
  BY <1>1, <1>9 DEF Kill, Proceed
<1>10. CASE WaitedAgain
  BY <1>1, <1>10 DEF WaitedAgain, Proceed, Returns
<1>11. CASE StopLogs \/ RemoveJournals
  BY <1>1, <1>11 DEF StopLogs, RemoveJournals
<1>12. CASE TakesExportersDown \/ TakesConfBack
  BY <1>1, <1>12 DEF TakesExportersDown, TakesConfBack, Proceed
<1>13. CASE RemoveDir
  BY <1>1, <1>13 DEF RemoveDir, Returns
<1>14. CASE Quiet
  BY <1>1, <1>14 DEF Quiet
<1> QED
  BY <1>2, <1>3, <1>4, <1>5, <1>6, <1>7, <1>8, <1>9, <1>10, <1>11, <1>12, <1>13, <1>14
  DEF HostNext, TeardownNext

-----------------------------------------------------------------------------
(* An operator's files. *)

LEMMA OperatorsStep == ASSUME HostInv, HostNext PROVE OperatorsInv'
<1> USE HostBounds DEF HostInv, OperatorsInv, OperatorsKept, GoOn, EndsWith
<1>1. CASE PluginNext
  BY <1>1, PluginKeeps
<1>2. CASE SideNext
  BY <1>2, SideKeeps
<1>3. CASE Create \/ Refuse \/ HandOver \/ Write \/ Lint \/ CopySpecs \/ CreateFails
  BY <1>3 DEF Create, Refuse, HandOver, Write, Lint, CopySpecs, CreateFails
<1>4. CASE CopyEnv \/ RewriteEnv
  BY <1>4 DEF CopyEnv, RewriteEnv, PutEnv
<1>5. CASE Rename \/ StopPrevious \/ Check
  BY <1>5 DEF Rename, StopPrevious, Check
<1>6. CASE Guard \/ WriteVnodes \/ WriteJobs
  BY <1>6 DEF Guard, WriteVnodes, WriteJobs
<1>7. CASE CopySpec \/ StopOld \/ Spawn \/ ReloadGoD \/ NotEnabled
  BY <1>7 DEF CopySpec, StopOld, Spawn, ReloadGoD, NotEnabled
<1>8. CASE Disable \/ TakesConfBack
  <2>1. RemoveConf /\ (cpc' = "idle" \/ cpc' = cpc)
    BY <1>8 DEF Disable, TakesConfBack
  <2>2. (jobs = Foreign => jobs' = Foreign) /\ (vnodes = Foreign => vnodes' = Foreign)
    BY <2>1 DEF RemoveConf, Fleets, Foreign
  <2>3. theirs' = theirs
    BY <2>1 DEF RemoveConf
  <2> QED
    BY <2>1, <2>2, <2>3
<1>10. CASE TeardownNext /\ ~TakesConfBack
  BY <1>10 DEF TeardownNext, Teardown, Archive, Disarm, RemovePlugin, Waited, Kill, WaitedAgain,
     StopLogs, RemoveJournals, TakesExportersDown, RemoveDir
<1>11. CASE Quiet
  BY <1>11 DEF Quiet
<1> QED
  BY <1>1, <1>2, <1>3, <1>4, <1>5, <1>6, <1>7, <1>8, <1>10, <1>11 DEF HostNext, CreateNext

-----------------------------------------------------------------------------
(* One request at a time. *)

LEMMA ApartStep == ASSUME HostInv, HostNext, Apart PROVE ApartInv'
<1> USE DEF Stopped, PastRemoval, Gone, GoOn, EndsWith, Proceed, Returns
<1>0. ApartInv
  BY DEF HostInv
<1> USE DEF ApartInv
<1>1. CASE PluginNext
  BY <1>0, <1>1, PluginKeeps
<1>2. CASE SideNext
  <2>1. UNCHANGED <<cpc, tpc, env, archived, tres, bin, proc>>
    BY <1>2, SideKeeps
  <2> QED
    BY <1>0, <2>1 DEF Visible
<1>3. CASE Create \/ Refuse \/ HandOver \/ Write \/ Lint \/ CopySpecs \/ CreateFails \/ Check
  BY <1>0, <1>3 DEF Create, Refuse, HandOver, Write, Lint, CopySpecs, CreateFails, Check, Visible
<1>4. CASE CopyEnv \/ RewriteEnv
  <2>1. env' # NoEnv /\ tpc = "idle" /\ UNCHANGED <<tpc, tres, bin, proc>>
    BY <1>0, <1>4 DEF CopyEnv, RewriteEnv, PutEnv, NoEnv
  <2> QED
    BY <1>0, <2>1
<1>5. CASE Rename
  BY <1>0, <1>5 DEF Rename
<1>6. CASE StopPrevious
  BY <1>0, <1>6, Killed DEF StopPrevious
<1>7. CASE Guard \/ WriteVnodes \/ WriteJobs \/ CopySpec \/ StopOld \/ Spawn \/ ReloadGoD
           \/ NotEnabled \/ Disable
  BY <1>0, <1>7 DEF Guard, WriteVnodes, WriteJobs, CopySpec, StopOld, Spawn, ReloadGoD,
     NotEnabled, Disable, Visible
<1>8. CASE Teardown
  BY <1>0, <1>8 DEF Teardown
<1>9. CASE Archive \/ Disarm \/ RemovePlugin
  BY <1>0, <1>9 DEF Archive, Disarm, RemovePlugin
<1>10. CASE Waited \/ WaitedAgain
  BY <1>0, <1>10 DEF Waited, WaitedAgain, Visible
<1>11. CASE Kill
  BY <1>0, <1>11 DEF Kill
<1>12. CASE StopLogs \/ RemoveJournals \/ TakesExportersDown \/ TakesConfBack \/ RemoveDir
  BY <1>0, <1>12 DEF StopLogs, RemoveJournals, TakesExportersDown, TakesConfBack, RemoveDir,
     Visible
<1>13. CASE Quiet
  BY <1>0, <1>13 DEF Quiet, Visible
<1> QED
  BY <1>1, <1>2, <1>3, <1>4, <1>5, <1>6, <1>7, <1>8, <1>9, <1>10, <1>11, <1>12, <1>13
  DEF HostNext, CreateNext, TeardownNext

-----------------------------------------------------------------------------
LEMMA InitHost == HostInit => HostInv
BY HostBounds DEF HostInit, HostInv, CauseInv, OperatorsInv, ApartInv, SawInv, OperatorsKept, Stopped,
   PastRemoval, NoProc

LEMMA NextHost == HostInv /\ [HostNext]_vars => HostInv'
<1> SUFFICES ASSUME HostInv, [HostNext]_vars PROVE HostInv'
  OBVIOUS
<1>1. CASE HostNext
  BY <1>1, CauseStep, OperatorsStep, ApartStep, SawStep DEF HostInv
<1>2. CASE UNCHANGED vars
  BY <1>2 DEF HostInv, CauseInv, OperatorsInv, ApartInv, SawInv, OperatorsKept, Stopped, PastRemoval,
     Visible
<1> QED
  BY <1>1, <1>2

\* What a teardown says is so (provision.rs, teardown): a plugin that it reports as removed
\* neither runs nor comes back, and the agent keeps one enabled that had loaded when its file
\* was taken and that is reported as having exited cleanly.
THEOREM TeardownIsHonest == Apart => (HostSpec => []TeardownHonest)
<1> SUFFICES ASSUME Apart PROVE HostSpec => []TeardownHonest
  OBVIOUS
<1>1. HostInv => TeardownHonest
  BY DEF HostInv, ApartInv, SawInv, TeardownHonest, HonestClean
<1> QED
  BY InitHost, NextHost, <1>1, PTL DEF HostSpec

\* Only a teardown takes the environment away, at its end.
LEMMA Deletes ==
    ASSUME HostInv, Apart, [HostNext]_vars, env # NoEnv, env' = NoEnv
    PROVE  env \in archived
<1>1. RemoveDir
  <2>1. ~CopyEnv /\ ~RewriteEnv
    BY DEF CopyEnv, RewriteEnv, PutEnv, NoEnv
  <2>2. CASE CreateNext
    BY <2>1, <2>2 DEF CreateNext, Create, Refuse, HandOver, Write, Lint, CopySpecs, Rename,
       StopPrevious, Check, CreateFails, Guard, WriteVnodes, WriteJobs, CopySpec, StopOld, Spawn,
       ReloadGoD, NotEnabled, Disable
  <2>3. CASE TeardownNext
    BY <2>3 DEF TeardownNext, Teardown, Archive, Disarm, RemovePlugin, Waited, Kill, WaitedAgain,
       StopLogs, RemoveJournals, TakesExportersDown, TakesConfBack
  <2>4. CASE PluginNext \/ SideNext \/ Quiet \/ UNCHANGED vars
    BY <2>4, PluginKeeps, SideKeeps DEF Quiet
  <2> QED
    BY <2>2, <2>3, <2>4 DEF HostNext
<1> QED
  BY <1>1 DEF RemoveDir, HostInv, ApartInv

\* An operator's go.d file is neither overwritten nor removed, nor is any registry of vnodes
\* beside it (provision.rs, exporters::enable, guard and disable), and a teardown deletes the fleet that it has archived (provision.rs, teardown).
THEOREM NothingIsDestroyed == Apart => (HostSpec => NothingDestroyed)
<1> SUFFICES ASSUME Apart PROVE HostSpec => NothingDestroyed
  OBVIOUS
<1>1. HostInv' => OperatorsKept'
  BY DEF HostInv, OperatorsInv
<1>2. HostInv /\ HostInv' /\ [HostNext]_vars =>
        [OperatorsKept' /\ (env # NoEnv /\ env' = NoEnv => env \in archived)]_vars
  BY <1>1, Deletes
<1> QED
  BY InitHost, NextHost, <1>2, PTL DEF HostSpec, NothingDestroyed
=============================================================================
