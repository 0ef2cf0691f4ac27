----------------------------- MODULE Scenarios -----------------------------
(***************************************************************************)
(* A scenario is a timeline of effects on signals. Before a fleet is built  *)
(* the plugin's lint says of every step whether it can fire there and what  *)
(* the application's series must then do (sim-plugin/src/main.rs); at       *)
(* runtime the steps that match a node move its signals                     *)
(* (sim-spec/src/scenario.rs, sim-engine/src/scenario_runtime.rs), and when *)
(* no scenario is active the opening of one runs as a warm-up incident      *)
(* (sim-plugin/src/warmup.rs).                                              *)
(*                                                                          *)
(* Numbers are exact fractions: a multiplier counts quarters, a recovery    *)
(* halves and a strength eighths. A time unit stands for half the recovery  *)
(* window. Multipliers are at least zero, as in every scenario of the       *)
(* repository; spans and offsets may be negative, which the parser accepts  *)
(* of a bare integer.                                                       *)
(***************************************************************************)
EXTENDS Integers, Sequences, FiniteSets, FiniteSetsExt, Functions

CONSTANTS
    Cases,                      \* the fleets and scenarios that a behaviour starts from, and how long it lasts
    AppSignals, OnDisk,         \* the signals of the application's spec, and of all specs
    Day,                        \* the longest scenario that the lint takes
    Slot, Incident, Margin,     \* the rotation of the warm-up: an incident and its distance fit in a slot
    MaxNow                      \* the last time for which a hash is drawn: a bound of the model

Recovery == 2                   \* RECOVERY_SECONDS
Quarters == 4

ASSUME ScenarioBounds == Slot \in Nat \ {0} /\ Incident \in Nat /\ Margin \in Nat /\ MaxNow \in Nat
ASSUME WarmRotation == Incident + Margin <= Slot

Any == "any"                    \* a selector that is absent
NoInst == "node"                \* the instance of a signal of the node itself
NoEquals == "bad"               \* a label selector without a value
Simulated == "simulated=true"   \* the label that every profile gets

Additive == {"add", "add_ramp"}
Factors == {"step", "ramp", "drift", "oscillate"}

IsList(s) == s \in Seq(Range(s))

IsEffect(e) ==
    /\ e.to \in Int /\ e.over \in Int
    /\ e.kind \in Additive \cup Factors \cup {"recover"}
    /\ e.kind \in {"step", "ramp"} => e.to >= 0

IsStep(s) == s.at \in Int /\ IsEffect(s.effect) /\ s.target.index \in Nat /\ s.target.inst # NoInst

\* Names that stand for an absent selector are no labels, and no two scenarios have one name.
ASSUME FleetsAndScenarios ==
    \A c \in Cases :
        /\ IsList(c.fleet) /\ \A n \in DOMAIN c.fleet : NoEquals \notin c.fleet[n].labels
        /\ IsList(c.library) /\ IsInjective(c.library)
        /\ \A k \in DOMAIN c.library : LET line == c.library[k].timeline IN
                IsList(line) /\ \A i \in DOMAIN line : IsStep(line[i])

VARIABLES case, active, now, mix

vars == <<case, active, now, mix>>

-----------------------------------------------------------------------------
(* Effects *)

\* Of a sequence of numbers, by position.
Times(f) == LET upto[i \in 0..Len(f)] == IF i = 0 THEN 1 ELSE upto[i - 1] * f[i] IN upto[Len(f)]
Plus(f) == LET upto[i \in 0..Len(f)] == IF i = 0 THEN 0 ELSE upto[i - 1] + f[i] IN upto[Len(f)]

Capped(x, top) == IF x < 0 THEN 0 ELSE IF x > top THEN top ELSE x

\* (elapsed / span).clamp(0, 1), times `by`; a span below zero never gets anywhere, and one
\* of zero (a recovery's may be) is there at once, but not at its first instant.
Along(elapsed, span, by) ==
    CASE span = 0 -> IF elapsed = 0 THEN 0 ELSE by
      [] span < 0 -> 0
      [] OTHER -> (by * Capped(elapsed, span)) \div span

Sine(quarter) == CASE quarter = 1 -> 1 [] quarter = 3 -> -1 [] OTHER -> 0

\* In quarters. A drift doubles or ends within a unit.
MultiplierAt(e, elapsed) ==
    CASE e.kind \in Additive \/ elapsed < 0 -> Quarters
      [] e.kind = "step" -> e.to
      [] e.kind = "ramp" -> Quarters + Along(elapsed, e.over, e.to - Quarters)
      [] e.kind = "drift" -> IF e.to < 0 THEN (IF elapsed = 0 THEN Quarters ELSE 0)
                             ELSE Quarters * Times([k \in 1..elapsed |-> 2])
      [] e.kind = "oscillate" -> Quarters + e.to * Sine(elapsed % e.over)
      [] e.kind = "recover" -> 2 - Along(elapsed, e.over, 2)

AdditiveAt(e, elapsed) ==
    CASE elapsed < 0 -> 0
      [] e.kind = "add" -> e.to
      [] e.kind = "add_ramp" -> Along(elapsed, e.over, e.to)
      [] OTHER -> 0

\* What a broken version might take for the time an effect needs.
SettleOfRamps(e) == IF e.kind \in {"ramp", "recover"} THEN e.over ELSE 0

Settle(e) == IF e.kind \in {"ramp", "add_ramp", "recover"} THEN e.over ELSE 0

Duration(sc) == Max({sc.timeline[i].at + Settle(sc.timeline[i].effect) : i \in DOMAIN sc.timeline})

\* Accepted when it is read: of the spans, only those of a ramp and a period are looked at.
Valid(sc) ==
    /\ sc.timeline # <<>>
    /\ \A i \in DOMAIN sc.timeline :
            sc.timeline[i].effect.kind \in {"ramp", "add_ramp", "oscillate"}
                => sc.timeline[i].effect.over # 0

-----------------------------------------------------------------------------
(* Which nodes a step is for *)

Nodes == DOMAIN case.fleet
RoleOf(n) == case.fleet[n].role
Roles == {RoleOf(n) : n \in Nodes}
Instances(n) == case.fleet[n].insts
Sharing(role) == {n \in Nodes : role \in {Any, RoleOf(n)}}

\* A node's place among those of its role, from one, in the order of the environment.
Rank(n) == Cardinality({m \in 1..n : RoleOf(m) = RoleOf(n)})

ProfileLabels(n) == case.fleet[n].labels \cup {Simulated}

Matches(t, n, rank, inst, signal) ==
    /\ t.signal = signal
    /\ t.host \in {Any, case.fleet[n].host}
    /\ t.suffix \in {Any, case.fleet[n].suffix}
    /\ t.role \in {Any, RoleOf(n)}
    /\ t.inst \in {Any, inst}
    /\ t.index \in {0, rank}
    /\ t.label = Any \/ t.label \in ProfileLabels(n)

AppliesTo(sc) == sc.requires \subseteq Roles

-----------------------------------------------------------------------------
(* What the active scenarios do to a signal *)

\* 1 - t^2 (3 - 2t), in eighths.
Unwinding(k) == 8 - k * k * (3 * Recovery - 2 * k)
StrengthUnclamped(a) == IF a.since < 0 THEN 8 ELSE Unwinding(now - a.since)
Strength(a) == IF a.since < 0 THEN 8 ELSE Unwinding(Capped(now - a.since, Recovery))

Had(a, i) == now - a.started - a.sc.timeline[i].at

Hits(a, i, n, inst, signal) == Had(a, i) >= 0 /\ Matches(a.sc.timeline[i].target, n, Rank(n), inst, signal)

\* What a step multiplies by, adds, and leaves of the fault: a step that does not hit is neutral.
Factor(a, i, n, inst, signal) ==
    LET e == a.sc.timeline[i].effect
    IN IF e.kind \in Factors /\ Hits(a, i, n, inst, signal) THEN MultiplierAt(e, Had(a, i)) ELSE Quarters

Added(a, i, n, inst, signal) ==
    LET e == a.sc.timeline[i].effect
    IN IF e.kind \in Additive /\ Hits(a, i, n, inst, signal) THEN AdditiveAt(e, Had(a, i)) ELSE 0

Recovered(a, i, n, inst, signal) ==
    LET e == a.sc.timeline[i].effect
    IN IF e.kind = "recover" /\ Hits(a, i, n, inst, signal) THEN MultiplierAt(e, Had(a, i)) ELSE 2

\* What the steps of one scenario multiply by and add, and what is left of both.
Fault(a, n, inst, signal) == Times([i \in DOMAIN a.sc.timeline |-> Factor(a, i, n, inst, signal)])
Addition(a, n, inst, signal) == Plus([i \in DOMAIN a.sc.timeline |-> Added(a, i, n, inst, signal)])
Left(a, n, inst, signal) ==
    Min({2} \cup {Recovered(a, i, n, inst, signal) : i \in DOMAIN a.sc.timeline}) * Strength(a)

\* A product of neutral factors, with which the multipliers are compared.
Whole(sc) == Times([i \in DOMAIN sc.timeline |-> Quarters])

\* One scenario's part: the multiplier is mult / scale, the addition counts 64ths.
Part(a, n, inst, signal) ==
    [mult |-> 16 * Whole(a.sc) + (Fault(a, n, inst, signal) - Whole(a.sc)) * Left(a, n, inst, signal),
     scale |-> 16 * Whole(a.sc),
     add |-> Addition(a, n, inst, signal) * Left(a, n, inst, signal)]

\* A scenario that is not in the set is one more neutral factor.
PartOf(set, sc, n, inst, signal) ==
    IF \E a \in set : a.sc = sc THEN Part(CHOOSE a \in set : a.sc = sc, n, inst, signal)
    ELSE [mult |-> 16 * Whole(sc), scale |-> 16 * Whole(sc), add |-> 0]

Perturbation(set, n, inst, signal) ==
    LET part(k) == PartOf(set, case.library[k], n, inst, signal)
    IN [mult |-> Times([k \in DOMAIN case.library |-> part(k).mult]),
        scale |-> Times([k \in DOMAIN case.library |-> part(k).scale]),
        add |-> Plus([k \in DOMAIN case.library |-> part(k).add])]

Same(p, q) == p.mult * q.scale = q.mult * p.scale /\ p.add = q.add

\* Where a signal can be asked for.
Places == UNION {{n} \X (Instances(n) \cup {NoInst}) : n \in Nodes}

-----------------------------------------------------------------------------
(* The lint *)

\* Whether the selectors of a step can fire, each looked at by itself, in this order.
TooFew(t) == Cardinality(Sharing(t.role)) < t.index

StepFit(sc, t) ==
    IF t.role \notin Roles \cup {Any} THEN (IF t.role \in sc.requires THEN "problem" ELSE "skip")
    ELSE IF TooFew(t) THEN "skip"
    ELSE IF t.label = NoEquals THEN "problem"
    ELSE IF t.label # Any /\ \A n \in Nodes : t.label \notin case.fleet[n].labels THEN "skip"
    ELSE IF t.inst # Any /\ \A n \in Sharing(t.role) : t.inst \notin Instances(n) THEN "skip"
    ELSE "applies"

\* Of a signal that nothing here defines: a spec on disk that does makes it a skip.
Unknown(t) == t.signal \notin UNION {case.fleet[n].signals : n \in Nodes} \cup AppSignals

Unresolved(t) ==
    \/ t.suffix # Any /\ \A n \in Nodes : t.suffix # case.fleet[n].suffix
    \/ t.host # Any /\ \A n \in Nodes : t.host # case.fleet[n].host
    \/ t.inst # Any /\ \A n \in Nodes : t.inst \notin Instances(n)

Verdict(sc, i) ==
    LET t == sc.timeline[i].target IN
    IF StepFit(sc, t) # "applies" THEN StepFit(sc, t)
    ELSE IF Unknown(t) /\ t.signal \in OnDisk THEN "skip"
    ELSE IF Unknown(t) \/ Unresolved(t) THEN "problem"
    ELSE "applies"

CheckScenarios ==
    \A sc \in Range(case.library) : AppliesTo(sc) =>
        \A i \in DOMAIN sc.timeline : Verdict(sc, i) # "problem"

\* The application's series: its nodes are ranked once more, among themselves.
IsAppTier(role) == role \in {"web", "lb", "k8s-worker"}
AppNodes == {n \in Nodes : IsAppTier(RoleOf(n))}
AppRankOfAll(n) == Cardinality({m \in AppNodes : m <= n})
AppRank(n) == Cardinality({m \in AppNodes : m <= n /\ RoleOf(m) = RoleOf(n)})

AppHits(sc, i, n) ==
    LET t == sc.timeline[i].target IN
    /\ t.signal \in AppSignals /\ StepFit(sc, t) = "applies"
    /\ Matches(t, n, AppRank(n), NoInst, t.signal)

AppSelectorsResolve(sc) ==
    \A i \in DOMAIN sc.timeline :
        LET t == sc.timeline[i].target IN
        t.signal \in AppSignals /\ StepFit(sc, t) = "applies" => \E n \in AppNodes : AppHits(sc, i, n)

Sign(x) == IF x > 0 THEN 1 ELSE IF x < 0 THEN -1 ELSE 0

\* Zero when a step only has to change its signal.
IntendedDirection(e) ==
    CASE e.kind \in {"step", "ramp"} -> Sign(e.to - Quarters)
      [] e.kind \in Additive \cup {"drift"} -> Sign(e.to)
      [] OTHER -> 0

\* Steps of one signal that point in two directions only have to change it.
Common(aims) == IF \A d, e \in aims : d = e THEN CHOOSE d \in aims : TRUE ELSE 0

AppTargets(sc, n) ==
    LET aimed == {i \in DOMAIN sc.timeline :
                    AppHits(sc, i, n) /\ sc.timeline[i].effect.kind # "recover"}
        signal(i) == sc.timeline[i].target.signal
    IN [s \in {signal(i) : i \in aimed} |->
            Common({IntendedDirection(sc.timeline[i].effect) : i \in {j \in aimed : signal(j) = s}})]

\* The ways in which a published value is off its baseline.
Deltas(a, n, s) == LET p == Part(a, n, NoInst, s) IN {Sign(p.mult - p.scale), Sign(p.add)} \ {0}

LintApplications ==
    AppNodes # {} => \A sc \in Range(case.library) : AppliesTo(sc) => AppSelectorsResolve(sc)

LintScenarios == \A sc \in Range(case.library) : AppliesTo(sc) => Duration(sc) <= Day

-----------------------------------------------------------------------------
(* Warm-up incidents *)

Usable == SelectSeq(case.library, LAMBDA sc : AppliesTo(sc) /\ sc.warmup)

JitterOfSlot == Slot
Jitter == Slot - Incident - Margin

\* Of a slot's hash: a scenario, and a place in the slot.
StartOf(slot) == slot * Slot + (IF Jitter > 0 THEN mix[slot].offset % Jitter ELSE 0)

Minor(sc) ==
    LET early == SelectSeq(sc.timeline, LAMBDA s : s.at < Incident \div 2)
    IN [sc EXCEPT !.timeline = IF early = <<>> THEN <<sc.timeline[1]>> ELSE early]

Warm(t) ==
    LET slot == t \div Slot IN
    IF Usable = <<>> \/ t < StartOf(slot) \/ t >= StartOf(slot) + Incident THEN {}
    ELSE {[sc |-> Minor(Usable[1 + (mix[slot].pick % Len(Usable))]), started |-> StartOf(slot), since |-> -1]}

-----------------------------------------------------------------------------
(* A fleet that the lint has let through *)

Slots == 0..(MaxNow \div Slot)
Hashes == IF case.warmup THEN [pick : 0..1, offset : 0..Slot - 1] ELSE {[pick |-> 0, offset |-> 0]}

Init ==
    /\ case \in Cases
    /\ \A sc \in Range(case.library) : Valid(sc)
    /\ mix \in [Slots -> Hashes]
    /\ active = {} /\ now = 0

Passed == CheckScenarios /\ LintScenarios /\ LintApplications

Trigger(sc) ==
    /\ Passed /\ AppliesTo(sc) /\ \A a \in active : a.sc # sc
    /\ active' = active \cup {[sc |-> sc, started |-> now, since |-> -1]}
    /\ UNCHANGED <<case, now, mix>>

Resolve(a) ==
    /\ a.since < 0
    /\ active' = (active \ {a}) \cup {[a EXCEPT !.since = now]}
    /\ UNCHANGED <<case, now, mix>>

\* The next save of the control file drops what has recovered.
Prune ==
    /\ active' = {a \in active : a.since < 0 \/ now - a.since < Recovery}
    /\ active' # active
    /\ UNCHANGED <<case, now, mix>>

Tick == now < case.until /\ now' = now + 1 /\ UNCHANGED <<case, active, mix>>

Over == now = case.until /\ UNCHANGED vars

Next ==
    \/ Tick \/ Prune \/ Over
    \/ \E sc \in Range(case.library) : Trigger(sc)
    \/ \E a \in active : Resolve(a)

Spec == Init /\ [][Next]_vars

-----------------------------------------------------------------------------
(* Properties *)

\* Once the recovery window is over a resolved scenario has left nothing behind, whatever its
\* timeline does and whatever else is active: the save that drops it moves no signal.
Unwound ==
    [][\A a \in active \ active' : (\A b \in active' : b.sc # a.sc) =>
            \A p \in Places, s \in OnDisk :
                Same(Perturbation(active, p[1], p[2], s), Perturbation(active', p[1], p[2], s))]_vars

\* After the length that the console and the lint take for a scenario's, it moves nothing any
\* more, unless it drifts or oscillates.
Settled ==
    [][now' > now => \A a \in active :
         (a.since < 0 /\ now > a.started + Duration(a.sc)
              /\ \A i \in DOMAIN a.sc.timeline : a.sc.timeline[i].effect.kind \notin {"drift", "oscillate"})
            => \A p \in Places, s \in OnDisk :
                   Same(Part(a, p[1], p[2], s), Part(a, p[1], p[2], s)')]_vars

Fires(t) == \E p \in Places : Matches(t, p[1], Rank(p[1]), p[2], t.signal)
                              /\ t.signal \in case.fleet[p[1]].signals

\* A step that the lint reports as one that will not fire in this fleet touches no node,
\* unless it selects by a label that the plugin itself puts on every node.
SkipsRight ==
    \A sc \in Range(case.library) : AppliesTo(sc) =>
        \A i \in DOMAIN sc.timeline :
            Verdict(sc, i) = "skip" /\ sc.timeline[i].target.label # Simulated
                => ~Fires(sc.timeline[i].target)

\* By hand: "whether a scenario step's structural selectors can fire in this fleet"
\* (main.rs:1460).
FitIsRight ==
    \A sc \in Range(case.library) : AppliesTo(sc) =>
        \A i \in DOMAIN sc.timeline :
            LET t == sc.timeline[i].target IN
            t.signal \notin AppSignals => (Verdict(sc, i) = "applies" <=> Fires(t))

\* What the lint of the application asks of a scenario is what it does: a signal of a node
\* moves in the direction that was worked out for it, or in none, and one that is not
\* targeted there does not move at all, although the two number the nodes separately.
Directed ==
    \A a \in active, n \in AppNodes, s \in AppSignals :
        (\A i \in DOMAIN a.sc.timeline : a.sc.timeline[i].target.label # Simulated) =>
        LET targets == AppTargets(a.sc, n) IN
        IF s \notin DOMAIN targets THEN Deltas(a, n, s) = {}
        ELSE targets[s] = 0 \/ Deltas(a, n, s) \subseteq {targets[s]}

\* What the lint says of a scenario, that a step is left out or which way it moves a
\* signal, is what the plugin does with it in this fleet.
LintRight == SkipsRight /\ Directed

\* In every slot the incident runs for its whole length, and keeps its distance from the next.
WarmWindow ==
    Usable # <<>> => \A slot \in Slots :
        /\ Cardinality({t \in slot * Slot .. (slot + 1) * Slot - 1 : Warm(t) # {}}) = Incident
        /\ slot + 1 \in Slots => StartOf(slot) + Incident + Margin <= StartOf(slot + 1)

=============================================================================
