------------------------------- MODULE Engine ------------------------------
(* One node's metric engine over the specification composed for it: the     *)
(* plan of its charts, the tick that samples them under whatever faults are *)
(* running, the lines that the node's log has of an engine of its own, and  *)
(* the lint that reads the samples.                                         *)
(*                                                                          *)
(* Numbers are in fractions of Unit; weights and shares are in hundredths.  *)
(* Noise, and the seasons with it, is any of the factors Noise, drawn once  *)
(* for each stream and tick; floating-point error is left out.              *)
EXTENDS Specs

CONSTANTS
    Profiles,   \* the nodes: base, services, role, attrs, instances by group
    Faults,     \* what the scenarios may do: multiplier, additive, and to what
    Noise,      \* hundredths of the level by which a sample may be off
    Rules,      \* what the log says of a fault: signal, group, when, capacity, service
    Unit,       \* fractions of one
    Interval,   \* seconds between ticks
    MaxTicks    \* bound on the ticks of one behaviour, of both engines

IsAttrs(m) == IsMap(m) /\ m \in [DOMAIN m -> Int]

IsInstance(i) == i \in [name : STRING, weight : Int, attrs : {i.attrs}] /\ IsAttrs(i.attrs)

ASSUME ProfilesAssumption ==
    \A p \in Profiles :
        /\ p.services \in Seq(STRING) /\ p.cores \in Nat \ {0} /\ IsAttrs(p.attrs)
        /\ \A g \in DOMAIN p.instances :
            /\ p.instances[g] \in Seq(ToSet(p.instances[g]))
            /\ \A i \in ToSet(p.instances[g]) : IsInstance(i)

(* What the log measures a volume by is its size.                           *)
ASSUME RulesAssumption ==
    \A r \in Rules : r.volume => r.limit = "" /\ r.attr # "" /\ r.group # ""

ASSUME FaultsAssumption == \A f \in Faults : f.multiplier \in Int /\ f.additive \in Int

ASSUME NumbersAssumption ==
    Unit \in Nat \ {0} /\ Interval \in Nat \ {0} /\ Noise \subseteq Int

VARIABLES
    profile,    \* the node
    spec,       \* its composed specification, or Refused
    signals,    \* its signals, retuned for the node's role
    plan,       \* its charts
    counters,   \* <<chart, dimension>> -> what has accumulated
    sample,     \* the last tick: <<place in the plan, dimension>> -> integer
    drawn,      \* the last tick: stream -> value of the signal
    told,       \* the logs process: the values of the last tick of its own engine
    lines,      \* the logs process: what it may have said of a fault in that tick
    faulted,    \* whether any tick so far ran with a fault
    last,       \* lint: <<chart, dimension>> -> [value, moved]
    violations, \* lint: what it has reported
    ticks

engineVars == <<profile, spec, signals, plan, counters, sample, drawn, told, lines, faulted, last,
          violations, ticks>>

Clamp(v, lo, hi) == IF v < lo THEN lo ELSE IF v > hi THEN hi ELSE v

AtLeast(v, lo) == IF v < lo THEN lo ELSE v

(* A number of fractions of unit, half away from zero, as f64::round.       *)
RoundTo(unit, v) == IF v >= 0 THEN (2 * v + unit) \div (2 * unit)
                    ELSE -((2 * (-v) + unit) \div (2 * unit))

Round(v) == RoundTo(Unit, v)

(* Towards zero, as a cast to an integer.                                   *)
Truncate(v) == IF v >= 0 THEN v \div Unit ELSE -((-v) \div Unit)

----------------------------------------------------------------------------
(* The plan: one chart for a context of the node, one for each instance of  *)
(* the group for the others; none when the node has no such group.  Nothing *)
(* in the code keeps two charts of a plan from having one id; the instances *)
(* here have distinct ones.                                                 *)

NodeChart(context, i) ==
        <<[id |-> <<context.id, "">>, context |-> i, scope |-> "", weight |-> 100,
           attrs |-> Nothing]>>

InstanceCharts(context, i, instances) ==
    LET found == IF context.group \in DOMAIN instances
                 THEN instances[context.group] ELSE <<>>
    IN  [n \in DOMAIN found |->
            [id |-> <<context.prefix, found[n].name>>, context |-> i,
             scope |-> found[n].name, weight |-> found[n].weight,
             attrs |-> found[n].attrs]]

PlanCharts(contexts, instances) ==
    LET upto[i \in 0 .. Len(contexts)] ==
            IF i = 0 THEN <<>>
            ELSE upto[i - 1] \o IF contexts[i].group = "" THEN NodeChart(contexts[i], i)
                                ELSE InstanceCharts(contexts[i], i, instances)
    IN  upto[Len(contexts)]

Shape(chart) == spec.contexts[chart.context].shape

----------------------------------------------------------------------------
(* One value of a signal.                                                   *)

(* Mutant: a value is remembered for the charts of one context.             *)
KeyOfContext(chart, name) == <<chart.id[1], name>>

(* The key a value is remembered under for the rest of the tick, which is   *)
(* also the random stream it is drawn from.                                 *)
Key(chart, name) == <<chart.scope, name>>

Streams ==
    UNION {{Key(c, s) : s \in ToSet(Reads(Shape(c)))} : c \in ToSet(plan)}

ResolveAttr(chart, name) ==
    IF name \in DOMAIN chart.attrs THEN chart.attrs[name]
    ELSE IF name \in DOMAIN profile.attrs THEN profile.attrs[name] ELSE 0

Weight(signal, weight) == IF signal.ignore_weight THEN 100 ELSE weight

(* Mutant: every bound is a rail.                                           *)
CeilingOfRails(signal, weight, fault) ==
    (signal.max * weight * AtLeast(fault.multiplier, 1)) \div 100
    + AtLeast(fault.additive, 0)

(* A rail is moved with the fault; a physical ceiling never is.             *)
Ceiling(signal, weight, fault) ==
    IF MaxIsPhysical(signal) THEN (signal.max * weight) \div 100
    ELSE (signal.max * weight * AtLeast(fault.multiplier, 1)) \div 100
         + AtLeast(fault.additive, 0)

Floor(signal, weight) ==
    IF signal.min_is_floor THEN signal.min ELSE (signal.min * weight) \div 100

EvalSignal(signal, weight, fault, noise) ==
    LET w     == Weight(signal, weight)
        level == (signal.base * w * fault.multiplier) \div 100 + fault.additive
        value == level + ((IF level < 0 THEN -level ELSE level) * noise) \div 100
    IN  Clamp(value, Floor(signal, w), Ceiling(signal, w, fault))

Perturbation(fault, name) ==
    IF name \in fault.on THEN fault ELSE [multiplier |-> 1, additive |-> 0]

(* The chart that asks for a stream first settles it for the tick.          *)
Asked(chart, key) == {s \in ToSet(Reads(Shape(chart))) : Key(chart, s) = key}

Values(fault, noise) ==
    [key \in Streams |->
        LET chart  == plan[Earliest({i \in DOMAIN plan : Asked(plan[i], key) # {}})]
            name   == CHOOSE s \in Asked(chart, key) : TRUE
            signal == signals[name]
        IN  IF signal.from_attr # "" THEN ResolveAttr(chart, signal.from_attr)
            ELSE EvalSignal(signal, chart.weight, Perturbation(fault, name), noise[key])]

----------------------------------------------------------------------------
(* The samples of a chart.                                                  *)

Total(chart) ==
    IF Shape(chart).attr = "" THEN Shape(chart).total
    ELSE ResolveAttr(chart, Shape(chart).attr)

Driver(chart, values) ==
    Clamp(values[Key(chart, Shape(chart).driver)], 0, Total(chart))

(* The parts of a partition, in hundredths: its share of the driver for     *)
(* each dimension, and what is left of the total for the remainder.         *)
Part(chart, d, driver) ==
    IF d.remainder THEN AtLeast(100 * Total(chart) - driver * AllShares(Shape(chart)), 0)
    ELSE driver * d.share

(* What a counting dimension adds in a tick; a per-core one adds nothing    *)
(* when there is no total to take a share of.                               *)
Grows(chart, d, values) ==
    IF Shape(chart).kind = "counters"
    THEN AtLeast(values[Key(chart, d.signal)], 0) * Interval
    ELSE IF Total(chart) = 0 THEN 0
    ELSE (profile.cores * Interval * Part(chart, d, Driver(chart, values)) * Unit) \div Total(chart)

Counts(shape) == shape.kind = "counters" \/ (shape.kind = "partition" /\ shape.jiffies)

Cells == UNION {{i} \X DOMAIN Shape(plan[i]).dims : i \in DOMAIN plan}

Dim(cell) == Shape(plan[cell[1]]).dims[cell[2]]

Name(cell) == <<plan[cell[1]].id, Dim(cell).id>>

Accumulated(values) ==
    [k \in {Name(c) : c \in {c \in Cells : Counts(Shape(plan[c[1]]))}} |->
        (IF k \in DOMAIN counters THEN counters[k] ELSE 0) +
        LET c == CHOOSE c \in Cells : Name(c) = k
        IN  Grows(plan[c[1]], Dim(c), values)]

SampleChart(cell, values, accumulated) ==
    LET chart == plan[cell[1]]
        d     == Dim(cell)
    IN  IF Counts(Shape(chart)) THEN Truncate(accumulated[Name(cell)])
        ELSE IF Shape(chart).kind = "partition"
        THEN RoundTo(100 * Unit, Part(chart, d, Driver(chart, values)))
        ELSE Round(values[Key(chart, d.signal)])

----------------------------------------------------------------------------
(* The node's log: its process has an engine of its own, of the same plan,  *)
(* with noise of its own; it drops the samples of a tick and reads the      *)
(* values.  A rule speaks by chance, the oftener the further the value is   *)
(* past its mark: any of the lines may be missing.                          *)

HasService(rule) == rule.service = "" \/ rule.service \in ToSet(profile.services)

Group(name) == IF name \in DOMAIN profile.instances THEN ToSet(profile.instances[name]) ELSE {}

InstancesFor(rule) == IF rule.group = "" THEN {""} ELSE {i.name : i \in Group(rule.group)}

(* What is known of a signal: at most one value, of the last tick or of a   *)
(* configured size that no chart shows.                                     *)
Observed(values, scope, name) ==
    IF <<scope, name>> \in DOMAIN values THEN {values[<<scope, name>>]}
    ELSE {signals[n].min : n \in {n \in {name} \cap DOMAIN signals :
            /\ scope = "" /\ signals[n].from_attr = ""
            /\ signals[n].max_is_ceiling /\ signals[n].min = signals[n].max}}

(* The capacity a rule measures by: hundredths of it, or plain numbers.     *)
Capacity(rule, instance, values) ==
    CASE rule.limit # "" -> Observed(values, instance, rule.limit)
      [] rule.limit = "" /\ rule.attr # "" ->
            LET own == {i \in Group(rule.group) : i.name = instance /\ rule.attr \in DOMAIN i.attrs}
            IN  IF own # {} THEN {i.attrs[rule.attr] : i \in own}
                ELSE {profile.attrs[a] : a \in {rule.attr} \cap DOMAIN profile.attrs}
      [] OTHER -> {100}

Severe(rule, value, capacity) ==
    CASE rule.when = "above" -> value * 100 >= rule.mark * capacity
      [] rule.when = "below" -> value * 100 <= rule.mark * capacity
      [] OTHER -> value > 0

(* A volume never holds more than its size.                                 *)
Used(rule, value, capacity) == IF rule.volume THEN Clamp(value, 0, capacity) ELSE value

Said(r, i, values) ==
    [rule : {r}, instance : {i}, capacity : Capacity(r, i, values),
     value : {Used(r, v, c) : v \in Observed(values, i, r.signal), c \in Capacity(r, i, values)}]

Lines(values) ==
    {l \in UNION {UNION {Said(r, i, values) : i \in InstancesFor(r)} : r \in {r \in Rules : HasService(r)}} :
        l.capacity > 0 /\ Severe(l.rule, l.value, l.capacity)}

----------------------------------------------------------------------------
(* The lint's reading of the samples.                                       *)

Fell(shown) ==
    {<<"counter went backwards", Name(c)>> : c \in {c \in Cells :
        /\ Counts(Shape(plan[c[1]]))
        /\ Name(c) \in DOMAIN last /\ shown[c] < last[Name(c)].value}}

Track(shown) ==
    [k \in {Name(c) : c \in Cells} |->
        LET v == shown[CHOOSE c \in Cells : Name(c) = k]
        IN  IF k \in DOMAIN last
            THEN [value |-> v, moved |-> last[k].moved \/ last[k].value # v]
            ELSE [value |-> v, moved |-> FALSE]]

(* The units that say of what they count a part.                            *)
Ratios == {"percentage", "%", "% of time working"}

(* What a dimension shows of an emitted number is no more than a hundred.   *)
Fits(d, emitted) ==
    emitted * d.multiplier \in -(100 * AtLeast(d.divisor, -d.divisor)) .. 100 * AtLeast(d.divisor, -d.divisor)

Broken(i, shown) ==
    LET sum == Added([n \in DOMAIN Shape(plan[i]).dims |-> shown[<<i, n>>]])
        off == sum * Unit - Total(plan[i])
    IN  AtLeast(off, -off) * 2 > 3 * Unit

CheckSample(i, shown) ==
    LET chart == plan[i]
        shape == Shape(chart)
        over(n) == /\ spec.contexts[chart.context].units \in Ratios
                   /\ ~Fits(shape.dims[n], shown[<<i, n>>])
        lacks == shape.attr # "" /\ shape.attr \notin DOMAIN chart.attrs \cup DOMAIN profile.attrs
    IN  {<<"unit out of range", chart.id, n>> : n \in
            {n \in DOMAIN shape.dims : shape.kind = "independent" /\ over(n)}} \cup
        {<<"partition total missing", chart.id>> : x \in
            {x \in {1} : shape.kind = "partition" /\ ~shape.jiffies /\ lacks}} \cup
        {<<"conservation broken", chart.id>> : x \in
            {x \in {1} : /\ shape.kind = "partition" /\ ~shape.jiffies
                         /\ ~lacks /\ Broken(i, shown)}}

(* A dimension that may hold one value for a whole run, by the signal as    *)
(* the specification has it before any role.                                *)
DimensionIsConstant(chart, d, value) ==
    /\ Shape(chart).kind # "partition"
    /\ LET signal == spec.signals[d.signal]
       IN  \/ signal.min = signal.max
           \/ signal.from_attr # ""
           \/ signal.min_is_floor /\ value = Round(signal.min)

Flat ==
    {<<"perfectly flat", Name(c)>> : c \in {c \in Cells :
        /\ ~faulted /\ ~last[Name(c)].moved /\ last[Name(c)].value # 0
        /\ ~DimensionIsConstant(plan[c[1]], Dim(c), last[Name(c)].value)}}

----------------------------------------------------------------------------

Init ==
    /\ profile \in Profiles
    /\ spec = Compose(profile.base, profile.services)
    /\ signals = SignalsForRole(spec, profile.role)
    /\ plan = PlanCharts(spec.contexts, profile.instances)
    /\ counters = Nothing /\ sample = Nothing /\ drawn = Nothing /\ last = Nothing
    /\ told = Nothing /\ lines = {}
    /\ faulted = FALSE /\ violations = {} /\ ticks = 0

(* One tick: every chart of the plan sampled, the lint's look at them.      *)
(* What the scenarios do to each signal is anything.                        *)
EngineTick ==
    /\ spec # Refused /\ ticks < MaxTicks
    /\ \E fault \in Faults, noise \in [Streams -> Noise] :
        LET values      == Values(fault, noise)
            accumulated == Accumulated(values)
            shown       == [c \in Cells |-> SampleChart(c, values, accumulated)]
        IN  /\ drawn' = values
            /\ counters' = accumulated
            /\ sample' = shown
            /\ last' = Track(shown)
            /\ faulted' = (faulted \/ fault.on # {})
            /\ violations' = violations \cup Fell(shown)
                                \cup UNION {CheckSample(i, shown) : i \in DOMAIN plan}
    /\ ticks' = ticks + 1
    /\ UNCHANGED <<profile, spec, signals, plan, told, lines>>

(* A tick of the logs process, at a time of its own.                        *)
LogsTick ==
    /\ spec # Refused /\ ticks < MaxTicks
    /\ \E fault \in Faults, noise \in [Streams -> Noise] : told' = Values(fault, noise)
    /\ lines' = Lines(told')
    /\ ticks' = ticks + 1
    /\ UNCHANGED <<profile, spec, signals, plan, counters, sample, drawn, faulted, last, violations>>

Next == EngineTick \/ LogsTick

Spec == Init /\ [][Next]_engineVars

----------------------------------------------------------------------------
(* Safety.                                                                  *)

Authors(p) == {Read(p.base)} \cup {LoadServiceSpec(s) : s \in ToSet(p.services)}

(* A composition that is accepted is what each of its authors wrote: every  *)
(* context of each is there, a signal has the level and the bounds that     *)
(* each of them gave it unless the role retunes it, and every field a role  *)
(* retunes has the value its patch gives it (merge and signals_for_role).   *)
Authored ==
    spec # Refused => \A a \in Authors(profile) :
        /\ ToSet(a.contexts) \subseteq ToSet(spec.contexts)
        /\ \A s \in DOMAIN a.signals : SameSignal(a.signals[s], spec.signals[s])
        /\ profile.role \in DOMAIN a.roles =>
            \A s \in DOMAIN a.roles[profile.role] :
                \A f \in DOMAIN a.roles[profile.role][s] :
                    signals[s][f] = a.roles[profile.role][s][f]

(* What it takes for the order of the services to decide nothing: that a    *)
(* service laid over what it extends is valid, which nobody checks,         *)
OverlaysValid == \A p \in Profiles : \A a \in Authors(p) : a = Refused \/ Valid(a)

(* and that signals which a merge takes for the same are the same: it       *)
(* compares no more of them than level and bounds.                          *)
SharedAlike ==
    \A p \in Profiles : \A a, b \in Authors(p) : \A s \in DOMAIN a.signals \cap DOMAIN b.signals :
        SameSignal(a.signals[s], b.signals[s]) => a.signals[s] = b.signals[s]

(* The order in which a node names its services decides nothing but the     *)
(* order of its charts: either every order is refused or all of them give   *)
(* the same signals and contexts.                                           *)
EitherOrder ==
    LET other == Compose(profile.base, Reverse(profile.services))
    IN  /\ (spec = Refused) = (other = Refused)
        /\ spec.signals = other.signals
        /\ spec.roles = other.roles
        /\ ToSet(spec.contexts) = ToSet(other.contexts)

(* What the authors of the files of a node wrote is what the node has, and  *)
(* the order of its services decides nothing (overlay, merge).              *)
Composed == Authored /\ EitherOrder

(* Charts of one scope that show the same signal show the same value in     *)
(* every tick, whatever noise and faults there are (the tick's memory).     *)
OneValue ==
    sample # Nothing => \A c, d \in Cells :
        ( /\ Shape(plan[c[1]]).kind = "independent" /\ Shape(plan[d[1]]).kind = "independent"
          /\ plan[c[1]].scope = plan[d[1]].scope /\ Dim(c).signal = Dim(d).signal )
        => sample[c] = sample[d]

(* A signal of the node that neither noise nor a fault moves.               *)
Fixed(name) ==
    /\ name \in DOMAIN signals
    /\ signals[name].from_attr = "" /\ signals[name].max_is_ceiling
    /\ signals[name].min = signals[name].max

(* What a chart would show of the tick that the logs process has read.      *)
OfLogs(cell) == SampleChart(cell, told, counters)

(* A line of the log gives the number, and leaves of the capacity it names  *)
(* the free space, that the charts would show of the tick it reads (logs.rs,*)
(* tick).  Charts on the screen are of another engine with other noise, and *)
(* what they show of a level differs; but they show the capacity that the   *)
(* line names: the parts of a volume add up to it, and a limit that does    *)
(* not vary is it, whatever has happened to either engine.                  *)
Correlated ==
    \A l \in lines, c \in Cells :
        LET chart  == plan[c[1]]
            dims   == Shape(chart).dims
            volume == /\ Shape(chart).kind = "partition" /\ ~Shape(chart).jiffies
                      /\ Shape(chart).driver = l.rule.signal /\ Shape(chart).attr = l.rule.attr
                      /\ l.rule.volume
            off    == Added([n \in DOMAIN dims |-> sample[<<c[1], n>>]]) * Unit - l.capacity
        IN  chart.scope = l.instance =>
            /\ (Shape(chart).kind = "independent" /\ Dim(c).signal = l.rule.signal)
                  => OfLogs(c) = Round(l.value)
            /\ (volume /\ Dim(c).remainder /\ AllShares(Shape(chart)) = 100)
                  => OfLogs(c) = Round(l.capacity - l.value)
            /\ (volume /\ sample # Nothing) => AtLeast(off, -off) * 2 <= Len(dims) * Unit
            /\ ( /\ Shape(chart).kind = "independent" /\ Dim(c).signal = l.rule.limit
                 /\ l.rule.limit # "" /\ l.instance = "" /\ Fixed(l.rule.limit)
                 /\ sample # Nothing )
                  => sample[c] = Round(l.capacity)

(* By hand: "Rules inspect actual scoped values from the same composed      *)
(* NodeEngine used by metrics" (logs.rs:10), taken for the numbers that the *)
(* plugin's charts show.                                                    *)
ScreenCorrelated ==
    \A l \in lines, c \in Cells :
        ( /\ sample # Nothing /\ plan[c[1]].scope = l.instance
          /\ Shape(plan[c[1]]).kind = "independent" /\ Dim(c).signal = l.rule.signal )
        => sample[c] = Round(l.value)

(* What it takes for that: what a rule measures by its size is shown by     *)
(* partitions alone,                                                        *)
VolumesArePartitions ==
    \A p \in Profiles, r \in Rules : r.volume =>
        \A x \in ToSet(Compose(p.base, p.services).contexts) : x.shape.kind = "independent" =>
            \A i \in DOMAIN x.shape.dims : x.shape.dims[i].signal # r.signal

(* and instances of one name are of one size.                               *)
OneNameOneSize ==
    \A p \in Profiles : \A g, h \in DOMAIN p.instances :
        \A x \in ToSet(p.instances[g]), y \in ToSet(p.instances[h]) :
            x.name # "" /\ (x.name = y.name => x.attrs = y.attrs)

(* The charts agree with each other in every tick, and the log with its     *)
(* own engine and with the charts on the capacities they share.             *)
Coherent == OneValue /\ Correlated

(* What the lint has found of one kind.                                     *)
Found(kind) == {v \in violations : v[1] = kind}

NeverBack == Found("counter went backwards") = {}

(* A partition has no more parts than the lint puts up with the rounding    *)
(* of: three, or four of a whole total that are never half a unit each.     *)
FewParts(chart) ==
    LET dims == Shape(chart).dims IN
    \/ Len(dims) <= 3
    \/ /\ Len(dims) = 4 /\ Total(chart) % Unit = 0
       /\ \A driver \in 0 .. Total(chart) : \E d \in ToSet(dims) :
            ~d.remainder /\ (driver * d.share) % (100 * Unit) # 50 * Unit

(* What is said not to add up has more parts than that.                     *)
AddsUp ==
    \A v \in Found("conservation broken") : \E chart \in ToSet(plan) :
        chart.id = v[2] /\ Shape(chart).kind = "partition" /\ ~FewParts(chart)

(* The bounds of a signal are those of a ratio as the dimension shows it,   *)
(* and the upper one is physical.                                           *)
PhysicalRatio(d) ==
    LET signal == signals[d.signal] IN
    /\ signal.from_attr = "" /\ signal.max_is_ceiling
    /\ Fits(d, Round(signal.min)) /\ Fits(d, Round(signal.max))
    /\ signal.ignore_weight \/ \A g \in DOMAIN profile.instances :
            \A y \in ToSet(profile.instances[g]) : y.weight \in 0 .. 100

(* The dimension that is said to be out of its range has no such bounds.    *)
InRange ==
    \A v \in Found("unit out of range") : \E chart \in ToSet(plan) :
        /\ chart.id = v[2] /\ v[3] \in DOMAIN Shape(chart).dims
        /\ ~PhysicalRatio(Shape(chart).dims[v[3]])

OnlyMissing ==
    \A v \in Found("partition total missing") : \E chart \in ToSet(plan) :
        chart.id = v[2] /\ Shape(chart).kind = "partition" /\ Total(chart) = 0

(* What is called stuck is no declared constant.                            *)
StuckVaries ==
    last # Nothing => \A v \in Flat, c \in Cells :
        (Name(c) = v[2] /\ Shape(plan[c[1]]).kind # "partition") =>
            /\ signals[Dim(c).signal].from_attr = ""
            /\ signals[Dim(c).signal].min # signals[Dim(c).signal].max

(* What a node is composed of.                                              *)
Composition(p) == Compose(p.base, p.services)

(* What it takes for that, which nobody validates.  No two                  *)
(* charts of a node have one id.                                            *)
NamesApart ==
    \A p \in Profiles : LET charts == PlanCharts(Composition(p).contexts, p.instances) IN
        \A i, j \in DOMAIN charts : charts[i].id = charts[j].id => i = j

(* No attribute that a total may be read from is negative: with a negative  *)
(* total the clamp in the code would panic.                                 *)
SizesNatural ==
    \A p \in Profiles :
        /\ \A a \in DOMAIN p.attrs : p.attrs[a] >= 0
        /\ \A g \in DOMAIN p.instances : \A x \in ToSet(p.instances[g]) :
            \A a \in DOMAIN x.attrs : x.attrs[a] >= 0

(* No role makes a constant of a signal that is none.                       *)
RolesKeepRanges ==
    \A p \in Profiles : \A s \in DOMAIN Composition(p).signals :
        LET retuned == SignalsForRole(Composition(p), p.role)[s]
            signal  == Composition(p).signals[s]
        IN  retuned.min = retuned.max => signal.min = signal.max

(* The lint has nothing against a sound specification, under any fault and  *)
(* noise: no counter goes back; what does not add up has many parts; what   *)
(* is out of range has no physical bounds of a ratio; a missing total is    *)
(* missing; and a declared constant is never called stuck.                  *)
LintQuiet == NeverBack /\ AddsUp /\ InRange /\ OnlyMissing /\ StuckVaries
=============================================================================
