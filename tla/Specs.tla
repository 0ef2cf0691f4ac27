------------------------------- MODULE Specs -------------------------------
(* The generator specifications and how a node's one is put together: the   *)
(* data format of crates/sim-spec, its validation, and the composition the  *)
(* plugin makes of a base, its services and what they extend.               *)
(*                                                                          *)
(* A signal is a record of its parameters; seasonality and noise are one    *)
(* field, "rest".  A map of the source is a function; a patch is a function *)
(* from the fields it sets.  Numbers are integers, in any unit.             *)
EXTENDS Integers, Sequences, FiniteSets, SequencesExt

CONSTANT Files  \* the specs directory: from a path to the specification there

Signals ==
    [base : Int, min : Int, max : Int, min_is_floor : BOOLEAN, max_is_ceiling : BOOLEAN,
     ignore_weight : BOOLEAN, from_attr : STRING, rest : Int]

(* What is emitted is shown times the multiplier, by the divisor.           *)
Dims ==
    [id : STRING, signal : STRING, share : Int, remainder : BOOLEAN, multiplier : Int,
     divisor : Int]

Shapes ==
    [kind : {"independent", "counters", "partition"}, dims : Seq(Dims), driver : STRING,
     attr : STRING, total : Int, jiffies : BOOLEAN]

Contexts == [id : STRING, group : STRING, prefix : STRING, units : STRING, shape : Shapes]

IsMap(m) == DOMAIN m \subseteq STRING /\ m = [k \in DOMAIN m |-> m[k]]

(* The fields that a role may set.                                          *)
IsPatch(p) == DOMAIN p \subseteq {"base", "min", "max", "rest"} /\ p \in [DOMAIN p -> Int]

IsSpec(s) ==
    /\ s \in [signals : {s.signals}, contexts : Seq(Contexts), roles : {s.roles},
              extends : {s.extends}]
    /\ IsMap(s.signals) /\ \A n \in DOMAIN s.signals : s.signals[n] \in Signals
    /\ IsMap(s.roles) /\ \A r \in DOMAIN s.roles :
        IsMap(s.roles[r]) /\ \A n \in DOMAIN s.roles[r] : IsPatch(s.roles[r][n])
    /\ s.extends \in Seq(ToSet(s.extends))

ASSUME FilesAssumption == \A path \in DOMAIN Files : IsSpec(Files[path])

(* A map laid over another one: the upper entries win.                      *)
Over(upper, lower) ==
    [k \in DOMAIN upper \cup DOMAIN lower |->
        IF k \in DOMAIN upper THEN upper[k] ELSE lower[k]]

Nothing == [k \in {} |-> 0]

Earliest(places) == CHOOSE i \in places : \A j \in places : i <= j

----------------------------------------------------------------------------
(* Signals and their retuning by a role.                                    *)

Apply(signal, patch) ==
    [f \in DOMAIN signal |-> IF f \in DOMAIN patch THEN patch[f] ELSE signal[f]]

(* Two patches of one signal that set a field differently.                  *)
Contradict(p, q) == \E f \in DOMAIN p \cap DOMAIN q : p[f] # q[f]

SignalsForRole(spec, role) ==
    [s \in DOMAIN spec.signals |->
        IF role \in DOMAIN spec.roles /\ s \in DOMAIN spec.roles[role]
        THEN Apply(spec.signals[s], spec.roles[role][s])
        ELSE spec.signals[s]]

MaxIsPhysical(signal) == signal.max_is_ceiling

----------------------------------------------------------------------------
(* Validation.  A share is in hundredths of the driver.                     *)

ValidSignal(signal) ==
    /\ signal.min <= signal.max
    /\ signal.base \in signal.min .. signal.max

Added(terms) ==
    LET upto[i \in 0 .. Len(terms)] == IF i = 0 THEN 0 ELSE upto[i - 1] + terms[i]
    IN  upto[Len(terms)]

(* The shares of all dimensions but the remainder.                          *)
AllShares(shape) ==
    Added([i \in DOMAIN shape.dims |->
            IF shape.dims[i].remainder THEN 0 ELSE shape.dims[i].share])

ValidShape(shape) ==
    /\ shape.dims # <<>>
    /\ \A i, j \in DOMAIN shape.dims : i # j => shape.dims[i].id # shape.dims[j].id
    /\ \A i \in DOMAIN shape.dims : shape.dims[i].divisor # 0
    /\ shape.kind = "partition" =>
        /\ shape.attr = "" => shape.total > 0
        /\ Cardinality({i \in DOMAIN shape.dims : shape.dims[i].remainder}) = 1
        /\ \A i \in DOMAIN shape.dims : ~shape.dims[i].remainder => shape.dims[i].share >= 0
        /\ AllShares(shape) <= 100

(* The signals a shape reads, in the order of its dimensions.               *)
Reads(shape) ==
    IF shape.kind = "partition" THEN <<shape.driver>>
    ELSE [i \in DOMAIN shape.dims |-> shape.dims[i].signal]

Valid(spec) ==
    /\ spec.contexts # <<>>
    /\ \A s \in DOMAIN spec.signals : ValidSignal(spec.signals[s])
    /\ \A i, j \in DOMAIN spec.contexts :
        i # j => spec.contexts[i].id # spec.contexts[j].id
    /\ \A i \in DOMAIN spec.contexts :
        /\ ValidShape(spec.contexts[i].shape)
        /\ ToSet(Reads(spec.contexts[i].shape)) \subseteq DOMAIN spec.signals
    /\ \A r \in DOMAIN spec.roles : \A s \in DOMAIN spec.roles[r] :
        /\ s \in DOMAIN spec.signals
        /\ ValidSignal(Apply(spec.signals[s], spec.roles[r][s]))

----------------------------------------------------------------------------
(* Composition.  A failure is a specification without contexts, which no    *)
(* valid one is.                                                            *)

Refused == [signals |-> Nothing, contexts |-> <<>>, roles |-> Nothing, extends |-> <<>>]

(* A context takes the place of the one with its id, or the last.           *)
Place(contexts, context) ==
    LET at == {i \in DOMAIN contexts : contexts[i].id = context.id}
    IN  IF at = {} THEN Append(contexts, context) ELSE [contexts EXCEPT ![Earliest(at)] = context]

Placed(contexts, list) ==
    LET upto[i \in 0 .. Len(list)] == IF i = 0 THEN contexts ELSE Place(upto[i - 1], list[i])
    IN  upto[Len(list)]

Overlay(under, over) ==
    [under EXCEPT !.signals = Over(over.signals, @),
                  !.contexts = Placed(@, over.contexts),
                  !.roles = Over(over.roles, @)]

SameSignal(a, b) == a.base = b.base /\ a.min = b.min /\ a.max = b.max

Collide(a, b) ==
    \/ \E s \in DOMAIN a.signals \cap DOMAIN b.signals :
        ~SameSignal(a.signals[s], b.signals[s])
    \/ \E i \in DOMAIN a.contexts, j \in DOMAIN b.contexts :
        a.contexts[i].id = b.contexts[j].id
    \/ \E r \in DOMAIN a.roles \cap DOMAIN b.roles :
        \E s \in DOMAIN a.roles[r] \cap DOMAIN b.roles[r] :
            Contradict(a.roles[r][s], b.roles[r][s])

(* Mutant: the later specification's patch of a signal replaces the other.  *)
LastPatches(p, q) == Over(q, p)

(* The patches of one role by two specifications, field by field.           *)
BothPatches(p, q) ==
    [s \in DOMAIN p \cup DOMAIN q |->
        Over(IF s \in DOMAIN q THEN q[s] ELSE Nothing, IF s \in DOMAIN p THEN p[s] ELSE Nothing)]

Joined(a, b) ==
    [a EXCEPT !.signals = Over(b.signals, @),
              !.contexts = @ \o b.contexts,
              !.roles = [r \in DOMAIN a.roles \cup DOMAIN b.roles |->
                            BothPatches(IF r \in DOMAIN a.roles THEN a.roles[r] ELSE Nothing,
                                        IF r \in DOMAIN b.roles THEN b.roles[r] ELSE Nothing)]]

Merge(a, b) ==
    IF Collide(a, b) \/ ~Valid(Joined(a, b)) THEN Refused ELSE Joined(a, b)

(* A file read and validated; a file that is not there is refused.          *)
Read(path) ==
    IF path \in DOMAIN Files /\ Valid(Files[path]) THEN Files[path] ELSE Refused

(* A service's own file, or else the one generated from the collectors.     *)
ServicePath(service) ==
    IF <<"specs", service>> \in DOMAIN Files
    THEN <<"specs", service>> ELSE <<"generated", service>>

(* Specifications laid one over the other, the first lowest.                *)
Overlaid(specs) ==
    LET upto[i \in 0 .. Len(specs) - 1] ==
            IF i = 0 THEN specs[1] ELSE Overlay(upto[i - 1], specs[i + 1])
    IN  upto[Len(specs) - 1]

(* A service on top of what it extends, one level deep.  The result is not  *)
(* validated here.                                                          *)
LoadServiceSpec(service) ==
    LET spec  == Read(ServicePath(service))
        bases == [i \in DOMAIN spec.extends |-> Read(spec.extends[i])]
    IN  IF spec.extends = <<>> THEN spec
        ELSE IF \E i \in DOMAIN bases : bases[i] = Refused \/ bases[i].extends # <<>>
        THEN Refused
        ELSE Overlay(Overlaid(bases), spec)

AddService(merged, service) ==
    LET loaded == LoadServiceSpec(service)
    IN  IF Refused \in {merged, loaded} THEN Refused ELSE Merge(merged, loaded)

(* What a node runs: its base and its services, in the order it names them. *)
Compose(base, services) ==
    LET upto[i \in 0 .. Len(services)] ==
            IF i = 0 THEN Read(base) ELSE AddService(upto[i - 1], services[i])
    IN  upto[Len(services)]
=============================================================================
