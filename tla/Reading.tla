------------------------------- MODULE Reading -------------------------------
(* From a description to groups of nodes: the keyword reader, what is kept  *)
(* of a model's plan, the folding and naming of groups, and the scaling to  *)
(* a size that was asked for.                                               *)
(*                                                                          *)
(* A text is a sequence of clauses.  Of a clause only what the readers see  *)
(* is kept: the keywords in it, the ids it has as words, its numbers, its   *)
(* number word (0 for none) and how many words it has.  A slug is the       *)
(* sequence of the words and numbers between its hyphens, and so is the id  *)
(* of a spec where it names nodes; <<>> is no slug.                         *)
EXTENDS Integers, Sequences, FiniteSets, SequencesExt

CONSTANTS
    Roles,      \* the role table: role, slug, services, keywords with lengths
    Collectors, \* the specs on disk in the order of their names: [id, length, slug]
    Reserved,   \* label keys the simulation writes itself
    Unfit,      \* <<key, value>> that the form of keys and values forbids
    MaxTier     \* the most nodes a clause or a plan may give one group

(* A word, or a number among the words.                                     *)
Parts == [word : STRING \cup {"number"}, n : Nat]

Word(w) == <<[word |-> w, n |-> 0]>>

ASSUME RolesAssumption ==
    /\ Roles \in Seq(ToSet(Roles)) /\ \E i \in DOMAIN Roles : Roles[i].role = "web"
    /\ \A i \in DOMAIN Roles :
        /\ Roles[i].role \in STRING /\ Roles[i].services \in Seq(STRING)
        /\ Roles[i].slug \in Seq(Parts) /\ Roles[i].slug # <<>>

ASSUME CollectorsAssumption ==
    /\ Collectors \in Seq(ToSet(Collectors))
    /\ \A i \in DOMAIN Collectors :
        /\ Collectors[i].id \in STRING
        /\ Collectors[i].slug \in Seq(Parts) /\ Collectors[i].slug # <<>>

ASSUME ReservedAssumption == {"infra_sim_role", "infra_sim_env"} \subseteq Reserved /\ "environment" \notin Reserved

ASSUME TierAssumption == MaxTier \in Nat \ {0}

NoLabels == [k \in {} |-> ""]

Layered(upper, lower) ==
    [k \in DOMAIN upper \cup DOMAIN lower |->
        IF k \in DOMAIN upper THEN upper[k] ELSE lower[k]]

(* The nodes of all groups, added up by position.                           *)
Sum(groups) ==
    LET upto[i \in 0 .. Len(groups)] == IF i = 0 THEN 0 ELSE upto[i - 1] + groups[i].count
    IN  upto[Len(groups)]

(* What of a sequence is in a set, in its order.                            *)
Only(s, set) ==
    LET upto[i \in 0 .. Len(s)] ==
            IF i = 0 THEN <<>> ELSE IF s[i] \in set THEN Append(upto[i - 1], s[i]) ELSE upto[i - 1]
    IN  upto[Len(s)]

First(places) == CHOOSE i \in places : \A j \in places : i <= j

Known == {Collectors[i].id : i \in DOMAIN Collectors}

(* The id of a service, as a slug; one without a spec is one word.          *)
Spelled(id) ==
    IF id \in Known THEN Collectors[First({i \in DOMAIN Collectors : Collectors[i].id = id})].slug
    ELSE Word(id)

RoleNames == {Roles[i].role : i \in DOMAIN Roles}

RoleOf(role) == Roles[First({i \in DOMAIN Roles : Roles[i].role = role})]

ValidPair(key, value) == key \notin Reserved /\ <<key, value>> \notin Unfit

ValidLabels(labels) == \A k \in DOMAIN labels : ValidPair(k, labels[k])

Group(count, role, services) ==
    [count |-> count, role |-> role, services |-> services, slug |-> <<>>,
     labels |-> NoLabels, site |-> 0]

----------------------------------------------------------------------------
(* Groups that are one tier, and the names of those that are not.           *)

(* Mutant: the role alone makes a tier.                                     *)
SameTierByRole(g, h) == g.role = h.role

(* Mutant: groups with different labels are one tier.                       *)
SameTierAnyLabels(g, h) ==
    /\ g.role = h.role /\ g.services = h.services
    /\ h.site = 0 \/ g.site = 0 \/ g.site = h.site

SameTier(g, h) ==
    /\ g.role = h.role /\ g.services = h.services
    /\ h.labels = NoLabels \/ g.labels = NoLabels \/ g.labels = h.labels
    /\ h.site = 0 \/ g.site = 0 \/ g.site = h.site

(* A group that takes the nodes and the labels of another one in; its site  *)
(* stays what it was.                                                       *)
Joined(h, g) == [h EXCEPT !.count = @ + g.count, !.labels = Layered(g.labels, @)]

(* A group that comes in goes into the first of its tier.                   *)
Merge(groups, g) ==
    LET same == {i \in DOMAIN groups : SameTier(groups[i], g)}
        at   == First(same)
    IN  IF same = {} THEN Append(groups, g)
        ELSE [groups EXCEPT ![at] = Joined(@, g)]

Merged(groups) ==
    LET upto[i \in 0 .. Len(groups)] == IF i = 0 THEN <<>> ELSE Merge(upto[i - 1], groups[i])
    IN  upto[Len(groups)]

(* The one service that a bare node of the role does not have.              *)
Distinctive(g) ==
    Only(g.services, ToSet(g.services) \ ({"processes"} \cup ToSet(RoleOf(g.role).services)))

EffectiveSlug(g) ==
    IF g.slug # <<>> THEN g.slug
    ELSE IF g.role # "network-device" /\ Len(Distinctive(g)) = 1
    THEN Spelled(Distinctive(g)[1])
    ELSE RoleOf(g.role).slug

Numbered(base, n) == Append(base, [word |-> "number", n |-> n])

(* The name of the next group when those of the earlier ones are taken.     *)
Candidate(g, taken) ==
    LET base   == EffectiveSlug(g)
        byRole == base \o RoleOf(g.role).slug
        free   == {n \in 2 .. Cardinality(taken) + 2 : Numbered(base, n) \notin taken}
    IN  IF base \notin taken THEN base
        ELSE IF byRole \notin taken THEN byRole
        ELSE Numbered(base, First(free))

Qualify(named, g) ==
    LET name == Candidate(g, {EffectiveSlug(named[i]) : i \in DOMAIN named})
    IN  Append(named, IF name = EffectiveSlug(g) THEN g ELSE [g EXCEPT !.slug = name])

Qualified(groups) ==
    LET upto[i \in 0 .. Len(groups)] == IF i = 0 THEN <<>> ELSE Qualify(upto[i - 1], groups[i])
    IN  upto[Len(groups)]

(* Mutant: names are given from the last group to the first.                *)
DedupeFromTheEnd(groups) == Reverse(Qualified(Reverse(Merged(groups))))

Dedupe(groups) == Qualified(Merged(groups))

----------------------------------------------------------------------------
(* The keyword reader.                                                      *)

(* Names of less than four letters are too much like ordinary words.        *)
Named(clause) ==
    LET hits == Only(Collectors, {c \in ToSet(Collectors) : c.length >= 4 /\ c.id \in clause.names})
    IN  [i \in DOMAIN hits |-> hits[i].id]

Count(clause) ==
    LET fit == Only(clause.numbers, 1 .. MaxTier)
    IN  IF fit # <<>> THEN fit[1] ELSE IF clause.word # 0 THEN clause.word ELSE 1

(* The longest keyword of a role that the clause has; 0 when it has none.   *)
Longest(def, clause) ==
    LET found == {def.keywords[k] : k \in DOMAIN def.keywords \cap clause.says}
    IN  IF found = {} THEN 0 ELSE CHOOSE n \in found : \A m \in found : m <= n

(* The first role with the longest keyword; for software without a role     *)
(* word it is the general one.                                              *)
Best(clause) ==
    LET best == {i \in DOMAIN Roles : Longest(Roles[i], clause) > 0 /\
                    \A j \in DOMAIN Roles : Longest(Roles[j], clause) <= Longest(Roles[i], clause)}
    IN  IF best # {} THEN {Roles[CHOOSE i \in best : \A j \in best : i <= j]}
        ELSE IF Named(clause) # <<>> THEN {RoleOf("web")} ELSE {}

(* No group, or the one the clause describes.                               *)
MatchClause(clause) ==
    {Group(Count(clause), def.role, IF Named(clause) = <<>> THEN def.services ELSE Named(clause)) :
        def \in Best(clause)}

(* The clauses that describe a group.                                       *)
Spoken(text) == Only(text, {c \in ToSet(text) : MatchClause(c) # {}})

ParseWithServices(text) ==
    Merged([i \in DOMAIN Spoken(text) |-> CHOOSE g \in MatchClause(Spoken(text)[i]) : TRUE])

----------------------------------------------------------------------------
(* What is kept of a model's reply.  A phrase that the model reports as     *)
(* unsupported is the set of the ids in it.                                 *)

HasPlan(reply) == reply.outcome = "plan"

LabelMap(labels) ==
    [k \in {k \in DOMAIN labels : ValidPair(k, labels[k])} |-> labels[k]]

Kept(g) ==
    LET known == Only(g.services, Known)
    IN  IF known # <<>> THEN known ELSE Only(RoleOf(g.role).services, Known)

Clamped(n) == IF n < 1 THEN 1 ELSE IF n > MaxTier THEN MaxTier ELSE n

Validated(plan) ==
    LET fit == Only(plan, {g \in ToSet(plan) : g.role \in RoleNames})
    IN  Dedupe([i \in DOMAIN fit |->
            [Group(Clamped(fit[i].count), fit[i].role, Kept(fit[i]))
                EXCEPT !.slug = fit[i].slug, !.labels = LabelMap(fit[i].labels)]])

(* What the model says it cannot represent, though there is a spec for it.  *)
Missing(group, placed, unsupported) ==
    Only(group.services, (UNION unsupported) \ placed)

Lost(offline, placed, unsupported) ==
    [i \in DOMAIN offline |->
        [offline[i] EXCEPT !.services = Missing(offline[i], placed, unsupported)]]

Equipped(lost) == Only(lost, {g \in ToSet(lost) : g.services # <<>>})

Joining(groups, back) == IF back = <<>> THEN groups ELSE Dedupe(groups \o back)

(* The groups of the plan, with those of the keyword reader for software    *)
(* that the model reported unsupported and placed nowhere.                  *)
Reinstated(groups, unsupported, text) ==
    LET placed == UNION {ToSet(groups[i].services) : i \in DOMAIN groups}
    IN  Joining(groups, Equipped(Lost(ParseWithServices(text), placed, unsupported)))

(* The phrases that stay reported: one that names anything reinstated goes. *)
StillUnsupported(groups, unsupported, text) ==
    LET placed == UNION {ToSet(groups[i].services) : i \in DOMAIN groups}
        back   == UNION {ToSet(g.services) : g \in ToSet(ParseWithServices(text))}
                    \cap ((UNION unsupported) \ placed)
    IN  {u \in unsupported : u \cap back = {}}

----------------------------------------------------------------------------
(* Scaling to a size.                                                       *)

(* One node from the last of the largest groups, if any has two.            *)
Shed(groups) ==
    LET large == {i \in DOMAIN groups : groups[i].count > 1 /\
                    \A j \in DOMAIN groups :
                        /\ groups[j].count <= groups[i].count
                        /\ groups[j].count = groups[i].count => j <= i}
    IN  [i \in DOMAIN groups |->
            IF i \in large THEN [groups[i] EXCEPT !.count = @ - 1] ELSE groups[i]]

Whole(count, target, before) ==
    IF count * target < before THEN 1 ELSE (count * target) \div before

Trimmed(groups, k) ==
    LET upto[i \in 0 .. k] == IF i = 0 THEN groups ELSE Shed(upto[i - 1]) IN upto[k]

Floored(groups, target) ==
    [i \in DOMAIN groups |-> [groups[i] EXCEPT !.count = Whole(@, target, Sum(groups))]]

(* How many groups come before group i when the remainders are sorted, the  *)
(* largest first and earlier groups before later ones.                      *)
Rank(groups, target, i) ==
    LET rest(j) == (groups[j].count * target) % Sum(groups)
    IN  Cardinality({j \in DOMAIN groups : rest(j) > rest(i) \/ (rest(j) = rest(i) /\ j < i)})

HandedOut(groups, target, left) ==
    [i \in DOMAIN groups |-> [Floored(groups, target)[i] EXCEPT !.count =
        @ + (left \div Len(groups)) + IF Rank(groups, target, i) < left % Len(groups) THEN 1 ELSE 0]]

(* Whole shares, the rest by largest remainder; what the floor of one node  *)
(* overshoots is shed again.                                                *)
ScaleToTarget(groups, asked) ==
    LET target == IF asked < Len(groups) THEN Len(groups) ELSE asked
        left   == target - Sum(Floored(groups, target))
    IN  IF asked = 0 \/ Sum(groups) = 0 \/ asked = Sum(groups) THEN groups
        ELSE IF left >= 0 THEN HandedOut(groups, target, left)
        ELSE Trimmed(Floored(groups, target), -left)
=============================================================================
