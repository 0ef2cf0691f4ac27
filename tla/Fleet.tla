------------------------------- MODULE Fleet -------------------------------
(* Authoring of environment files: the console's form, filled by a reading  *)
(* of a description and edited, and the command line, which writes what it  *)
(* has read.  Both check the other files of a directory for the GUIDs they  *)
(* are about to hand out, and then write.                                   *)
(*                                                                          *)
(* A GUID is taken to be different for different <<environment, hostname>>: *)
(* it is a 128-bit hash of the two.  A hostname is <<prefix, slug, number>>.*)
(* The nodes of a file are kept by <<place of their group, number>>.        *)
EXTENDS Reading

CONSTANTS
    Devices,    \* ids in the catalogue of network devices
    Names,      \* names of environments, as sanitised
    Texts,      \* descriptions
    Replies,    \* what a model may answer: outcome, groups, unsupported, labels
    Targets,    \* node counts that may be asked for; 0 for none
    Rows,       \* rows that may be added to the form by hand
    Places,     \* locations of a fleet that may be entered; 0 for none
    Earth,      \* the locations that are points on it
    Apart,      \* whether one author checks and writes before the next begins
    MaxSteps,   \* bound on descriptions and edits
    MaxWrites   \* bound on the files written

(* What every row of the form is.                                          *)
IsRow(r) ==
    /\ r \in [count : {r.count}, role : {r.role}, services : {r.services},
             slug : {<<>>}, labels : {r.labels}, site : {r.site}]
    /\ r.count \in Nat /\ r.role \in STRING /\ r.services \in Seq(STRING)
    /\ DOMAIN r.labels \subseteq STRING /\ r.labels \in [DOMAIN r.labels -> STRING]
    /\ r.site \in Nat

ASSUME RowsAssumption == \A r \in Rows : IsRow(r)

ASSUME RepliesAssumption ==
    \A by \in Replies :
        /\ by.groups \in Seq(ToSet(by.groups))
        /\ \A g \in ToSet(by.groups) :
            /\ g.count \in Int /\ g.services \in Seq(STRING) /\ g.slug \in Seq(Parts)
            /\ DOMAIN g.labels \subseteq STRING /\ g.labels \in [DOMAIN g.labels -> STRING]
        /\ DOMAIN by.labels \subseteq STRING /\ by.labels \in [DOMAIN by.labels -> STRING]

ASSUME TextsAssumption ==
    \A text \in Texts :
        /\ text \in Seq(ToSet(text))
        /\ \A c \in ToSet(text) : c.numbers \in Seq(Int) /\ c.word \in Nat

(* The command line writes to a path of its own.                            *)
ASSUME NamesAssumption == "out" \notin Names

ASSUME NumbersAssumption == Targets \subseteq Nat /\ Places \subseteq Nat /\ 0 \in Places

VARIABLES
    form,       \* the console's form: rows, labels and site of the fleet
    offer,      \* a reading just made: text, reader, asked size, groups
    pending,    \* author -> the file it has checked and not yet written
    files,      \* the directory: path -> environment
    steps, writes

vars == <<form, offer, pending, files, steps, writes>>

Authors == {"console", "cli"}

(* Who reads a text: the keywords, or a model by one of its replies.        *)
Keywords == [outcome |-> "keywords", groups |-> <<>>, unsupported |-> {}, labels |-> NoLabels]

Readers == {Keywords} \cup Replies

NoOffer == [text |-> <<>>, by |-> Keywords, unsupported |-> {}, target |-> 0, groups |-> <<>>]

----------------------------------------------------------------------------
(* Rendering.                                                               *)

DeriveGuid(name, host) == <<name, host>>

BaseSpec(role, services) ==
    IF role # "network-device" THEN ""
    ELSE LET models == Only(services, ToSet(services) \ {"processes"})
         IN  IF models = <<>> THEN "network-device" ELSE models[1]

EnvTier(fleet, group) ==
    LET labels == Layered(group, fleet)
    IN  IF "environment" \in DOMAIN labels THEN labels["environment"] ELSE "production"

(* The labels of a node, the generated ones first.                          *)
NodeLabels(fleet, g) ==
    Layered(Layered(g.labels, fleet),
            [k \in {"infra_sim_role", "infra_sim_env"} |->
                IF k = "infra_sim_role" THEN g.role ELSE EnvTier(fleet, g.labels)])

Node(name, fleet, g, i) ==
    LET host == <<name, EffectiveSlug(g), i>>
        base == BaseSpec(g.role, g.services)
    IN  [hostname |-> host, guid |-> DeriveGuid(name, host), role |-> g.role,
         generator |-> base,
         services |-> IF base # "" THEN {} ELSE ToSet(g.services) \cup {"processes"},
         labels |-> NodeLabels(fleet, g), site |-> g.site]

Render(groups, labels, name) ==
    [p \in UNION {{k} \X (1 .. groups[k].count) : k \in DOMAIN groups} |->
        Node(name, labels, groups[p[1]], p[2])]

(* The fleet's own location, or that of the largest group that has one.     *)
FleetSite(groups, site) ==
    LET placed == {i \in DOMAIN groups : groups[i].site # 0}
    IN  IF site # 0 \/ placed = {} THEN site
        ELSE groups[CHOOSE i \in placed : \A j \in placed :
                /\ groups[j].count <= groups[i].count
                /\ groups[j].count = groups[i].count => i <= j].site

Environment(groups, labels, site, name, asked, by) ==
    [name |-> name, site |-> FleetSite(groups, site),
     nodes |-> Render(groups, labels, name),
     asked |-> [rows |-> asked, labels |-> labels, site |-> site], by |-> by]

Guids(file) == {node.guid : node \in Range(file.nodes)}

(* Mutant: the files of the same environment are passed over.               *)
GuidUniquenessByName(file, path) ==
    \A p \in DOMAIN files \ {path} :
        files[p].name = file.name \/ Guids(files[p]) \cap Guids(file) = {}

GuidUniqueness(file, path) ==
    \A p \in DOMAIN files \ {path} : Guids(files[p]) \cap Guids(file) = {}

(* What the plugin accepts of a file.                                       *)
Loads(file) ==
    /\ DOMAIN file.nodes # {}
    /\ \A i, j \in DOMAIN file.nodes : i # j =>
        /\ file.nodes[i].guid # file.nodes[j].guid
        /\ file.nodes[i].hostname # file.nodes[j].hostname

----------------------------------------------------------------------------
(* Readings.                                                                *)

(* The groups read from a text, by the keywords or from a model's reply.    *)
GroupsRead(text, by) ==
    IF by = Keywords THEN ParseWithServices(text)
    ELSE Reinstated(Validated(by.groups), by.unsupported, text)

Proposed(text, by, target) ==
    [text |-> text, by |-> by, target |-> target,
     unsupported |-> IF by = Keywords THEN {}
                     ELSE StillUnsupported(Validated(by.groups), by.unsupported, text),
     groups |-> ScaleToTarget(GroupsRead(text, by), target)]

Suggested(by) == IF by = Keywords THEN NoLabels ELSE LabelMap(by.labels)

(* A reply that holds no usable plan is an error and nothing else: it is    *)
(* never replaced by the keyword reading.                                   *)
Usable(by) == by = Keywords \/ (HasPlan(by) /\ Validated(by.groups) # <<>>)

(* All the readings, computed once.                                         *)
Offers ==
    [text \in Texts |-> [by \in {b \in Readers : Usable(b)} |-> [target \in Targets |->
        Proposed(text, by, target)]]]

----------------------------------------------------------------------------
(* The console.                                                             *)

Init ==
    /\ form = [rows |-> <<>>, labels |-> NoLabels, site |-> 0]
    /\ offer = NoOffer
    /\ pending = [a \in {} |-> 0] /\ files = [p \in {} |-> 0]
    /\ steps = 0 /\ writes = 0

(* The reading becomes the rows of the form.  A row has no slug: the name   *)
(* that the model gave a tier stays behind.                                 *)
Filled(o) ==
    /\ offer' = o
    /\ form' = [form EXCEPT
        !.rows = [i \in DOMAIN o.groups |-> [o.groups[i] EXCEPT !.slug = <<>>]],
        !.labels = Suggested(o.by)]

Describe(text, by, target) ==
    /\ Usable(by) /\ steps < MaxSteps
    /\ Filled(Offers[text][by][target])
    /\ steps' = steps + 1
    /\ UNCHANGED <<pending, files, writes>>

Edit ==
    /\ steps < MaxSteps
    /\ \/ \E i \in DOMAIN form.rows, n \in {0, 1} :
            form' = [form EXCEPT !.rows[i].count = IF n = 0 THEN 0 ELSE @ + 1]
       \/ \E row \in Rows : form' = [form EXCEPT !.rows = Append(@, row)]
       \/ \E site \in Places \ {form.site} : form' = [form EXCEPT !.site = site]
    /\ steps' = steps + 1 /\ offer' = NoOffer
    /\ UNCHANGED <<pending, files, writes>>

Allowed(row) == IF row.role = "network-device" THEN Devices ELSE Known

Asked == Only(form.rows, {r \in ToSet(form.rows) : r.count > 0})

(* A location that a row lacks is the fleet's.                              *)
GroupSite(row, site) == IF row.site # 0 THEN row.site ELSE site

Accepted ==
    /\ Asked # <<>>
    /\ ValidLabels(form.labels) /\ form.site \in Earth \cup {0}
    /\ \A i \in DOMAIN Asked :
        /\ Asked[i].role \in RoleNames
        /\ GroupSite(Asked[i], form.site) \in Earth \cup {0}
        /\ ToSet(Asked[i].services) \subseteq Allowed(Asked[i])
        /\ ValidLabels(Asked[i].labels)

(* What the rows of the form become.                                        *)
FormGroups(rows, site) ==
    Dedupe([i \in DOMAIN rows |-> [rows[i] EXCEPT !.site = GroupSite(rows[i], site)]])

Free(author) == author \notin DOMAIN pending /\ (Apart => DOMAIN pending = {})

Checked(author, path, file) ==
    /\ Free(author) /\ writes + Cardinality(DOMAIN pending) < MaxWrites
    /\ GuidUniqueness(file, path)
    /\ pending' = Layered([a \in {author} |-> [path |-> path, file |-> file]], pending)

(* The console checks the form and the directory; its path is the name's.   *)
Build(name) ==
    /\ Accepted
    /\ Checked("console", name,
               Environment(FormGroups(Asked, form.site), form.labels, form.site, name, Asked, "form"))
    /\ offer' = NoOffer
    /\ UNCHANGED <<form, files, steps, writes>>

(* The command line goes from the text to a checked file in one go.  The    *)
(* keyword reader's groups are not deduped, and the path may be any.        *)
Printed(o, name) ==
    /\ o.groups # <<>>
    /\ Checked("cli", "out", Environment(o.groups, Suggested(o.by), 0, name, o.groups, o.by.outcome))
    /\ offer' = o

DoDescribe(text, by, target, name) ==
    /\ Usable(by) /\ steps < MaxSteps
    /\ Printed(Offers[text][by][target], name)
    /\ steps' = steps + 1
    /\ UNCHANGED <<form, files, writes>>

Write(author) ==
    /\ author \in DOMAIN pending
    /\ files' = Layered([p \in {pending[author].path} |-> pending[author].file], files)
    /\ pending' = [a \in DOMAIN pending \ {author} |-> pending[a]]
    /\ writes' = writes + 1 /\ offer' = NoOffer
    /\ UNCHANGED <<form, steps>>

Next ==
    \/ \E text \in Texts, by \in Readers, target \in Targets :
        \/ Describe(text, by, target)
        \/ \E name \in Names : DoDescribe(text, by, target, name)
    \/ Edit
    \/ \E name \in Names : Build(name)
    \/ \E author \in Authors : Write(author)

Spec == Init /\ [][Next]_vars

----------------------------------------------------------------------------
(* Safety.                                                                  *)

(* A reading has every node that was asked for and loses no software.  The  *)
(* size that was given is met exactly unless there are more tiers than      *)
(* that, no tier vanishes, the keywords' counts are those of the clauses,   *)
(* and software that a clause names is on some group: always when the       *)
(* keywords read it, and also when a model claims that it cannot be         *)
(* represented (parse_with_services, scale_to_target,                       *)
(* reinstate_dropped_software).                                             *)
Offered ==
    LET groups == ToSet(offer.groups)
        tiers  == Len(offer.groups)
        heard  == Spoken(offer.text)
    IN  /\ \A g \in groups : g.count >= 1
        /\ (offer.target # 0 /\ groups # {}) =>
            Sum(offer.groups) = IF offer.target < tiers THEN tiers ELSE offer.target
        /\ (offer.by = Keywords /\ offer.target = 0) =>
            Sum(offer.groups) = Sum([i \in DOMAIN heard |-> [count |-> Count(heard[i])]])
        /\ \A i \in DOMAIN offer.text : \A id \in ToSet(Named(offer.text[i])) :
            (offer.by = Keywords \/ id \in UNION offer.by.unsupported) =>
                \E g \in groups : id \in ToSet(g.services)

(* The nodes of a file that are what a row asks for.                        *)
Serving(file, row) ==
    {i \in DOMAIN file.nodes :
        LET node == file.nodes[i]
        IN  /\ node.role = row.role
            /\ \/ ToSet(row.services) \cup {"processes"} = node.services
               \/ node.generator # "" /\ node.generator = BaseSpec(row.role, row.services)
            /\ \A k \in DOMAIN row.labels :
                k \in DOMAIN node.labels /\ node.labels[k] = row.labels[k]
            /\ file.asked.site # 0 =>
                node.site = IF row.site # 0 THEN row.site ELSE file.asked.site}

(* A file holds what was asked for: as many nodes as all rows together, for *)
(* each row at least its count that run its software under its labels and,  *)
(* in a fleet that has a location, at its place; every node has the labels  *)
(* of the fleet that no row overrides, and the generated ones agree with    *)
(* its role and its tier whatever labels were asked for.                    *)
AsAsked ==
    \A p \in DOMAIN files :
        LET file == files[p]
        IN  /\ Cardinality(DOMAIN file.nodes) = Sum(file.asked.rows)
            /\ \A row \in ToSet(file.asked.rows) : Cardinality(Serving(file, row)) >= row.count
            /\ \A node \in Range(file.nodes) :
                /\ DOMAIN file.asked.labels \subseteq DOMAIN node.labels
                /\ node.labels["infra_sim_role"] = node.role
                /\ "environment" \in DOMAIN node.labels =>
                    node.labels["infra_sim_env"] = node.labels["environment"]

(* No GUID is in two files of the directory, and a file that the console or *)
(* a model's reading has written is one the plugin loads: two nodes never   *)
(* claim one identity (dedupe_slugs, guid_uniqueness).                      *)
OneIdentity ==
    /\ \A p, q \in DOMAIN files : p # q => Guids(files[p]) \cap Guids(files[q]) = {}
    /\ \A p \in DOMAIN files : files[p].by # "keywords" => Loads(files[p])

(* More of the same: no row fewer or changed but for a higher count.        *)
Extends(new, old) ==
    /\ new.site = old.site
    /\ Len(old.rows) <= Len(new.rows)
    /\ \A i \in DOMAIN old.rows :
        /\ old.rows[i].count <= new.rows[i].count
        /\ old.rows[i] = [new.rows[i] EXCEPT !.count = old.rows[i].count]

Identities(file) ==
    {<<n.guid, n.hostname, n.role, n.services>> : n \in Range(file.nodes)}

(* Writing an environment again with higher counts or further rows keeps    *)
(* every node that was there: its GUID, its name, its role and what it runs *)
(* (the history of a running fleet is not orphaned).                        *)
IdentityKept ==
    [][\A p \in DOMAIN files :
        (files'[p] # files[p] /\ files'[p].name = files[p].name /\ Extends(files'[p].asked, files[p].asked))
            => Identities(files[p]) \subseteq Identities(files'[p])]_vars

(* By hand: the console's rows with a place of their own get their nodes    *)
(* there also in a fleet without a location.                                *)
Placed ==
    \A p \in DOMAIN files : \A row \in ToSet(files[p].asked.rows) :
        row.site # 0 =>
            Cardinality({i \in DOMAIN files[p].nodes : files[p].nodes[i].role = row.role
                            /\ files[p].nodes[i].site = row.site}) >= row.count

(* By hand: scaling keeps which of two tiers is the larger.                 *)
ShapeKept ==
    LET before == GroupsRead(offer.text, offer.by)
    IN  \A i, j \in DOMAIN offer.groups :
            before[i].count < before[j].count => offer.groups[i].count <= offer.groups[j].count

(* By hand: whatever is written loads.                                      *)
AllLoad == \A p \in DOMAIN files : Loads(files[p])
=============================================================================
