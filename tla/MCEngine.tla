------------------------------ MODULE MCEngine ------------------------------
(* A host with a disk, a database with a pool before it, a store with two   *)
(* mounts, and a device that lacks an attribute its specification takes a   *)
(* total from; and three hosts whose services cannot be composed.           *)
EXTENDS Engine, TLC

Plain == [base |-> 40, min |-> 0, max |-> 200, min_is_floor |-> FALSE,
          max_is_ceiling |-> FALSE, ignore_weight |-> FALSE, from_attr |-> "", rest |-> 1]

Gauge(id, signal) ==
    [id |-> id, signal |-> signal, share |-> 0, remainder |-> FALSE, multiplier |-> 1, divisor |-> 1]

Share(id, share) == [Gauge(id, "") EXCEPT !.share = share]

Rest(id) == [Gauge(id, "") EXCEPT !.remainder = TRUE]

Of(kind, dims) ==
    [kind |-> kind, dims |-> dims, driver |-> "", attr |-> "", total |-> 0, jiffies |-> FALSE]

Split(driver, dims) == [Of("partition", dims) EXCEPT !.driver = driver]

Context(id, group, units, shape) ==
    [id |-> id, group |-> group, prefix |-> id, units |-> units, shape |-> shape]

Linux ==
    [extends |-> <<>>,
     signals |-> [util |-> [Plain EXCEPT !.base = 240, !.max = 400, !.max_is_ceiling = TRUE,
                                         !.ignore_weight = TRUE],
                  reads |-> Plain,
                  used |-> [Plain EXCEPT !.base = 100, !.min = 20, !.min_is_floor = TRUE]],
     contexts |-> <<
        Context("ram", "", "KiB", [Split("used", <<Share("app", 86), Share("buffers", 3), Share("cache", 11), Rest("free")>>)
                                      EXCEPT !.attr = "ram"]),
        Context("cpu", "", "percentage", [Split("util", <<Share("user", 75), Rest("idle")>>)
                                      EXCEPT !.total = 400, !.jiffies = TRUE]),
        Context("disk_util", "disk", "percentage", Of("independent", <<Gauge("busy", "util")>>)),
        Context("disk_io", "disk", "KiB/s", Of("counters", <<Gauge("reads", "reads")>>)) >>,
     roles |-> [db |-> [reads |-> [base |-> 60]]]]

(* The number of connections, and the percentage they are of a limit of 400.*)
Conns == [Plain EXCEPT !.base = 440, !.max = 1600, !.max_is_ceiling = TRUE]

Limit == [Conns EXCEPT !.base = 1600, !.min = 1600, !.min_is_floor = TRUE]

Postgres ==
    [extends |-> << <<"generated", "pg">> >>,
     signals |-> [conns |-> Conns, limit |-> Limit],
     contexts |-> << Context("pg_conns", "", "connections",
                        Of("independent", <<Gauge("used", "conns"), Gauge("limit", "limit")>>)),
                     Context("pg_used", "", "percentage",
                        Of("independent", <<[Gauge("used", "conns") EXCEPT !.divisor = 4]>>)) >>,
     roles |-> [db |-> [conns |-> [base |-> 480]]]]

PgGenerated ==
    [extends |-> <<>>,
     signals |-> [pg_base |-> Plain],
     contexts |-> << Context("pg_conns", "", "connections", Of("independent", <<Gauge("n", "pg_base")>>)),
                     Context("pg_locks", "", "locks", Of("counters", <<Gauge("n", "pg_base")>>)) >>,
     roles |-> [db |-> [pg_base |-> [max |-> 180]]]]

Pool ==
    [extends |-> <<>>,
     signals |-> [conns |-> Conns],
     contexts |-> << Context("pool", "", "connections", Of("independent", <<Gauge("n", "conns")>>)) >>,
     roles |-> [db |-> [conns |-> [max |-> 1500]]]]

Rival == [Pool EXCEPT !.contexts[1].id = "rival", !.signals.conns.base = 444]

Tuner == [Pool EXCEPT !.contexts[1].id = "tuner", !.roles.db.conns = [base |-> 500]]

Switch ==
    [extends |-> <<>>,
     signals |-> [speed |-> [Plain EXCEPT !.from_attr = "if_speed"], reads |-> Plain],
     contexts |-> << Context("port", "interface", "Mbps", Of("independent", <<Gauge("speed", "speed")>>)),
                     Context("port_io", "interface", "KiB/s", Of("counters", <<Gauge("in", "reads")>>)),
                     Context("load", "interface", "percentage", Of("independent", <<Gauge("in", "reads")>>)),
                     Context("memory", "", "KiB", [Split("reads", <<Share("used", 50), Rest("free")>>)
                                                      EXCEPT !.attr = "flash"]) >>,
     roles |-> Nothing]

Volume ==
    [extends |-> <<>>,
     signals |-> [filled |-> [Plain EXCEPT !.base = 100, !.max = 400]],
     contexts |-> << Context("space", "mount", "KiB",
                        [Split("filled", <<Share("used", 100), Rest("avail")>>) EXCEPT !.attr = "size"]),
                     Context("quarters", "mount", "KiB",
                        [Split("filled", <<Share("a", 25), Share("b", 25), Share("c", 25), Rest("d")>>)
                            EXCEPT !.attr = "size"]) >>,
     roles |-> Nothing]

MCFiles ==
    (<<"specs", "linux">> :> Linux) @@ (<<"specs", "postgres">> :> Postgres) @@
    (<<"generated", "pg">> :> PgGenerated) @@ (<<"specs", "pool">> :> Pool) @@
    (<<"generated", "pool">> :> Rival) @@ (<<"generated", "rival">> :> Rival) @@
    (<<"specs", "tuner">> :> Tuner) @@ (<<"specs", "switch">> :> Switch) @@
    (<<"specs", "volume">> :> Volume)

Disk(name, weight) == [name |-> name, weight |-> weight, attrs |-> Nothing]

Host(services) ==
    [base |-> <<"specs", "linux">>, services |-> services, role |-> "db", cores |-> 2,
     attrs |-> [ram |-> 120],
     instances |-> [disk |-> <<Disk("sdb", 50)>>]]

Device ==
    [base |-> <<"specs", "switch">>, services |-> <<>>, role |-> "switch", cores |-> 1,
     attrs |-> [if_speed |-> 4000],
     instances |-> [interface |-> <<[name |-> "te1", weight |-> 50, attrs |-> [if_speed |-> 40000]]>>]]

(* A host whose one mount has a size of its own and whose other has none.   *)
Store ==
    [Host(<<"pool">>) EXCEPT
        !.base = <<"specs", "volume">>, !.attrs = [size |-> 120],
        !.instances = [mount |-> <<[name |-> "data", weight |-> 100, attrs |-> [size |-> 240]],
                                   [name |-> "logs", weight |-> 50, attrs |-> Nothing]>>]]

MCRules ==
    {[signal |-> "filled", group |-> "mount", when |-> "above", mark |-> 90, attr |-> "size",
      limit |-> "", service |-> "pool", volume |-> TRUE],
     [signal |-> "conns", group |-> "", when |-> "above", mark |-> 90, attr |-> "",
      limit |-> "limit", service |-> "postgres", volume |-> FALSE],
     [signal |-> "used", group |-> "", when |-> "below", mark |-> 20, attr |-> "ram",
      limit |-> "", service |-> "", volume |-> FALSE],
     [signal |-> "reads", group |-> "disk", when |-> "positive", mark |-> 0, attr |-> "",
      limit |-> "", service |-> "", volume |-> FALSE]}

(* A database in a container, whose own charts are those of its services.   *)
Database(services) ==
    [Host(services) EXCEPT !.base = <<"specs", "volume">>, !.instances = Nothing]

MCProfiles ==
    {Store, Host(<<>>), Database(<<"postgres", "pool">>), Host(<<"pool", "rival">>),
     Host(<<"postgres", "tuner">>), Host(<<"gone">>), Device}

MCFaults ==
    {[on |-> {}, multiplier |-> 1, additive |-> 0],
     [on |-> {"util", "used", "conns", "reads", "filled"}, multiplier |-> 3, additive |-> 0],
     [on |-> {"reads", "used", "pg_base"}, multiplier |-> 1, additive |-> -100],
     [on |-> {"util", "reads", "filled"}, multiplier |-> 1, additive |-> 600]}

(* What the theorems about the engine take of the files holds of these.     *)
ASSUME FilesFit ==
    /\ OverlaysValid /\ SharedAlike /\ VolumesArePartitions /\ OneNameOneSize
    /\ NamesApart /\ SizesNatural /\ RolesKeepRanges
=============================================================================
