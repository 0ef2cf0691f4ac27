------------------------------ MODULE MCFleet -------------------------------
(* Three roles and a network device, four texts, a model that answers well, *)
(* badly or not at all, and rows with labels, places and devices.           *)
EXTENDS Fleet, TLC

Role(role, slug, services, keywords) ==
    [role |-> role, slug |-> Word(slug), services |-> services, keywords |-> keywords]

MCUnfit == {<<"team", "">>}

MCRoles ==
    << Role("web", "web", <<"nginx">>, [web |-> 3, server |-> 6]),
       Role("db", "db", <<"postgres">>, [database |-> 8, db |-> 2]),
       Role("network-device", "sw", <<>>, [switches |-> 8]) >>

OneWord(id, length) == [id |-> id, length |-> length, slug |-> Word(id)]

MCCollectors ==
    << OneWord("haproxy", 7), OneWord("kafka", 5), OneWord("nginx", 5),
       [id |-> "php-fpm", length |-> 7, slug |-> Word("php") \o Word("fpm")],
       OneWord("ping", 4), OneWord("postgres", 8), OneWord("dns", 3) >>

Clause(says, names, numbers, word, words) ==
    [says |-> says, names |-> names, numbers |-> numbers, word |-> word, words |-> words]

Webs(n) == Clause({"web", "server"}, {}, <<n>>, 0, 3)

MCTexts ==
    { << Webs(5), Clause({"database"}, {"haproxy"}, <<>>, 2, 3), Clause({"switches"}, {}, <<1>>, 0, 2) >>,
      << Clause({}, {"kafka"}, <<99, 2>>, 0, 3), Clause({"web"}, {}, <<>>, 0, 1),
         Clause({"database"}, {"dns", "kafka"}, <<1>>, 0, 4), Clause({}, {}, <<>>, 0, 2) >>,
      << Clause({"db"}, {"kafka", "haproxy"}, <<3>>, 0, 3), Webs(1), Webs(1) >> }

Planned(role, count, services, slug, labels) ==
    [role |-> role, count |-> count, services |-> services, slug |-> slug, labels |-> labels]

Reply(groups, unsupported, labels) ==
    [outcome |-> "plan", groups |-> groups, unsupported |-> unsupported, labels |-> labels]

MCReplies ==
    { Reply(<< Planned("web", 3, <<"nginx">>, Word("shop"), NoLabels),
               Planned("db", 0, <<"oracle">>, Word("shop"), [team |-> "a", latitude |-> "1"]) >>,
            {{"kafka"}, {"haproxy", "ping"}}, [environment |-> "staging"]),
      Reply(<< Planned("web", 2, <<"php-fpm">>, <<>>, NoLabels), Planned("mainframe", 2, <<>>, <<>>, NoLabels),
               Planned("db", 1, <<"postgres">>, Word("php") \o Word("fpm"), NoLabels) >>,
            {{"haproxy"}}, [team |-> ""]),
      Reply(<< Planned("mainframe", 2, <<>>, <<>>, NoLabels) >>, {{"kafka"}}, NoLabels),
      [outcome |-> "refused", groups |-> <<>>, unsupported |-> {}, labels |-> NoLabels] }

MCRows ==
    { [Group(1, "db", <<"kafka">>) EXCEPT !.labels = [team |-> "b"]],
      [Group(2, "web", <<"nginx">>) EXCEPT !.labels = [environment |-> "test"]],
      [Group(1, "web", <<"nginx">>) EXCEPT !.site = 2, !.labels = [environment |-> "live"]],
      [Group(1, "web", <<"kafka">>) EXCEPT !.labels = [simulated |-> "no"]],
      [Group(1, "web", <<"kafka">>) EXCEPT !.site = 9],
      Group(1, "network-device", <<"catalyst">>),
      Group(1, "network-device", <<"kafka">>) }
=============================================================================
