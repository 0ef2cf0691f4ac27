---------------------------- MODULE MCScenarios ----------------------------
(* Small fleets and scenarios: each effect alone and with another, a recovery before and     *)
(* after it, each selector alone and the pairs that the lint looks at one by one.            *)
EXTENDS Scenarios

N(host, suffix, role, labels, insts, signals) ==
    [host |-> host, suffix |-> suffix, role |-> role, labels |-> labels, insts |-> insts, signals |-> signals]

Web1 == N("w1", "01", "web", {"eu"}, {}, {"cpu"})
Web2 == N("w2", "02", "web", {"us"}, {"sda"}, {"cpu"})
Db1 == N("d1", "01", "db", {"eu"}, {"sda"}, {"cpu", "io"})
Lb1 == N("l1", "09", "lb", {}, {}, {"cpu"})

T(signal) == [signal |-> signal, host |-> Any, suffix |-> Any, role |-> Any, inst |-> Any, index |-> 0, label |-> Any]
E(kind, to, over) == [kind |-> kind, to |-> to, over |-> over]
S(at, target, effect) == [at |-> at, target |-> target, effect |-> effect]
Sc(name, timeline) == [name |-> name, requires |-> {}, warmup |-> TRUE, timeline |-> timeline]

Effects == {E("step", 0, 0), E("step", 6, 0), E("ramp", 8, 2), E("ramp", 2, 2), E("ramp", 8, -1),
            E("drift", 1, 0), E("drift", -1, 0), E("oscillate", 2, 4), E("add", 2, 0), E("add", -1, 0),
            E("add_ramp", 4, 2), E("recover", 0, 2), E("recover", 0, 0), E("recover", 0, -1)}
Zero == {E("ramp", 8, 0), E("add_ramp", 4, 0), E("oscillate", 2, 0)}

Case(fleet, library, warmup, until) ==
    [fleet |-> fleet, library |-> library, warmup |-> warmup, until |-> until]

\* Two steps on one application signal, of two places in time.
Pairs == {Case(<<Web1>>, <<Sc("a", <<S(0, T("orders"), e), S(at, T("orders"), f)>>)>>, FALSE, 6) :
            e \in Effects, f \in {g \in Effects : g.kind # "drift"}, at \in {0, 2}}
Singles == {Case(<<Web1>>, <<Sc("a", <<S(at, T("orders"), e)>>), Sc("b", <<S(1, T("orders"), IF e.kind = "drift" THEN E("add", 2, 0) ELSE E("step", 8, 0))>>)>>, FALSE, 5) :
                e \in Effects, at \in {-1, 1}}
Invalid == {Case(<<Web1>>, <<Sc("a", <<S(0, T("orders"), e)>>)>>, FALSE, 1) : e \in Zero}

\* A signal, and at most two selectors.
Selectors == {<<"host", "w1">>, <<"suffix", "02">>, <<"role", "web">>, <<"role", "db">>, <<"role", "lb">>,
              <<"inst", "sda">>, <<"index", 1>>, <<"index", 2>>, <<"label", "us">>, <<"label", NoEquals>>,
              <<"label", Simulated>>}
Targets == {[[T(s) EXCEPT ![p[1]] = p[2]] EXCEPT ![q[1]] = q[2]] :
                s \in {"cpu", "io", "orders", "mail", "typo"}, p \in Selectors, q \in Selectors}
Requires == {[Sc("a", <<S(0, t, E("step", 6, 0))>>) EXCEPT !.requires = q] :
                t \in {T("cpu"), [T("cpu") EXCEPT !.role = "lb"], [T("orders") EXCEPT !.role = "db"]}, q \in {{}, {"lb"}, {"db"}}}
Selecting == {Case(fleet, <<sc>>, FALSE, 1) :
                fleet \in {<<Web1, Db1, Web2>>, <<Lb1, Web2, Web1>>},
                sc \in {Sc("a", <<S(0, t, E("step", 6, 0))>>) : t \in Targets} \cup Requires}

Rotating == {Case(<<Web1>>, <<Sc("a", <<S(at, T("orders"), E("step", 6, 0)), S(0, T("cpu"), E("add", 2, 0))>>),
                             Sc("b", <<S(3, T("orders"), E("add", 2, 0))>>)>>, TRUE, 1) : at \in {0, 1}}

MCCases == Pairs \cup Singles \cup Invalid \cup Selecting \cup Rotating
MCAppSignals == {"orders"}
MCOnDisk == {"cpu", "io", "orders", "mail"}
=============================================================================
