-------------------------- MODULE MCConfigPipeline --------------------------
(* Two sources, three patches and an intent written by hand.               *)
EXTENDS ConfigPipeline

CONSTANTS c1, c2

Symmetry == Permutations({c1, c2})

Source(s, proxies) == [source |-> s, proxies |-> proxies]
MCDeliveries ==
    {<<Source("s1", <<"hk", "us">>)>>,
     <<Source("s1", <<"us">>), Source("s2", <<"us", "us">>)>>}
MCDisplayName == [s \in {"s1", "s2"} |-> "home"]
MCLocalPacks == [ads |-> [target |-> "REJECT", options |-> {"REJECT", "Exit"}, ok |-> TRUE]]

Match(names, sources, min, max) ==
    [names |-> names, sources |-> sources, min |-> min, max |-> max]
Group(mode, match, nodes, optional) ==
    [mode |-> mode, match |-> match, nodes |-> nodes, optional |-> optional]
Rule(id, target) == [id |-> <<"rule", id>>, target |-> target, ok |-> TRUE]
Empty == [groups |-> <<>>, policies |-> <<>>, transport |-> <<>>, custom |-> <<>>,
          localPacks |-> <<>>, providers |-> <<>>, packs |-> <<>>, fallback |-> None,
          selected |-> <<>>]

Hk == Group("auto", Match({"hk"}, {}, 0, 0), <<>>, TRUE)
Us == Group("manual", Match({"us"}, {"s1", "s2"}, 0, 2), <<>>, FALSE)
Own == Group("smart", None, <<<<NoLabel, "us", 1>>>>, FALSE)

MCPatches == <<"base", "own", "hk">>
MCOverlay ==
    [base |-> [Empty EXCEPT !.groups = [Hk |-> Hk, Us |-> Us],
                            !.policies = [Exit |-> {"Hk", "Us"}],
                            !.transport = <<Rule("quic", "REJECT")>>,
                            !.localPacks = <<[id |-> "ads", target |-> None]>>,
                            !.packs = <<Rule("ai", "Exit")>>],
     own |-> [Empty EXCEPT !.groups = [Own |-> Own],
                           !.custom = <<Rule("bank", "Own")>>],
     hk |-> [Empty EXCEPT !.groups = [Hk |-> Hk],
                          !.providers = <<Rule("tv", "Hk")>>]]
MCHandWritten ==
    {None,
     [Empty EXCEPT !.groups = [Us |-> Us, Own |-> Group("direct", None, <<>>, FALSE)],
                   !.custom = <<Rule("lan", "Own")>>, !.fallback = "Us"]}
MCBuiltin == [router |-> {"Exit"}, normal |-> {}]
MCUserProfiles == {None, [ok |-> FALSE, required |-> {}]}
=============================================================================
