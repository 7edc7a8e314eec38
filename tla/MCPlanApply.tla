---------------------------- MODULE MCPlanApply ----------------------------
(* Two overlays over an intent that a user wrote.                          *)
EXTENDS PlanApply

CONSTANTS c1, c2

Symmetry == Permutations({c1, c2})

Source(s, proxies) == [source |-> s, proxies |-> proxies]
MCDeliveries == {<<Source("s1", <<"hk", "us">>)>>, <<Source("s1", <<"us">>)>>}
MCDisplayName == [s \in {"s1"} |-> "home"]
MCLocalPacks == [ads |-> [target |-> "REJECT", options |-> {}, ok |-> TRUE]]

Match(names) == [names |-> names, sources |-> {}, min |-> 0, max |-> 0]
Group(mode, match, nodes, optional) ==
    [mode |-> mode, match |-> match, nodes |-> nodes, optional |-> optional]
Rule(id, target) == [id |-> <<"rule", id>>, target |-> target, ok |-> TRUE]

Us == Group("manual", None, <<<<NoLabel, "us", 1>>>>, FALSE)
MCOverlays ==
    {[EmptyConfig EXCEPT !.groups = [Us |-> Us], !.packs = <<Rule("ai", "Us")>>],
     [EmptyConfig EXCEPT !.groups = [Us |-> Group("auto", Match({"hk"}), <<>>, FALSE)],
                         !.policies = [Exit |-> {"Us"}],
                         !.packs = <<Rule("ai", "Exit")>>,
                         !.localPacks = <<[id |-> "ads", target |-> None]>>]}

Written == [EmptyConfig EXCEPT !.groups = [Us |-> Us], !.template = "home", !.fallback = "Us",
                               !.packs = <<Rule("ai", "DIRECT")>>]
\* An intent that a user wrote, with a config but no selection, or one that
\* the patch registry compiled.
MCWorkspaces ==
    {[active |-> [intent |-> Written, selection |-> None, output |-> NoFragment],
      artifacts |-> <<Source("s1", <<"hk", "us">>)>>],
     [active |-> [intent |-> [Written EXCEPT !.compiled = TRUE],
                  selection |-> None, output |-> None],
      artifacts |-> <<Source("s1", <<"us">>)>>]}
MCProfile == [core |-> "meta", ok |-> TRUE, required |-> {}]
=============================================================================
