---------------------------- MODULE ConfigModel ----------------------------
(***************************************************************************)
(* From subscriptions and an intent to the configuration Mihomo runs:      *)
(* internal/localconfig (Resolve), internal/rules (RenderFragment),        *)
(* internal/configrender (Render) and the compilation of the patch         *)
(* registry, as operators without state.                                   *)
(*                                                                         *)
(* A node name is a pair of what it is built from: the label of its source *)
(* (or NoLabel), the name in the subscription and which of the nodes with  *)
(* that label and name it is.  A regular expression is the set of names it *)
(* matches.  A rule is its id, its target and whether its other fields are *)
(* valid (network and port, lines, provider form, pack index and type).    *)
(***************************************************************************)
EXTENDS Naturals, FiniteSets, SequencesExt

CONSTANTS
    LocalPacks,    \* rule-packs/*.json: id -> [target, options, ok]
    Builtin,       \* mode -> the groups that the dns section of its profile names
    DisplayName,   \* source -> the name its nodes are prefixed with
    None           \* a file, a field or a target that is not there

\* The fields of a config that are sequences.
Lists == {"transport", "custom", "localPacks", "providers", "packs"}
HasFields(config) ==
    /\ {"fallback", "selected", "groups", "policies"} \subseteq DOMAIN config
    /\ \A list \in Lists : list \in DOMAIN config /\ config[list] \in Seq(ToSet(config[list]))

NoLabel == "no label"
Terminals == {"DIRECT", "REJECT"}
Failed == [ok |-> FALSE]

-----------------------------------------------------------------------------
(* Nodes.  artifacts: a sequence of [source, proxies], in the order of the *)
(* configured sources; proxies: a sequence of names.                       *)

SourceProxies(artifacts) ==
    FlattenSeq([i \in DOMAIN artifacts |->
        [j \in DOMAIN artifacts[i].proxies |->
            [source |-> artifacts[i].source, proxy |-> artifacts[i].proxies[j]]]])

\* Only where there are several sources is a name labelled with its own.
Nodes(artifacts) ==
    LET Label(s) == IF Len(artifacts) > 1 THEN DisplayName[s] ELSE NoLabel
        flat == SourceProxies(artifacts)
        base == [i \in DOMAIN flat |-> <<Label(flat[i].source), flat[i].proxy>>]
    IN [i \in DOMAIN flat |->
           [source |-> flat[i].source,
            name |-> <<base[i][1], base[i][2],
                       Cardinality({j \in 1..i : base[j] = base[i]})>>]]

\* The merged file has the same names, but no longer tells their sources.
Merged(artifacts) ==
    [i \in DOMAIN Nodes(artifacts) |->
        [source |-> None, name |-> Nodes(artifacts)[i].name]]

NamesOf(nodes) == {nodes[i].name : i \in DOMAIN nodes}

-----------------------------------------------------------------------------
(* Resolve.  A config: groups and policies are functions from ids, each    *)
(* list of rules is a sequence, fallback is a target or None, selected has *)
(* the selected_nodes of its groups: <<>> until it is resolved.            *)

ResolveMatch(match, optional, nodes) ==
    LET all == SelectSeq(nodes, LAMBDA n :
                   /\ match.sources # {} => n.source \in match.sources
                   /\ n.name[2] \in match.names)
        kept == IF match.max > 0 THEN SubSeq(all, 1, IF match.max < Len(all)
                                                     THEN match.max ELSE Len(all))
                                 ELSE all
        min == IF match.min = 0 /\ ~optional THEN 1 ELSE match.min
    IN IF Len(kept) < min
       THEN Failed
       ELSE [ok |-> TRUE, nodes |-> [i \in DOMAIN kept |-> kept[i].name]]

ResolveExactNodes(wanted, nodes) ==
    IF ~(ToSet(wanted) \subseteq NamesOf(nodes))
    THEN Failed
    ELSE IF wanted = <<>> THEN Failed
    ELSE [ok |-> TRUE, nodes |-> SelectSeq([i \in DOMAIN wanted |->
                IF wanted[i] \in {wanted[j] : j \in 1..(i - 1)} THEN None ELSE wanted[i]],
                LAMBDA n : n # None)]

ResolveProxyGroup(group, nodes) ==
    CASE group.mode = "direct" ->
            IF group.match # None \/ group.nodes # <<>>
            THEN Failed
            ELSE [ok |-> TRUE, nodes |-> <<>>]
      [] group.mode # "direct" /\ group.match # None ->
            IF group.nodes # <<>>
            THEN Failed
            ELSE ResolveMatch(group.match, group.optional, nodes)
      [] OTHER -> ResolveExactNodes(group.nodes, nodes)

Known(target, config) ==
    target \in Terminals \union DOMAIN config.groups \union DOMAIN config.policies

ResolvePolicies(config) ==
    /\ DOMAIN config.policies \cap DOMAIN config.groups = {}
    /\ \A p \in DOMAIN config.policies :
          /\ config.policies[p] # {}
          /\ config.policies[p] \subseteq Terminals \union DOMAIN config.groups

UniqueIds(rules) == \A i, j \in DOMAIN rules : rules[i].id = rules[j].id => i = j

ResolveRules(rules, config) ==
    \A i \in DOMAIN rules : rules[i].ok /\ Known(rules[i].target, config)

ResolveTransportRules(config) ==
    UniqueIds(config.transport) /\ ResolveRules(config.transport, config)

ResolveCustomRules(config) ==
    UniqueIds(config.custom) /\ ResolveRules(config.custom, config)

\* ok stands for the provider's type, url, behavior, format and interval.
ResolveRuleProviders(config) ==
    UniqueIds(config.providers) /\ ResolveRules(config.providers, config)

\* A selected local pack goes to its own target, or to the one the pack names.
LocalTarget(pick) ==
    IF pick.target # None THEN pick.target ELSE LocalPacks[pick.id].target

ResolveEnabledRulePacks(config) ==
    /\ UniqueIds(config.localPacks)
    /\ \A pick \in ToSet(config.localPacks) :
          /\ pick.id \in DOMAIN LocalPacks
          /\ \A id \in DOMAIN LocalPacks : LocalPacks[id].ok
          /\ LocalTarget(pick) # None
          /\ LocalPacks[pick.id].options # {} =>
                LocalTarget(pick) \in LocalPacks[pick.id].options
          /\ Known(LocalTarget(pick), config)

LocalRules(config) ==
    [i \in DOMAIN config.localPacks |->
        [id |-> <<"rule_pack", config.localPacks[i].id>>,
         target |-> LocalTarget(config.localPacks[i]), ok |-> TRUE]]

Fallback(config) == IF config.fallback = None THEN "DIRECT" ELSE config.fallback

\* The lines of the selected local packs follow the config's own.
CustomRules(config) == config.custom \o LocalRules(config)

SelectedNodes(config, nodes) ==
    [g \in DOMAIN config.groups |-> ResolveProxyGroup(config.groups[g], nodes).nodes]

Selection(config, nodes) ==
    [groups |-> [g \in DOMAIN config.groups |->
                    [mode |-> config.groups[g].mode,
                     optional |-> config.groups[g].optional,
                     nodes |-> SelectedNodes(config, nodes)[g]]],
     policies |-> config.policies,
     fallback |-> Fallback(config),
     transport |-> config.transport,
     custom |-> CustomRules(config),
     providers |-> config.providers,
     packs |-> config.packs]

\* Each group is told the nodes it got, in the place of earlier ones.
ResolvedConfig(config, nodes) ==
    [config EXCEPT !.fallback = Fallback(config), !.selected = SelectedNodes(config, nodes)]

Resolve(config, nodes) ==
    IF /\ nodes # <<>>
       /\ \A g \in DOMAIN config.groups : ResolveProxyGroup(config.groups[g], nodes).ok
       /\ ResolvePolicies(config)
       /\ Known(Fallback(config), config)
       /\ ResolveTransportRules(config)
       /\ ResolveRules(config.packs, config)
       /\ ResolveCustomRules(config)
       /\ ResolveEnabledRulePacks(config)
       /\ ResolveRuleProviders(config)
    THEN [ok |-> TRUE, selection |-> Selection(config, nodes),
          config |-> ResolvedConfig(config, nodes)]
    ELSE Failed

-----------------------------------------------------------------------------
(* RenderFragment.                                                         *)

\* The rules of a fragment in their order: AND, custom, RULE-SET, packs.
RulesOf(selection) ==
    selection.transport \o selection.custom \o selection.providers \o selection.packs

NoNodes(group) == ToSet(group.nodes) = {}

\* An optional group without nodes is left out of the configuration.
Absent(group) == group.optional /\ group.mode # "direct" /\ NoNodes(group)

CandidatePolicyExits(selection, policy) ==
    {exit \in selection.policies[policy] :
        exit \in DOMAIN selection.groups => ~Absent(selection.groups[exit])}

\* prepareTargets: what the selection file says has to fit the names at hand.
PrepareTargets(selection, names) ==
    /\ \A g \in DOMAIN selection.groups :
          LET group == selection.groups[g]
          IN /\ NoNodes(group) => group.mode = "direct" \/ group.optional
             /\ ToSet(group.nodes) \subseteq names
    /\ \A p \in DOMAIN selection.policies :
          /\ p \notin DOMAIN selection.groups
          /\ selection.policies[p] \subseteq Terminals \union DOMAIN selection.groups

\* (for a mutant) The targets of external rule providers are not marked used.
BugUsedTargets(selection, required) ==
    required \union {r.target : r \in ToSet(selection.transport \o selection.custom
                                               \o selection.packs)}

\* Targets that a rule or the dns section of the profile uses.
UsedTargets(selection, required) ==
    required \union {r.target : r \in ToSet(RulesOf(selection))}

UsedPolicyGroups(selection, required) ==
    UsedTargets(selection, required) \cap DOMAIN selection.policies

UsedProxyGroups(selection, required) ==
    DOMAIN selection.groups \cap
        (UsedTargets(selection, required) \union
         UNION {CandidatePolicyExits(selection, p) :
                    p \in UsedPolicyGroups(selection, required)})

\* DIRECT as a member of a group, beside the names of nodes.
DirectMember == <<"DIRECT">>

MaterializeProxyGroup(group) ==
    ToSet(group.nodes) \union (IF group.mode = "direct" THEN {DirectMember} ELSE {})

MaterializedGroups(selection, required) ==
    LET present == {g \in UsedProxyGroups(selection, required) : ~Absent(selection.groups[g])}
    IN [g \in present |-> MaterializeProxyGroup(selection.groups[g])]

MaterializedPolicies(selection, required) ==
    [p \in UsedPolicyGroups(selection, required) |-> CandidatePolicyExits(selection, p)]

RenderFragment(selection, required, names) ==
    IF /\ PrepareTargets(selection, names)
       /\ UsedTargets(selection, required)
             \subseteq Terminals \union DOMAIN selection.groups \union DOMAIN selection.policies
       /\ \A p \in UsedPolicyGroups(selection, required) :
             CandidatePolicyExits(selection, p) # {}
    THEN [ok |-> TRUE,
          rules |-> RulesOf(selection),
          groups |-> MaterializedGroups(selection, required),
          policies |-> MaterializedPolicies(selection, required)]
    ELSE Failed

-----------------------------------------------------------------------------
(* Render.  profile: the [mode, core] of the runtime profile; a mode or a  *)
(* user profile is the set of groups its dns section names.  A selection   *)
(* of None is a base without an overlay.                                   *)

\* A user's profile takes the place of the one built in for the mode; one
\* that defines what localClash owns is refused.
ActiveProfile(profile, user) ==
    [core |-> profile.core,
     ok |-> user # None => user.ok,
     required |-> IF user # None THEN user.required ELSE Builtin[profile.mode]]

NoFragment == [ok |-> TRUE, rules |-> <<>>, groups |-> <<>>, policies |-> <<>>]

\* url-test groups become smart groups for the smart core.
GroupType(mode, core) ==
    CASE mode = "auto" -> IF core = "smart" THEN "smart" ELSE "url-test"
      [] mode = "smart" -> "smart"
      [] OTHER -> "select"

MarkTarget(selection, target) ==
    IF target \in DOMAIN selection.policies
    THEN {target} \union (CandidatePolicyExits(selection, target) \cap DOMAIN selection.groups)
    ELSE {target} \cap DOMAIN selection.groups

\* buildLocalClashMetadata: the groups the overlay says that it brings.
Metadata(selection, required) ==
    UNION {MarkTarget(selection, t) : t \in UsedTargets(selection, required)}

\* Groups named by a dns server of the profile, as in `url#group': a rule
\* need not use them, but the fragment has to bring them ...
RequiredTargets(selection, profile) == IF selection = None THEN {} ELSE profile.required

\* ... and the configuration to define them.
ValidDNSReferences(profile, fragment) ==
    profile.required \subseteq DOMAIN fragment.groups \union DOMAIN fragment.policies

\* The fragment's rules, between the fixed ones for local addresses, which
\* go to DIRECT and are left out here, and the one that matches the rest.
OrderedRules(fragment, fallback) ==
    fragment.rules \o <<[id |-> "MATCH", target |-> fallback, ok |-> TRUE]>>

Render(selection, profile, names) ==
    LET fragment == IF selection = None THEN NoFragment
                    ELSE RenderFragment(selection, RequiredTargets(selection, profile), names)
        fallback == IF selection = None THEN "DIRECT" ELSE selection.fallback
    IN IF /\ profile.ok
          /\ names # {}
          /\ fragment.ok
          /\ ValidDNSReferences(profile, fragment)
       THEN [ok |-> TRUE,
             proxies |-> names,
             groups |-> fragment.groups,
             types |-> [g \in DOMAIN fragment.groups |->
                           GroupType(selection.groups[g].mode, profile.core)],
             policies |-> fragment.policies,
             rules |-> OrderedRules(fragment, fallback),
             overlay |-> IF selection = None THEN {}
                         ELSE Metadata(selection, RequiredTargets(selection, profile))]
       ELSE Failed

-----------------------------------------------------------------------------
(* Compilation of the patch registry.  overlays: the enabled patches'      *)
(* configs at their positions in the registry.                             *)

\* Two patches may state the same object, but only in the same way.
NoConflict(overlays) ==
    \A i, j \in DOMAIN overlays :
        /\ \A g \in DOMAIN overlays[i].groups \cap DOMAIN overlays[j].groups :
              overlays[i].groups[g] = overlays[j].groups[g]
        /\ \A p \in DOMAIN overlays[i].policies \cap DOMAIN overlays[j].policies :
              overlays[i].policies[p] = overlays[j].policies[p]
        /\ \A list \in Lists :
              \A a \in ToSet(overlays[i][list]), b \in ToSet(overlays[j][list]) :
                  a.id = b.id => a = b

Union(overlays, field) ==
    [x \in UNION {DOMAIN overlays[i][field] : i \in DOMAIN overlays} |->
        overlays[CHOOSE i \in DOMAIN overlays : x \in DOMAIN overlays[i][field]][field][x]]

\* The places of a list's items, and the item at one.
Places(overlays, list) ==
    UNION {{i} \X DOMAIN overlays[i][list] : i \in DOMAIN overlays}
Item(overlays, list, x) == overlays[x[1]][list][x[2]]
Precedes(x, y) == x[1] < y[1] \/ (x[1] = y[1] /\ x[2] < y[2])

\* The first of the items with one id, in their order.
Concat(overlays, list) ==
    LET first == {x \in Places(overlays, list) :
                     \A y \in Places(overlays, list) :
                         Precedes(y, x) => Item(overlays, list, y).id # Item(overlays, list, x).id}
    IN [k \in 1..Cardinality(first) |->
           Item(overlays, list, CHOOSE x \in first :
                                   Cardinality({y \in first : Precedes(y, x)}) = k - 1)]

Compile(overlays) ==
    IF NoConflict(overlays)
    THEN [ok |-> TRUE,
          config |-> [groups |-> Union(overlays, "groups"),
                      policies |-> Union(overlays, "policies"),
                      transport |-> Concat(overlays, "transport"),
                      custom |-> Concat(overlays, "custom"),
                      localPacks |-> Concat(overlays, "localPacks"),
                      providers |-> Concat(overlays, "providers"),
                      packs |-> Concat(overlays, "packs"),
                      fallback |-> "DIRECT", selected |-> <<>>]]
    ELSE Failed
=============================================================================
