------------------------ MODULE ConfigPipelineProofs ------------------------
(***************************************************************************)
(* What TLAPS proves of ConfigPipeline, for any clients, patches, intents, *)
(* deliveries and profiles, and for any number of calls that run at the    *)
(* same time.  The lemma about Render holds of any selection, whether it   *)
(* was resolved with the nodes at hand or with others.                     *)
(***************************************************************************)
EXTENDS ConfigPipeline, FiniteSetTheorems, TLAPS

(* The lists of a selection are sequences.                                 *)
Listed(chosen) ==
    \A list \in {"transport", "custom", "providers", "packs"} :
        chosen[list] \in Seq(ToSet(chosen[list]))

(* A configuration refers to nothing that it does not define.              *)
Whole(output) == Closed(output) /\ Reaching(output)

(* What a call carries to its next step: what it is going to write is      *)
(* whole, and what it goes on with is of its own kind.                     *)
Carrying(call) ==
    /\ call.pc \in Pcs
    /\ call.pc \in {"write", "commit", "artifacts"} => Whole(call.output)
    /\ call.pc \in {"intent", "resolved", "commit", "artifacts"} => call.config \in Intents
    /\ call.pc \in {"encode", "resolved", "commit", "artifacts"} => Listed(call.selection)
    /\ call.pc = "evaluate" => call.delivery \in Deliveries
    /\ call.pc = "commit" =>
          /\ {"pc", "output", "config", "selection"} \subseteq DOMAIN call
          /\ call.registry \subseteq ToSet(Patches)
    /\ call.pc = "write" =>
          \/ call.then.pc = "idle"
          \/ /\ call.then.pc = "resolved"
             /\ call.then.config \in Intents /\ Listed(call.then.selection)
    /\ call.pc \in {"encode", "rename"} => call.then.pc \in {"idle", "render"}

(* The files hold what was carried.  A selection is there, or about to be, *)
(* only where an intent is.                                                *)
Files ==
    /\ generated # None => Whole(generated)
    /\ intent \in Intents \union {None}
    /\ selection # None => Listed(selection) /\ intent # None
    /\ selectionTmp # None => Listed(selectionTmp)
    /\ \A c \in Clients : calls[c].pc \in {"encode", "rename"} => intent # None

Inv ==
    /\ TypeOK
    /\ Files
    /\ DOMAIN calls = Clients
    /\ \A c \in Clients : Carrying(calls[c])

-----------------------------------------------------------------------------
(* A fragment that was accepted for some nodes has no group without        *)
(* members and no exit that is not there.                                  *)
LEMMA FragmentClosed ==
    ASSUME NEW chosen, NEW required, NEW names,
           RenderFragment(chosen, required, names).ok
    PROVE  LET fragment == RenderFragment(chosen, required, names)
           IN /\ \A g \in DOMAIN fragment.groups :
                    /\ fragment.groups[g] # {}
                    /\ fragment.groups[g] \subseteq names \union {DirectMember}
              /\ \A p \in DOMAIN fragment.policies :
                    /\ fragment.policies[p] # {}
                    /\ fragment.policies[p] \subseteq Terminals \union DOMAIN fragment.groups
  <1> DEFINE fragment == RenderFragment(chosen, required, names)
             used == UsedPolicyGroups(chosen, required)
             present == {g \in UsedProxyGroups(chosen, required) :
                            ~Absent(chosen.groups[g])}
  <1>1. /\ PrepareTargets(chosen, names)
        /\ \A p \in used : CandidatePolicyExits(chosen, p) # {}
        /\ fragment.groups = MaterializedGroups(chosen, required)
        /\ fragment.policies = MaterializedPolicies(chosen, required)
    BY DEF RenderFragment, Failed
  <1>2. /\ fragment.groups = [g \in present |-> MaterializeProxyGroup(chosen.groups[g])]
        /\ fragment.policies = [p \in used |-> CandidatePolicyExits(chosen, p)]
    BY <1>1 DEF MaterializedGroups, MaterializedPolicies
  <1>3. ASSUME NEW g \in present
        PROVE  /\ MaterializeProxyGroup(chosen.groups[g]) # {}
               /\ MaterializeProxyGroup(chosen.groups[g]) \subseteq names \union {DirectMember}
    <2>1. g \in DOMAIN chosen.groups /\ ~Absent(chosen.groups[g])
      BY DEF UsedProxyGroups
    <2>2. /\ NoNodes(chosen.groups[g]) =>
               chosen.groups[g].mode = "direct" \/ chosen.groups[g].optional
          /\ ToSet(chosen.groups[g].nodes) \subseteq names
      BY <1>1, <2>1 DEF PrepareTargets
    <2> QED
      BY <2>1, <2>2 DEF MaterializeProxyGroup, Absent, NoNodes
  <1>4. ASSUME NEW p \in used, NEW exit \in CandidatePolicyExits(chosen, p)
        PROVE  exit \in Terminals \union present
    <2>1. p \in DOMAIN chosen.policies
      BY DEF UsedPolicyGroups
    <2>2. /\ exit \in Terminals \union DOMAIN chosen.groups
          /\ exit \in DOMAIN chosen.groups => ~Absent(chosen.groups[exit])
      BY <1>1, <2>1 DEF PrepareTargets, CandidatePolicyExits
    <2>3. exit \in DOMAIN chosen.groups => exit \in UsedProxyGroups(chosen, required)
      BY DEF UsedProxyGroups
    <2> QED
      BY <2>2, <2>3
  <1> QED
    BY <1>1, <1>2, <1>3, <1>4

(* Whatever is rendered is closed.                                         *)
LEMMA RenderClosed ==
    ASSUME NEW chosen, NEW active, NEW names, Render(chosen, active, names).ok
    PROVE  Closed(Render(chosen, active, names))
  <1> DEFINE output == Render(chosen, active, names)
             required == RequiredTargets(chosen, active)
             fragment == RenderFragment(chosen, required, names)
  <1>1. CASE chosen = None
    <2>1. output.groups = <<>> /\ output.policies = <<>>
      BY <1>1 DEF Render, NoFragment, Failed
    <2> QED
      BY <2>1 DEF Closed
  <1>2. CASE chosen # None
    <2>1. /\ fragment.ok
          /\ output.groups = fragment.groups /\ output.policies = fragment.policies
          /\ output.proxies = names
      BY <1>2 DEF Render, Failed
    <2> QED
      BY <2>1, FragmentClosed DEF Closed
  <1> QED
    BY <1>1, <1>2

-----------------------------------------------------------------------------
(* The lists of configs and of selections are sequences.                   *)

(* A function on an initial part of the numbers is a sequence.             *)
LEMMA Lists1N ==
    ASSUME NEW n \in Nat, NEW s, DOMAIN s = 1..n, s = [k \in 1..n |-> s[k]]
    PROVE  s \in Seq(ToSet(s))
  <1>1. \A k \in 1..n : s[k] \in ToSet(s)
    BY DEF ToSet
  <1> HIDE DEF ToSet
  <1>2. [k \in 1..n |-> s[k]] \in Seq(ToSet(s))
    BY <1>1
  <1> QED
    BY <1>2

(* So is the concatenation of sequences.                                   *)
LEMMA ListConcat ==
    ASSUME NEW s, NEW t, s \in Seq(ToSet(s)), t \in Seq(ToSet(t))
    PROVE  /\ s \o t \in Seq(ToSet(s \o t))
           /\ ToSet(s \o t) = ToSet(s) \union ToSet(t)
  <1> DEFINE both == ToSet(s) \union ToSet(t)
  <1>1. s \in Seq(both) /\ t \in Seq(both)
    OBVIOUS
  <1>2. /\ s \o t \in Seq(both)
        /\ Len(s \o t) = Len(s) + Len(t)
        /\ \A i \in 1..Len(s) : (s \o t)[i] = s[i]
        /\ \A i \in 1..Len(t) : (s \o t)[Len(s) + i] = t[i]
    BY <1>1
  <1>3. DOMAIN (s \o t) = 1..(Len(s) + Len(t))
    BY <1>2
  <1>4. ToSet(s \o t) \subseteq both
    BY <1>2, <1>3 DEF ToSet
  <1>5. ASSUME NEW i \in DOMAIN s PROVE s[i] \in ToSet(s \o t)
    <2>1. i \in DOMAIN (s \o t) /\ (s \o t)[i] = s[i]
      BY <1>1, <1>2, <1>3
    <2> QED
      BY <2>1 DEF ToSet
  <1>6. ASSUME NEW i \in DOMAIN t PROVE t[i] \in ToSet(s \o t)
    <2>1. Len(s) + i \in DOMAIN (s \o t) /\ (s \o t)[Len(s) + i] = t[i]
      BY <1>1, <1>2, <1>3
    <2> QED
      BY <2>1 DEF ToSet
  <1>7. ToSet(s \o t) = both
    BY <1>4, <1>5, <1>6 DEF ToSet
  <1> QED
    BY <1>2, <1>3, <1>7, Lists1N

(* What is compiled of patches has lists.                                  *)
LEMMA ConcatListed ==
    ASSUME NEW overlays, NEW list, IsFiniteSet(DOMAIN overlays),
           \A i \in DOMAIN overlays : overlays[i][list] \in Seq(ToSet(overlays[i][list]))
    PROVE  Concat(overlays, list) \in Seq(ToSet(Concat(overlays, list)))
  <1> DEFINE first == {x \in Places(overlays, list) :
                          \A y \in Places(overlays, list) :
                              Precedes(y, x) => Item(overlays, list, y).id # Item(overlays, list, x).id}
             parts == {{i} \X DOMAIN overlays[i][list] : i \in DOMAIN overlays}
  <1>1. IsFiniteSet(parts)
    <2> DEFINE part == [i \in DOMAIN overlays |-> {i} \X DOMAIN overlays[i][list]]
    <2>1. part \in Surjection(DOMAIN overlays, parts)
      BY DEF Surjection
    <2> QED
      BY <2>1, FS_Surjection
  <1>2. ASSUME NEW part \in parts PROVE IsFiniteSet(part)
    <2>1. PICK i \in DOMAIN overlays : part = {i} \X DOMAIN overlays[i][list]
      OBVIOUS
    <2>2. IsFiniteSet(DOMAIN overlays[i][list])
      BY FS_Interval
    <2> QED
      BY <2>1, <2>2, FS_Singleton, FS_Product
  <1>3. IsFiniteSet(first)
    BY <1>1, <1>2, FS_UNION, FS_Subset DEF Places
  <1>4. Cardinality(first) \in Nat
    BY <1>3, FS_CardinalityType
  <1>5. Concat(overlays, list) =
          [k \in 1..Cardinality(first) |->
              Item(overlays, list, CHOOSE x \in first :
                                      Cardinality({y \in first : Precedes(y, x)}) = k - 1)]
    BY DEF Concat
  <1> HIDE DEF first
  <1>6. /\ DOMAIN Concat(overlays, list) = 1..Cardinality(first)
        /\ Concat(overlays, list) =
              [k \in 1..Cardinality(first) |-> Concat(overlays, list)[k]]
    BY <1>5
  <1> QED
    BY <1>4, <1>6, Lists1N

LEMMA CompileListed ==
    ASSUME NEW patches \in SUBSET ToSet(Patches), CompileRegistry(patches).ok
    PROVE  HasFields(CompileRegistry(patches).config)
  <1> DEFINE overlays == [i \in {j \in DOMAIN Patches : Patches[j] \in patches} |->
                             Overlay[Patches[i]]]
  <1>1. IsFiniteSet(DOMAIN overlays)
    <2>1. DOMAIN Patches = 1..Len(Patches) /\ Len(Patches) \in Nat
      BY IntentsAssumption
    <2>2. IsFiniteSet(DOMAIN Patches)
      BY <2>1, FS_Interval
    <2> QED
      BY <2>2, FS_Subset
  <1>2. ASSUME NEW i \in DOMAIN overlays PROVE HasFields(overlays[i])
    BY IntentsAssumption DEF ToSet
  <1>3. CompileRegistry(patches) = Compile(overlays)
    BY DEF CompileRegistry
  <1> HIDE DEF overlays
  <1>4. ASSUME NEW list \in Lists
        PROVE  Concat(overlays, list) \in Seq(ToSet(Concat(overlays, list)))
    BY <1>1, <1>2, ConcatListed DEF HasFields
  <1>5. Compile(overlays).config =
           [groups |-> Union(overlays, "groups"),
            policies |-> Union(overlays, "policies"),
            transport |-> Concat(overlays, "transport"),
            custom |-> Concat(overlays, "custom"),
            localPacks |-> Concat(overlays, "localPacks"),
            providers |-> Concat(overlays, "providers"),
            packs |-> Concat(overlays, "packs"),
            fallback |-> "DIRECT", selected |-> <<>>]
    BY <1>3 DEF Compile, Failed
  <1> QED
    BY <1>3, <1>4, <1>5 DEF HasFields, Lists

(* What Resolve makes of a config is ResolvedConfig.                       *)
LEMMA ConfigResolved ==
    ASSUME NEW config, NEW nodes, Resolve(config, nodes).ok
    PROVE  /\ Resolve(config, nodes).config = ResolvedConfig(config, nodes)
           /\ Resolve(config, nodes).selection = Selection(config, nodes)
  <1> DEFINE good == [ok |-> TRUE, selection |-> Selection(config, nodes),
                      config |-> ResolvedConfig(config, nodes)]
  <1>1. Resolve(config, nodes) \in {good, Failed} /\ Failed.ok = FALSE
    BY DEF Resolve, Failed
  <1> HIDE DEF good
  <1>2. Resolve(config, nodes) = good
    BY <1>1
  <1> QED
    BY <1>2 DEF good

(* Resolving changes nothing that is resolved: with the same nodes, or with *)
(* others, a resolved config becomes what the one before it would.         *)
LEMMA ResolvedAgain ==
    ASSUME NEW config, HasFields(config), NEW earlier, NEW nodes
    PROVE  LET once == ResolvedConfig(config, earlier)
           IN /\ HasFields(once)
              /\ Resolve(once, nodes).ok <=> Resolve(config, nodes).ok
              /\ Selection(once, nodes) = Selection(config, nodes)
              /\ ResolvedConfig(once, nodes) = ResolvedConfig(config, nodes)
  <1> DEFINE once == ResolvedConfig(config, earlier)
  <1>1. /\ {"fallback", "selected", "groups", "policies"} \union Lists \subseteq DOMAIN config
        /\ once = [config EXCEPT !.fallback = Fallback(config),
                                 !.selected = SelectedNodes(config, earlier)]
    BY DEF HasFields, ResolvedConfig
  <1> HIDE DEF once
  <1>2. /\ DOMAIN once = DOMAIN config
        /\ once.groups = config.groups /\ once.policies = config.policies
        /\ \A list \in Lists : once[list] = config[list]
        /\ once.fallback = Fallback(config)
    BY <1>1 DEF Lists
  <1>3. /\ once.transport = config.transport /\ once.custom = config.custom
        /\ once.localPacks = config.localPacks /\ once.providers = config.providers
        /\ once.packs = config.packs
    BY <1>2 DEF Lists
  <1>4. Fallback(once) = Fallback(config)
    BY <1>2 DEF Fallback
  <1>5. SelectedNodes(once, nodes) = SelectedNodes(config, nodes)
    BY <1>2 DEF SelectedNodes
  <1>6. LocalRules(once) = LocalRules(config)
    BY <1>3 DEF LocalRules
  <1>7. CustomRules(once) = CustomRules(config)
    BY <1>3, <1>6 DEF CustomRules
  <1>8. Selection(once, nodes) = Selection(config, nodes)
    BY <1>2, <1>3, <1>4, <1>5, <1>7 DEF Selection
  <1>9. ResolvedConfig(once, nodes) = ResolvedConfig(config, nodes)
    BY <1>1, <1>4, <1>5 DEF ResolvedConfig
  <1>10. \A target : Known(target, once) <=> Known(target, config)
    BY <1>2 DEF Known
  <1>11. \A rules : ResolveRules(rules, once) <=> ResolveRules(rules, config)
    BY <1>10 DEF ResolveRules
  <1>12. ResolvePolicies(once) <=> ResolvePolicies(config)
    BY <1>2 DEF ResolvePolicies
  <1>13. /\ ResolveTransportRules(once) <=> ResolveTransportRules(config)
         /\ ResolveCustomRules(once) <=> ResolveCustomRules(config)
         /\ ResolveRuleProviders(once) <=> ResolveRuleProviders(config)
    BY <1>3, <1>11 DEF ResolveTransportRules, ResolveCustomRules, ResolveRuleProviders
  <1>14. ResolveEnabledRulePacks(once) <=> ResolveEnabledRulePacks(config)
    BY <1>3, <1>10 DEF ResolveEnabledRulePacks
  <1> DEFINE Accepted(x) ==
               /\ nodes # <<>>
               /\ \A g \in DOMAIN x.groups : ResolveProxyGroup(x.groups[g], nodes).ok
               /\ ResolvePolicies(x)
               /\ Known(Fallback(x), x)
               /\ ResolveTransportRules(x)
               /\ ResolveRules(x.packs, x)
               /\ ResolveCustomRules(x)
               /\ ResolveEnabledRulePacks(x)
               /\ ResolveRuleProviders(x)
  <1>15. Accepted(once) <=> Accepted(config)
    BY <1>2, <1>3, <1>4, <1>10, <1>11, <1>12, <1>13, <1>14
  <1>16. \A x : Resolve(x, nodes).ok <=> Accepted(x)
    BY DEF Resolve, Failed
  <1>17. HasFields(once)
    BY <1>2 DEF HasFields
  <1> HIDE DEF Accepted
  <1>18. Resolve(once, nodes).ok <=> Resolve(config, nodes).ok
    BY <1>15, <1>16
  <1> QED
    BY <1>8, <1>9, <1>17, <1>18 DEF once

(* Every intent has its fields, and one that is resolved is an intent.     *)
LEMMA WrittenListed ==
    ASSUME NEW config \in Written
    PROVE  HasFields(config)
  BY CompileListed, IntentsAssumption DEF Written

LEMMA IntentsListed ==
    ASSUME NEW config \in Intents
    PROVE  HasFields(config)
  <1>1. ASSUME NEW written \in Written, NEW nodes, config = ResolvedConfig(written, nodes)
        PROVE  HasFields(config)
    BY <1>1, WrittenListed, ResolvedAgain
  <1>2. config \in Written \/ \E x \in Written \X Deliveries :
                                  config = ResolvedConfig(x[1], Nodes(x[2]))
    BY DEF Intents, Resolvable
  <1> QED
    BY <1>1, <1>2, WrittenListed

LEMMA ResolvedIntent ==
    ASSUME NEW config \in Intents, NEW delivery \in Deliveries,
           Resolve(config, Nodes(delivery)).ok
    PROVE  Resolve(config, Nodes(delivery)).config \in Intents
  <1> DEFINE nodes == Nodes(delivery)
  <1>1. Resolve(config, nodes).config = ResolvedConfig(config, nodes)
    BY ConfigResolved
  <1>2. ASSUME NEW written \in Written, Resolve(written, nodes).ok
        PROVE  ResolvedConfig(written, nodes) \in Intents
    <2>1. <<written, delivery>> \in Resolvable
      BY <1>2 DEF Resolvable
    <2> QED
      BY <2>1 DEF Intents
  <1> HIDE DEF nodes
  <1>3. CASE config \in Written
    BY <1>1, <1>2, <1>3 DEF nodes
  <1>4. CASE config \notin Written
    <2>1. PICK x \in Written \X Deliveries : config = ResolvedConfig(x[1], Nodes(x[2]))
      BY <1>4 DEF Intents, Resolvable
    <2>2. HasFields(x[1])
      BY WrittenListed
    <2>3. /\ Resolve(x[1], nodes).ok
          /\ ResolvedConfig(config, nodes) = ResolvedConfig(x[1], nodes)
      BY <2>1, <2>2, ResolvedAgain DEF nodes
    <2> QED
      BY <1>1, <1>2, <2>3 DEF nodes
  <1> QED
    BY <1>3, <1>4

LEMMA SelectionListed ==
    ASSUME NEW config, NEW nodes, HasFields(config), Resolve(config, nodes).ok
    PROVE  Listed(Resolve(config, nodes).selection)
  <1> DEFINE chosen == Resolve(config, nodes).selection
  <1>1. chosen = Selection(config, nodes)
    BY DEF Resolve, Failed
  <1>2. /\ chosen.transport = config.transport /\ chosen.custom = CustomRules(config)
        /\ chosen.providers = config.providers /\ chosen.packs = config.packs
    BY <1>1 DEF Selection
  <1>3. LocalRules(config) \in Seq(ToSet(LocalRules(config)))
    <2>1. config.localPacks \in Seq(ToSet(config.localPacks))
      BY DEF HasFields, Lists
    <2>2. DOMAIN config.localPacks = 1..Len(config.localPacks) /\ Len(config.localPacks) \in Nat
      BY <2>1
    <2> QED
      BY <2>2, Lists1N DEF LocalRules
  <1>4. CustomRules(config) \in Seq(ToSet(CustomRules(config)))
    BY <1>3, ListConcat DEF CustomRules, HasFields, Lists
  <1> HIDE DEF chosen
  <1> QED
    BY <1>2, <1>4 DEF HasFields, Lists, Listed, chosen

(* Rules of a fragment that was accepted go to groups it brings, or to an  *)
(* optional group that the metadata names.                                 *)
LEMMA FragmentReaches ==
    ASSUME NEW chosen, NEW required, NEW names, Listed(chosen),
           RenderFragment(chosen, required, names).ok,
           required \subseteq DOMAIN RenderFragment(chosen, required, names).groups \union
                               DOMAIN RenderFragment(chosen, required, names).policies
    PROVE  LET fragment == RenderFragment(chosen, required, names)
               there == Terminals \union DOMAIN fragment.groups \union DOMAIN fragment.policies
           IN /\ fragment.rules \in Seq(ToSet(fragment.rules))
              /\ \A g \in Metadata(chosen, required) :
                    g \in there \/ g \in {r.target : r \in ToSet(fragment.rules)}
              /\ \A r \in ToSet(fragment.rules) :
                    r.target \in there \union Metadata(chosen, required)
  <1> DEFINE fragment == RenderFragment(chosen, required, names)
             used == UsedTargets(chosen, required)
             there == Terminals \union DOMAIN fragment.groups \union DOMAIN fragment.policies
  <1>1. /\ used \subseteq Terminals \union DOMAIN chosen.groups \union DOMAIN chosen.policies
        /\ PrepareTargets(chosen, names)
        /\ fragment.rules = RulesOf(chosen)
        /\ fragment.groups = MaterializedGroups(chosen, required)
        /\ fragment.policies = MaterializedPolicies(chosen, required)
    BY DEF RenderFragment, Failed
  <1>2. /\ DOMAIN fragment.policies = used \cap DOMAIN chosen.policies
        /\ DOMAIN fragment.groups =
              {g \in UsedProxyGroups(chosen, required) : ~Absent(chosen.groups[g])}
    BY <1>1 DEF MaterializedGroups, MaterializedPolicies, UsedPolicyGroups
  <1>3. fragment.rules \in Seq(ToSet(fragment.rules))
    <2> DEFINE both == chosen.transport \o chosen.custom
               three == both \o chosen.providers
    <2>1. both \in Seq(ToSet(both))
      BY ListConcat DEF Listed
    <2> HIDE DEF both
    <2>2. three \in Seq(ToSet(three))
      BY <2>1, ListConcat DEF Listed
    <2> HIDE DEF three
    <2>3. three \o chosen.packs \in Seq(ToSet(three \o chosen.packs))
      BY <2>2, ListConcat DEF Listed
    <2> QED
      BY <1>1, <2>3 DEF RulesOf, both, three
  <1>4. used = required \union {r.target : r \in ToSet(fragment.rules)}
    BY <1>1 DEF UsedTargets
  <1>5. ASSUME NEW t \in used, t \notin there
        PROVE  t \in DOMAIN chosen.groups /\ t \notin DOMAIN chosen.policies
    BY <1>1, <1>2, <1>5
  <1>6. ASSUME NEW t \in used, t \notin there PROVE t \in Metadata(chosen, required)
    <2>1. t \in MarkTarget(chosen, t)
      BY <1>5, <1>6 DEF MarkTarget
    <2> QED
      BY <2>1 DEF Metadata
  <1>7. ASSUME NEW g \in Metadata(chosen, required), g \notin there
        PROVE  g \in {r.target : r \in ToSet(fragment.rules)}
    <2>1. PICK t \in used : g \in MarkTarget(chosen, t)
      BY DEF Metadata
    <2>2. CASE t \in DOMAIN chosen.policies
      <3>1. g # t
        BY <1>2, <1>7, <2>2
      <3>2. g \in CandidatePolicyExits(chosen, t) /\ g \in DOMAIN chosen.groups
        BY <2>1, <2>2, <3>1 DEF MarkTarget
      <3>3. ~Absent(chosen.groups[g])
        BY <3>2 DEF CandidatePolicyExits
      <3>4. g \in UsedProxyGroups(chosen, required)
        BY <2>1, <2>2, <3>2 DEF UsedProxyGroups, UsedPolicyGroups
      <3> QED
        BY <1>2, <1>7, <3>3, <3>4
    <2>3. CASE t \notin DOMAIN chosen.policies
      <3>1. g = t
        BY <2>1, <2>3 DEF MarkTarget
      <3>2. g \notin required
        BY <1>7
      <3> QED
        BY <1>4, <3>1, <3>2
    <2> QED
      BY <2>2, <2>3
  <1>8. ASSUME NEW r \in ToSet(fragment.rules)
        PROVE  r.target \in there \union Metadata(chosen, required)
    <2>1. r.target \in used
      BY <1>4
    <2> HIDE DEF used, there
    <2> QED
      BY <1>6, <2>1
  <1> QED
    BY <1>3, <1>7, <1>8

(* The same of what is rendered, with the rule that matches the rest.      *)
LEMMA RenderReaches ==
    ASSUME NEW chosen, NEW active, NEW names,
           chosen # None => Listed(chosen), Render(chosen, active, names).ok
    PROVE  Reaching(Render(chosen, active, names))
  <1> DEFINE output == Render(chosen, active, names)
             required == RequiredTargets(chosen, active)
             fragment == IF chosen = None THEN NoFragment
                         ELSE RenderFragment(chosen, required, names)
             fallback == IF chosen = None THEN "DIRECT" ELSE chosen.fallback
             match == [id |-> "MATCH", target |-> fallback, ok |-> TRUE]
             there == Terminals \union DOMAIN fragment.groups \union DOMAIN fragment.policies
  <1>1. /\ fragment.ok /\ active.required \subseteq DOMAIN fragment.groups \union DOMAIN fragment.policies
        /\ output.groups = fragment.groups /\ output.policies = fragment.policies
        /\ output.rules = fragment.rules \o <<match>>
        /\ output.overlay = IF chosen = None THEN {} ELSE Metadata(chosen, required)
    BY DEF Render, Failed, ValidDNSReferences, OrderedRules
  <1>2. /\ fragment.rules \in Seq(ToSet(fragment.rules))
        /\ \A g \in output.overlay : g \in there \/ g \in {r.target : r \in ToSet(fragment.rules)}
        /\ \A r \in ToSet(fragment.rules) : r.target \in there \union output.overlay
    <2>1. CASE chosen = None
      <3>1. fragment.rules = <<>> /\ output.overlay = {}
        BY <1>1, <2>1 DEF NoFragment
      <3> HIDE DEF fragment, output
      <3>2. ToSet(fragment.rules) = {}
        BY <3>1 DEF ToSet
      <3>3. fragment.rules \in Seq(ToSet(fragment.rules))
        BY <3>1
      <3> QED
        BY <3>1, <3>2, <3>3
    <2>2. CASE chosen # None
      <3>1. required \subseteq active.required
        BY DEF RequiredTargets
      <3> QED
        BY <1>1, <2>2, <3>1, FragmentReaches
    <2> QED
      BY <2>1, <2>2
  <1> HIDE DEF output, fragment, match
  <1>3. /\ output.rules \in Seq(ToSet(output.rules))
        /\ ToSet(output.rules) = ToSet(fragment.rules) \union ToSet(<<match>>)
    <2>1. <<match>> \in Seq(ToSet(<<match>>))
      BY DEF ToSet
    <2>2. /\ fragment.rules \o <<match>> \in Seq(ToSet(fragment.rules \o <<match>>))
          /\ ToSet(fragment.rules \o <<match>>) = ToSet(fragment.rules) \union ToSet(<<match>>)
      BY <1>2, <2>1, ListConcat
    <2> QED
      BY <1>1, <2>2
  <1>4. ASSUME NEW i \in DOMAIN output.rules, i # Len(output.rules)
        PROVE  output.rules[i] \in ToSet(fragment.rules)
    <2> DEFINE all == ToSet(fragment.rules) \union {match}
    <2>1. fragment.rules \in Seq(all) /\ <<match>> \in Seq(all)
      BY <1>2
    <2>2. /\ Len(output.rules) = Len(fragment.rules) + 1
          /\ DOMAIN output.rules = 1..(Len(fragment.rules) + 1)
          /\ i \in 1..Len(fragment.rules) => output.rules[i] = fragment.rules[i]
      BY <1>1, <2>1
    <2>3. i \in DOMAIN fragment.rules /\ output.rules[i] = fragment.rules[i]
      BY <1>4, <2>1, <2>2
    <2> QED
      BY <2>3 DEF ToSet
  <1>5. \A g : Defined(output, g) <=> g \in there
    BY <1>1 DEF Defined
  <1> HIDE DEF there
  <1>6. \A g \in output.overlay : Defined(output, g) \/ g \in {r.target : r \in ToSet(output.rules)}
    BY <1>2, <1>3, <1>5
  <1>7. ASSUME NEW i \in DOMAIN output.rules, i # Len(output.rules),
               ~Defined(output, output.rules[i].target)
        PROVE  output.rules[i].target \in output.overlay
    BY <1>2, <1>4, <1>5, <1>7
  <1> QED
    BY <1>6, <1>7 DEF Reaching, output

-----------------------------------------------------------------------------
(* What the three of them give, as the actions use it.                     *)
LEMMA Compiled ==
    ASSUME NEW patches \in SUBSET ToSet(Patches), CompileRegistry(patches).ok
    PROVE  CompileRegistry(patches).config \in Intents
  BY DEF Intents, Written

LEMMA Resolved ==
    ASSUME NEW config \in Intents, NEW delivery \in Deliveries,
           Resolve(config, Nodes(delivery)).ok
    PROVE  /\ Resolve(config, Nodes(delivery)).config \in Intents
           /\ Listed(Resolve(config, Nodes(delivery)).selection)
  BY ResolvedIntent, IntentsListed, SelectionListed

LEMMA Rendered ==
    ASSUME NEW chosen, NEW active, NEW names,
           chosen # None => Listed(chosen), Render(chosen, active, names).ok
    PROVE  Whole(Render(chosen, active, names))
  BY RenderClosed, RenderReaches DEF Whole

(* No call has begun in an initial state.                                  *)
LEMMA InitKeeps == Init => Inv
  <1> SUFFICES ASSUME Init PROVE Inv
    OBVIOUS
  <1>1. TypeOK
    <2>1. \A c \in Clients : calls[c].pc = "idle"
      BY DEF Init, Idle
    <2>2. /\ registry \subseteq ToSet(Patches) /\ newer \subseteq Sources
          /\ artifacts \in Deliveries /\ profile \in [mode : DOMAIN Builtin, core : Cores]
      BY DEF Init
    <2>3. started = 0 /\ overlapped = FALSE /\ raced = FALSE
      BY DEF Init
    <2>4. applyMu = None
      BY DEF Init
    <2>5. started \in 0..MaxCalls
      BY <2>3, PipelineAssumption
    <2>6. {overlapped, raced} \subseteq BOOLEAN
      BY <2>3
    <2>7. \A c \in Clients : calls[c].pc \in Pcs
      BY <2>1 DEF Pcs
    <2>8. \A c \in Clients : calls[c].pc \in {"commit", "artifacts"} <=> applyMu = c
      BY <2>1, <2>4, PipelineAssumption
    <2> QED
      BY <2>2, <2>4, <2>5, <2>6, <2>7, <2>8 DEF TypeOK
  <1>2. Files
    <2>1. intent \in Intents \union {None}
      BY DEF Init, Intents, Written
    <2> QED
      BY <2>1 DEF Init, Files, Idle
  <1>3. DOMAIN calls = Clients /\ \A c \in Clients : Carrying(calls[c])
    BY DEF Init, Carrying, Idle, Pcs
  <1> QED
    BY <1>1, <1>2, <1>3 DEF Inv

(* One call moves on, with all that a call has to carry, and the others    *)
(* stay: the lock still belongs to the call that is inside an apply.       *)
LEMMA CallMoves ==
    ASSUME Inv, NEW c \in Clients, NEW call, Carrying(call),
           calls' = [calls EXCEPT ![c] = call],
           \/ /\ applyMu' = applyMu
              /\ call.pc \in {"commit", "artifacts"} <=> calls[c].pc \in {"commit", "artifacts"}
           \/ applyMu = None /\ applyMu' = c /\ call.pc = "commit"
           \/ applyMu = c /\ applyMu' = None /\ call.pc = "idle"
    PROVE  /\ DOMAIN calls' = Clients
           /\ \A d \in Clients : Carrying(calls'[d])
           /\ applyMu' \in Clients \union {None}
           /\ \A d \in Clients : calls'[d].pc \in Pcs
           /\ \A d \in Clients : calls'[d].pc \in {"commit", "artifacts"} <=> applyMu' = d
  <1>1. DOMAIN calls' = Clients /\ calls'[c] = call
    BY DEF Inv
  <1>2. \A d \in Clients \ {c} : calls'[d] = calls[d]
    BY DEF Inv
  <1>3. \A d \in Clients : Carrying(calls'[d])
    BY <1>1, <1>2 DEF Inv
  <1>4. \A d \in Clients : calls'[d].pc \in Pcs
    BY <1>3 DEF Carrying
  <1>5. /\ applyMu \in Clients \union {None}
        /\ \A d \in Clients : calls[d].pc \in {"commit", "artifacts"} <=> applyMu = d
    BY DEF Inv, TypeOK
  <1>6. applyMu' \in Clients \union {None}
    BY <1>5
  <1>7. \A d \in Clients : calls'[d].pc \in {"commit", "artifacts"} <=> applyMu' = d
    <2> SUFFICES ASSUME NEW d \in Clients
                 PROVE  calls'[d].pc \in {"commit", "artifacts"} <=> applyMu' = d
      OBVIOUS
    <2>1. CASE d = c
      BY <2>1, <1>1, <1>5, PipelineAssumption
    <2>2. CASE d # c
      BY <2>2, <1>2, <1>5, PipelineAssumption
    <2> QED
      BY <2>1, <2>2
  <1> QED
    BY <1>1, <1>3, <1>4, <1>6, <1>7

(* The compiled config waits to be written.                                *)
LEMMA RenderCompileKeeps ==
    ASSUME Inv, NEW c \in Clients, RenderCompile(c) PROVE Inv'
  <1>0. TypeOK /\ Files /\ DOMAIN calls = Clients /\ Carrying(calls[c])
    BY DEF Inv
  <1>1. \E call : /\ calls' = [calls EXCEPT ![c] = call]
                  /\ Carrying(call)
                  /\ applyMu' = applyMu
                  /\ call.pc \in {"commit", "artifacts"} <=> calls[c].pc \in {"commit", "artifacts"}
    <2> DEFINE call == [pc |-> "intent", config |-> CompileRegistry(registry).config]
    <2>1. CASE CompileRegistry(registry).ok
      <3>1. calls' = [calls EXCEPT ![c] = call] /\ applyMu' = applyMu
        BY <2>1 DEF RenderCompile, Goto, inputVars, fileVars
      <3>2. Carrying(call)
        BY <1>0, <2>1, Compiled DEF Carrying, Pcs, TypeOK
      <3>3. {call.pc, calls[c].pc} \cap {"commit", "artifacts"} = {}
        BY DEF RenderCompile, At
      <3> HIDE DEF call
      <3> QED
        BY <3>1, <3>2, <3>3
    <2>2. CASE ~(CompileRegistry(registry).ok)
      <3>1. calls' = [calls EXCEPT ![c] = Idle] /\ applyMu' = applyMu
        BY <2>2 DEF RenderCompile, Goto, Return, inputVars, fileVars
      <3>2. Carrying(Idle)
        BY DEF Carrying, Idle, Pcs
      <3>3. {Idle.pc, calls[c].pc} \cap {"commit", "artifacts"} = {}
        BY DEF RenderCompile, At, Idle
      <3> QED
        BY <3>1, <3>2, <3>3
    <2> QED
      BY <2>1, <2>2
  <1>2. /\ DOMAIN calls' = Clients
        /\ \A d \in Clients : Carrying(calls'[d])
        /\ applyMu' \in Clients \union {None}
        /\ \A d \in Clients : calls'[d].pc \in Pcs
        /\ \A d \in Clients : calls'[d].pc \in {"commit", "artifacts"} <=> applyMu' = d
    BY <1>1, CallMoves
  <1>3. /\ registry' \subseteq ToSet(Patches)
        /\ artifacts' \in Deliveries /\ profile' \in [mode : DOMAIN Builtin, core : Cores]
        /\ newer' \subseteq Sources
        /\ started' \in 0..MaxCalls /\ {overlapped', raced'} \subseteq BOOLEAN
    BY <1>0, PipelineAssumption DEF RenderCompile, At, Goto, Return, Idle,
           fileVars, inputVars, TypeOK, Sources, Carrying
  <1>4. Files'
    BY <1>0 DEF RenderCompile, At, Goto, Return, Idle, fileVars, inputVars,
                Files, Carrying
  <1> QED
    BY <1>2, <1>3, <1>4 DEF Inv, TypeOK

(* A render writes the intent.                                             *)
LEMMA RenderWriteIntentKeeps ==
    ASSUME Inv, NEW c \in Clients, RenderWriteIntent(c) PROVE Inv'
  <1>0. TypeOK /\ Files /\ DOMAIN calls = Clients /\ Carrying(calls[c])
    BY DEF Inv
  <1> DEFINE call == [pc |-> "resolve"]
  <1>1. calls' = [calls EXCEPT ![c] = call]
    BY DEF RenderWriteIntent, At, Goto, WriteSource
  <1>2. Carrying(call)
    BY <1>0 DEF RenderWriteIntent, At, Goto, WriteSource, Carrying, Pcs
  <1>3. /\ applyMu' = applyMu
        /\ call.pc \in {"commit", "artifacts"} <=> calls[c].pc \in {"commit", "artifacts"}
    BY <1>0 DEF RenderWriteIntent, At, Goto, WriteSource, TypeOK
  <1> HIDE DEF call
  <1>4. /\ DOMAIN calls' = Clients
        /\ \A d \in Clients : Carrying(calls'[d])
        /\ applyMu' \in Clients \union {None}
        /\ \A d \in Clients : calls'[d].pc \in Pcs
        /\ \A d \in Clients : calls'[d].pc \in {"commit", "artifacts"} <=> applyMu' = d
    BY <1>1, <1>2, <1>3, CallMoves
  <1>5. /\ registry' \subseteq ToSet(Patches)
        /\ artifacts' \in Deliveries /\ profile' \in [mode : DOMAIN Builtin, core : Cores]
        /\ newer' \subseteq Sources
        /\ started' \in 0..MaxCalls /\ {overlapped', raced'} \subseteq BOOLEAN
    BY <1>0, PipelineAssumption DEF RenderWriteIntent, At, Goto, WriteSource,
           inputVars, TypeOK, Sources, Carrying
  <1>6. Files'
    BY <1>0, IntentsAssumption DEF RenderWriteIntent, At, Goto, WriteSource, Files, Carrying
  <1> QED
    BY <1>4, <1>5, <1>6 DEF Inv, TypeOK

(* A render resolves the intent.                                           *)
LEMMA RenderResolveKeeps ==
    ASSUME Inv, NEW c \in Clients, RenderResolve(c) PROVE Inv'
  <1>0. TypeOK /\ Files /\ DOMAIN calls = Clients /\ Carrying(calls[c])
    BY DEF Inv
  <1>1. \E call : /\ calls' = [calls EXCEPT ![c] = call]
                  /\ Carrying(call)
                  /\ applyMu' = applyMu
                  /\ call.pc \in {"commit", "artifacts"} <=> calls[c].pc \in {"commit", "artifacts"}
    <2> DEFINE resolved == Resolve(intent, Nodes(artifacts))
               begun == [pc |-> "encode", selection |-> resolved.selection,
                         then |-> [pc |-> "render", use |-> TRUE]]
               bare == [pc |-> "render", use |-> FALSE]
    <2>1. \E call \in {begun, bare, Idle} :
             /\ calls' = [calls EXCEPT ![c] = call] /\ applyMu' = applyMu
             /\ call = begun => intent # None /\ resolved.ok
      <3>1. begun # bare /\ begun # Idle
        <4>1. begun.pc = "encode" /\ bare.pc = "render" /\ Idle.pc = "idle"
          BY DEF Idle
        <4> QED
          BY <4>1
      <3> HIDE DEF begun, bare
      <3> QED
        BY <3>1 DEF RenderResolve, Goto, Return, inputVars, fileVars, begun, bare
    <2>2. PICK call \in {begun, bare, Idle} :
             /\ calls' = [calls EXCEPT ![c] = call] /\ applyMu' = applyMu
             /\ call = begun => intent # None /\ resolved.ok
      BY <2>1
    <2>3. Carrying(call)
      <3>1. CASE call = begun
        <4>1. Listed(resolved.selection)
          BY <1>0, <2>2, <3>1, Resolved DEF Files, TypeOK
        <4> HIDE DEF resolved
        <4> QED
          BY <3>1, <4>1 DEF Carrying, Pcs
      <3>2. CASE call \in {bare, Idle}
        BY <3>2 DEF Carrying, Pcs, Idle
      <3> QED
        BY <2>2, <3>1, <3>2
    <2>4. call.pc \notin {"commit", "artifacts"}
      BY <2>2 DEF Idle
    <2> QED
      BY <1>0, <2>2, <2>3, <2>4 DEF RenderResolve, At
  <1>2. /\ DOMAIN calls' = Clients
        /\ \A d \in Clients : Carrying(calls'[d])
        /\ applyMu' \in Clients \union {None}
        /\ \A d \in Clients : calls'[d].pc \in Pcs
        /\ \A d \in Clients : calls'[d].pc \in {"commit", "artifacts"} <=> applyMu' = d
    BY <1>1, CallMoves
  <1>3. /\ registry' \subseteq ToSet(Patches)
        /\ artifacts' \in Deliveries /\ profile' \in [mode : DOMAIN Builtin, core : Cores]
        /\ newer' \subseteq Sources
        /\ started' \in 0..MaxCalls /\ {overlapped', raced'} \subseteq BOOLEAN
    BY <1>0, PipelineAssumption DEF RenderResolve, At, Goto, Return, Idle,
           fileVars, inputVars, TypeOK, Sources, Carrying
  <1>4. Files'
    BY <1>0 DEF RenderResolve, At, Goto, Return, Idle, fileVars, inputVars,
                Files, Carrying
  <1> QED
    BY <1>2, <1>3, <1>4 DEF Inv, TypeOK

(* A selection goes to its temporary file.                                 *)
LEMMA EncodeSelectionKeeps ==
    ASSUME Inv, NEW c \in Clients, EncodeSelection(c) PROVE Inv'
  <1>0. TypeOK /\ Files /\ DOMAIN calls = Clients /\ Carrying(calls[c])
    BY DEF Inv
  <1> DEFINE call == [pc |-> "rename", then |-> calls[c].then]
  <1>1. calls' = [calls EXCEPT ![c] = call]
    BY DEF EncodeSelection, At, Goto
  <1>2. Carrying(call)
    BY <1>0 DEF EncodeSelection, At, Goto, Carrying, Pcs
  <1>3. /\ applyMu' = applyMu
        /\ call.pc \in {"commit", "artifacts"} <=> calls[c].pc \in {"commit", "artifacts"}
    BY <1>0 DEF EncodeSelection, At, Goto, TypeOK
  <1> HIDE DEF call
  <1>4. /\ DOMAIN calls' = Clients
        /\ \A d \in Clients : Carrying(calls'[d])
        /\ applyMu' \in Clients \union {None}
        /\ \A d \in Clients : calls'[d].pc \in Pcs
        /\ \A d \in Clients : calls'[d].pc \in {"commit", "artifacts"} <=> applyMu' = d
    BY <1>1, <1>2, <1>3, CallMoves
  <1>5. /\ registry' \subseteq ToSet(Patches)
        /\ artifacts' \in Deliveries /\ profile' \in [mode : DOMAIN Builtin, core : Cores]
        /\ newer' \subseteq Sources
        /\ started' \in 0..MaxCalls /\ {overlapped', raced'} \subseteq BOOLEAN
    BY <1>0, PipelineAssumption DEF EncodeSelection, At, Goto, inputVars,
           TypeOK, Sources, Carrying
  <1>6. Files'
    BY <1>0 DEF EncodeSelection, At, Goto, Files, Carrying
  <1> QED
    BY <1>4, <1>5, <1>6 DEF Inv, TypeOK

(* The temporary file becomes the selection, or the call fails.            *)
LEMMA RenameSelectionKeeps ==
    ASSUME Inv, NEW c \in Clients, RenameSelection(c) PROVE Inv'
  <1>0. TypeOK /\ Files /\ DOMAIN calls = Clients /\ Carrying(calls[c])
    BY DEF Inv
  <1>1. \E call : /\ calls' = [calls EXCEPT ![c] = call]
                  /\ Carrying(call)
                  /\ applyMu' = applyMu
                  /\ call.pc \in {"commit", "artifacts"} <=> calls[c].pc \in {"commit", "artifacts"}
    BY <1>0 DEF RenameSelection, At, Goto, Return, Idle, WriteSource, TypeOK,
                Carrying, Pcs
  <1>2. /\ DOMAIN calls' = Clients
        /\ \A d \in Clients : Carrying(calls'[d])
        /\ applyMu' \in Clients \union {None}
        /\ \A d \in Clients : calls'[d].pc \in Pcs
        /\ \A d \in Clients : calls'[d].pc \in {"commit", "artifacts"} <=> applyMu' = d
    BY <1>1, CallMoves
  <1>3. /\ registry' \subseteq ToSet(Patches)
        /\ artifacts' \in Deliveries /\ profile' \in [mode : DOMAIN Builtin, core : Cores]
        /\ newer' \subseteq Sources
        /\ started' \in 0..MaxCalls /\ {overlapped', raced'} \subseteq BOOLEAN
    BY <1>0, PipelineAssumption DEF RenameSelection, At, Goto, Return, Idle,
           WriteSource, inputVars, TypeOK, Sources, Carrying
  <1>4. Files'
    BY <1>0 DEF RenameSelection, At, Goto, Return, Idle, WriteSource,
                Files, Carrying
  <1> QED
    BY <1>2, <1>3, <1>4 DEF Inv, TypeOK

(* A configuration waits to be written: it is closed.                      *)
LEMMA RenderConfigKeeps ==
    ASSUME Inv, NEW c \in Clients, RenderConfig(c) PROVE Inv'
  <1>0. TypeOK /\ Files /\ DOMAIN calls = Clients /\ Carrying(calls[c])
    BY DEF Inv
  <1>1. \E call : /\ calls' = [calls EXCEPT ![c] = call]
                  /\ Carrying(call)
                  /\ applyMu' = applyMu
                  /\ call.pc \in {"commit", "artifacts"} <=> calls[c].pc \in {"commit", "artifacts"}
    <2> DEFINE used == IF calls[c].use THEN selection ELSE None
               output == Render(used, Profile, NamesOf(merged))
    <2> DEFINE call == [pc |-> "write", output |-> output, then |-> Idle]
    <2>1. CASE output.ok
      <3>1. calls' = [calls EXCEPT ![c] = call] /\ applyMu' = applyMu
        BY <2>1 DEF RenderConfig, Goto, inputVars, fileVars
      <3>2. Carrying(call)
        <4>1. Whole(output)
          BY <1>0, <2>1, Rendered DEF Files
        <4> HIDE DEF output
        <4> QED
          BY <4>1 DEF Carrying, Pcs, Idle
      <3>3. {call.pc, calls[c].pc} \cap {"commit", "artifacts"} = {}
        BY DEF RenderConfig, At
      <3> HIDE DEF call
      <3> QED
        BY <3>1, <3>2, <3>3
    <2>2. CASE ~(output.ok)
      <3>1. calls' = [calls EXCEPT ![c] = Idle] /\ applyMu' = applyMu
        BY <2>2 DEF RenderConfig, Goto, Return, inputVars, fileVars
      <3>2. Carrying(Idle)
        BY DEF Carrying, Idle, Pcs
      <3>3. {Idle.pc, calls[c].pc} \cap {"commit", "artifacts"} = {}
        BY DEF RenderConfig, At, Idle
      <3> QED
        BY <3>1, <3>2, <3>3
    <2> QED
      BY <2>1, <2>2
  <1>2. /\ DOMAIN calls' = Clients
        /\ \A d \in Clients : Carrying(calls'[d])
        /\ applyMu' \in Clients \union {None}
        /\ \A d \in Clients : calls'[d].pc \in Pcs
        /\ \A d \in Clients : calls'[d].pc \in {"commit", "artifacts"} <=> applyMu' = d
    BY <1>1, CallMoves
  <1>3. /\ registry' \subseteq ToSet(Patches)
        /\ artifacts' \in Deliveries /\ profile' \in [mode : DOMAIN Builtin, core : Cores]
        /\ newer' \subseteq Sources
        /\ started' \in 0..MaxCalls /\ {overlapped', raced'} \subseteq BOOLEAN
    BY <1>0, PipelineAssumption DEF RenderConfig, At, Goto, Return, Idle,
           fileVars, inputVars, TypeOK, Sources, Carrying
  <1>4. Files'
    BY <1>0 DEF RenderConfig, At, Goto, Return, Idle, fileVars, inputVars,
                Files, Carrying
  <1> QED
    BY <1>2, <1>3, <1>4 DEF Inv, TypeOK

(* A closed configuration is written.                                      *)
LEMMA WriteConfigKeeps ==
    ASSUME Inv, NEW c \in Clients, WriteConfig(c) PROVE Inv'
  <1>0. TypeOK /\ Files /\ DOMAIN calls = Clients /\ Carrying(calls[c])
    BY DEF Inv
  <1>1. \E call : /\ calls' = [calls EXCEPT ![c] = call]
                  /\ Carrying(call)
                  /\ applyMu' = applyMu
                  /\ call.pc \in {"commit", "artifacts"} <=> calls[c].pc \in {"commit", "artifacts"}
    BY <1>0 DEF WriteConfig, At, Goto, WriteGenerated, TypeOK, Carrying, Pcs
  <1>2. /\ DOMAIN calls' = Clients
        /\ \A d \in Clients : Carrying(calls'[d])
        /\ applyMu' \in Clients \union {None}
        /\ \A d \in Clients : calls'[d].pc \in Pcs
        /\ \A d \in Clients : calls'[d].pc \in {"commit", "artifacts"} <=> applyMu' = d
    BY <1>1, CallMoves
  <1>3. /\ registry' \subseteq ToSet(Patches)
        /\ artifacts' \in Deliveries /\ profile' \in [mode : DOMAIN Builtin, core : Cores]
        /\ newer' \subseteq Sources
        /\ started' \in 0..MaxCalls /\ {overlapped', raced'} \subseteq BOOLEAN
    BY <1>0, PipelineAssumption DEF WriteConfig, At, Goto, WriteGenerated,
           inputVars, TypeOK, Sources, Carrying
  <1>4. Files'
    BY <1>0 DEF WriteConfig, At, Goto, WriteGenerated, Files, Carrying
  <1> QED
    BY <1>2, <1>3, <1>4 DEF Inv, TypeOK

(* A refresh renders from memory.                                          *)
LEMMA EvaluateRefreshKeeps ==
    ASSUME Inv, NEW c \in Clients, EvaluateRefresh(c) PROVE Inv'
  <1>0. TypeOK /\ Files /\ DOMAIN calls = Clients /\ Carrying(calls[c])
    BY DEF Inv
  <1>1. \E call : /\ calls' = [calls EXCEPT ![c] = call]
                  /\ Carrying(call)
                  /\ applyMu' = applyMu
                  /\ call.pc \in {"commit", "artifacts"} <=> calls[c].pc \in {"commit", "artifacts"}
    <2> DEFINE nodes == Nodes(calls[c].delivery)
               resolved == Resolve(intent, nodes)
               output == Render(resolved.selection, Profile, NamesOf(nodes))
    <2> DEFINE call == [pc |-> "write", output |-> output,
                        then |-> [pc |-> "resolved", config |-> resolved.config,
                                  selection |-> resolved.selection]]
    <2>1. CASE intent # None /\ resolved.ok /\ output.ok
      <3>1. calls' = [calls EXCEPT ![c] = call] /\ applyMu' = applyMu
        BY <2>1 DEF EvaluateRefresh, Goto, inputVars, fileVars
      <3>2. Carrying(call)
        <4>0. calls[c].delivery \in Deliveries
          BY <1>0 DEF Carrying, EvaluateRefresh, At
        <4>1. resolved.config \in Intents /\ Listed(resolved.selection)
          BY <1>0, <2>1, <4>0, Resolved DEF Files
        <4>2. Whole(output)
          BY <2>1, <4>1, Rendered
        <4> HIDE DEF output, resolved
        <4> QED
          BY <4>1, <4>2 DEF Carrying, Pcs
      <3>3. {call.pc, calls[c].pc} \cap {"commit", "artifacts"} = {}
        BY DEF EvaluateRefresh, At
      <3> HIDE DEF call
      <3> QED
        BY <3>1, <3>2, <3>3
    <2>2. CASE ~(intent # None /\ resolved.ok /\ output.ok)
      <3>1. calls' = [calls EXCEPT ![c] = Idle] /\ applyMu' = applyMu
        BY <2>2 DEF EvaluateRefresh, Goto, Return, inputVars, fileVars
      <3>2. Carrying(Idle)
        BY DEF Carrying, Idle, Pcs
      <3>3. {Idle.pc, calls[c].pc} \cap {"commit", "artifacts"} = {}
        BY DEF EvaluateRefresh, At, Idle
      <3> QED
        BY <3>1, <3>2, <3>3
    <2> QED
      BY <2>1, <2>2
  <1>2. /\ DOMAIN calls' = Clients
        /\ \A d \in Clients : Carrying(calls'[d])
        /\ applyMu' \in Clients \union {None}
        /\ \A d \in Clients : calls'[d].pc \in Pcs
        /\ \A d \in Clients : calls'[d].pc \in {"commit", "artifacts"} <=> applyMu' = d
    BY <1>1, CallMoves
  <1>3. /\ registry' \subseteq ToSet(Patches)
        /\ artifacts' \in Deliveries /\ profile' \in [mode : DOMAIN Builtin, core : Cores]
        /\ newer' \subseteq Sources
        /\ started' \in 0..MaxCalls /\ {overlapped', raced'} \subseteq BOOLEAN
    BY <1>0, PipelineAssumption DEF EvaluateRefresh, At, Goto, Return, Idle,
           fileVars, inputVars, TypeOK, Sources, Carrying
  <1>4. Files'
    BY <1>0 DEF EvaluateRefresh, At, Goto, Return, Idle, fileVars, inputVars,
                Files, Carrying
  <1> QED
    BY <1>2, <1>3, <1>4 DEF Inv, TypeOK

(* A refresh writes the resolved config over the intent.                   *)
LEMMA EvaluateWriteIntentKeeps ==
    ASSUME Inv, NEW c \in Clients, EvaluateWriteIntent(c) PROVE Inv'
  <1>0. TypeOK /\ Files /\ DOMAIN calls = Clients /\ Carrying(calls[c])
    BY DEF Inv
  <1> DEFINE call == [pc |-> "encode", selection |-> calls[c].selection, then |-> Idle]
  <1>1. calls' = [calls EXCEPT ![c] = call]
    BY DEF EvaluateWriteIntent, At, Goto, WriteSource, Idle
  <1>2. Carrying(call)
    BY <1>0 DEF EvaluateWriteIntent, At, Goto, WriteSource, Idle, Carrying, Pcs
  <1>3. /\ applyMu' = applyMu
        /\ call.pc \in {"commit", "artifacts"} <=> calls[c].pc \in {"commit", "artifacts"}
    BY <1>0 DEF EvaluateWriteIntent, At, Goto, WriteSource, Idle, TypeOK
  <1> HIDE DEF call
  <1>4. /\ DOMAIN calls' = Clients
        /\ \A d \in Clients : Carrying(calls'[d])
        /\ applyMu' \in Clients \union {None}
        /\ \A d \in Clients : calls'[d].pc \in Pcs
        /\ \A d \in Clients : calls'[d].pc \in {"commit", "artifacts"} <=> applyMu' = d
    BY <1>1, <1>2, <1>3, CallMoves
  <1>5. /\ registry' \subseteq ToSet(Patches)
        /\ artifacts' \in Deliveries /\ profile' \in [mode : DOMAIN Builtin, core : Cores]
        /\ newer' \subseteq Sources
        /\ started' \in 0..MaxCalls /\ {overlapped', raced'} \subseteq BOOLEAN
    BY <1>0, PipelineAssumption DEF EvaluateWriteIntent, At, Goto, WriteSource,
           Idle, inputVars, TypeOK, Sources, Carrying
  <1>6. Files'
    BY <1>0, IntentsAssumption DEF EvaluateWriteIntent, At, Goto, WriteSource, Idle,
                Files, Carrying
  <1> QED
    BY <1>4, <1>5, <1>6 DEF Inv, TypeOK

(* A render begins.                                                        *)
LEMMA RenderBeginKeeps ==
    ASSUME Inv, NEW c \in Clients, RenderBegin(c) PROVE Inv'
  <1>0. TypeOK /\ Files /\ DOMAIN calls = Clients /\ Carrying(calls[c])
    BY DEF Inv
  <1> DEFINE call == [pc |-> IF registry # {} THEN "compile" ELSE "resolve"]
  <1>1. calls' = [calls EXCEPT ![c] = call]
    BY DEF RenderBegin, Start, At, fileVars, inputVars
  <1>2. Carrying(call)
    BY <1>0 DEF RenderBegin, Start, At, fileVars, inputVars, Carrying, Pcs
  <1>3. /\ applyMu' = applyMu
        /\ call.pc \in {"commit", "artifacts"} <=> calls[c].pc \in {"commit", "artifacts"}
    BY <1>0 DEF RenderBegin, Start, At, fileVars, inputVars, TypeOK
  <1> HIDE DEF call
  <1>4. /\ DOMAIN calls' = Clients
        /\ \A d \in Clients : Carrying(calls'[d])
        /\ applyMu' \in Clients \union {None}
        /\ \A d \in Clients : calls'[d].pc \in Pcs
        /\ \A d \in Clients : calls'[d].pc \in {"commit", "artifacts"} <=> applyMu' = d
    BY <1>1, <1>2, <1>3, CallMoves
  <1>5. /\ registry' \subseteq ToSet(Patches)
        /\ artifacts' \in Deliveries /\ profile' \in [mode : DOMAIN Builtin, core : Cores]
        /\ newer' \subseteq Sources
        /\ started' \in 0..MaxCalls /\ {overlapped', raced'} \subseteq BOOLEAN
    BY <1>0, PipelineAssumption DEF RenderBegin, Start, At, fileVars,
           inputVars, TypeOK, Sources, Carrying
  <1>6. Files'
    BY <1>0 DEF RenderBegin, Start, At, fileVars, inputVars, Files,
                Carrying
  <1> QED
    BY <1>4, <1>5, <1>6 DEF Inv, TypeOK

(* A refresh has downloaded.                                               *)
LEMMA RefreshKeeps ==
    ASSUME Inv, NEW c \in Clients, Refresh(c) PROVE Inv'
  <1>0. TypeOK /\ Files /\ DOMAIN calls = Clients /\ Carrying(calls[c])
    BY DEF Inv
  <1>1. \E call : /\ calls' = [calls EXCEPT ![c] = call]
                  /\ Carrying(call)
                  /\ applyMu' = applyMu
                  /\ call.pc \in {"commit", "artifacts"} <=> calls[c].pc \in {"commit", "artifacts"}
    BY <1>0 DEF Refresh, Start, At, Idle, WriteSource, TypeOK, Carrying, Pcs
  <1>2. /\ DOMAIN calls' = Clients
        /\ \A d \in Clients : Carrying(calls'[d])
        /\ applyMu' \in Clients \union {None}
        /\ \A d \in Clients : calls'[d].pc \in Pcs
        /\ \A d \in Clients : calls'[d].pc \in {"commit", "artifacts"} <=> applyMu' = d
    BY <1>1, CallMoves
  <1>3. /\ registry' \subseteq ToSet(Patches)
        /\ artifacts' \in Deliveries /\ profile' \in [mode : DOMAIN Builtin, core : Cores]
        /\ newer' \subseteq Sources
        /\ started' \in 0..MaxCalls /\ {overlapped', raced'} \subseteq BOOLEAN
    <2>1. /\ registry' = registry /\ artifacts' \in Deliveries /\ profile' = profile
          /\ newer' \subseteq newer \union {"merged"}
      BY DEF Refresh, WriteSource
    <2>2. PICK call : Start(c, call)
      BY DEF Refresh
    <2> QED
      BY <1>0, <2>1, <2>2, PipelineAssumption DEF Start, TypeOK, Sources
  <1>4. Files'
    BY <1>0 DEF Refresh, Start, At, Idle, WriteSource, Files, Carrying
  <1> QED
    BY <1>2, <1>3, <1>4 DEF Inv, TypeOK

(* The profile is set.                                                     *)
LEMMA ConfigureKeeps ==
    ASSUME Inv, NEW c \in Clients, Configure(c) PROVE Inv'
  <1>0. TypeOK /\ Files /\ DOMAIN calls = Clients /\ Carrying(calls[c])
    BY DEF Inv
  <1>1. \E call : /\ calls' = [calls EXCEPT ![c] = call]
                  /\ Carrying(call)
                  /\ applyMu' = applyMu
                  /\ call.pc \in {"commit", "artifacts"} <=> calls[c].pc \in {"commit", "artifacts"}
    BY <1>0 DEF Configure, Start, At, Idle, WriteSource, TypeOK, Carrying, Pcs
  <1>2. /\ DOMAIN calls' = Clients
        /\ \A d \in Clients : Carrying(calls'[d])
        /\ applyMu' \in Clients \union {None}
        /\ \A d \in Clients : calls'[d].pc \in Pcs
        /\ \A d \in Clients : calls'[d].pc \in {"commit", "artifacts"} <=> applyMu' = d
    BY <1>1, CallMoves
  <1>3. /\ registry' \subseteq ToSet(Patches)
        /\ artifacts' \in Deliveries /\ profile' \in [mode : DOMAIN Builtin, core : Cores]
        /\ newer' \subseteq Sources
        /\ started' \in 0..MaxCalls /\ {overlapped', raced'} \subseteq BOOLEAN
    BY <1>0, PipelineAssumption DEF Configure, Start, At, Idle, WriteSource,
           inputVars, TypeOK, Sources, Carrying
  <1>4. Files'
    BY <1>0 DEF Configure, Start, At, Idle, WriteSource, Files, Carrying
  <1> QED
    BY <1>2, <1>3, <1>4 DEF Inv, TypeOK

(* An apply takes the lock and carries a closed configuration, or fails.   *)
LEMMA ApplyBuildKeeps ==
    ASSUME Inv, NEW c \in Clients, ApplyBuild(c) PROVE Inv'
  <1>0. TypeOK /\ Files /\ DOMAIN calls = Clients /\ Carrying(calls[c])
    BY DEF Inv
  <1>1. PICK p \in ToSet(Patches) : ApplyBuild(c)!(p)
    BY DEF ApplyBuild
  <1> DEFINE pending == IF p \in registry THEN registry \ {p} ELSE registry \union {p}
             compiled == CompileRegistry(pending)
             resolved == Resolve(compiled.config, Nodes(artifacts))
             rendered == Render(resolved.selection, Profile, NamesOf(merged))
             begun == [pc |-> "commit", registry |-> pending, config |-> resolved.config,
                       output |-> rendered, selection |-> resolved.selection]
  <1>2. /\ applyMu = None
        /\ UNCHANGED <<fileVars, inputVars>>
        /\ \/ /\ compiled.ok /\ resolved.ok /\ rendered.ok
              /\ applyMu' = c /\ Start(c, begun)
           \/ applyMu' = applyMu /\ Start(c, Idle)
    BY <1>1
  <1>3. Carrying(Idle) /\ Idle.pc = "idle"
    BY DEF Carrying, Idle, Pcs
  <1>4. ASSUME compiled.ok, resolved.ok, rendered.ok PROVE Carrying(begun)
    <2>1. pending \subseteq ToSet(Patches)
      BY <1>0 DEF TypeOK
    <2>2. compiled.config \in Intents
      BY <1>4, <2>1, Compiled
    <2>3. resolved.config \in Intents /\ Listed(resolved.selection)
      BY <1>0, <1>4, <2>2, Resolved DEF TypeOK
    <2>4. Whole(rendered)
      BY <1>4, <2>3, Rendered
    <2>5. /\ begun.pc = "commit" /\ begun.output = rendered /\ begun.registry = pending
          /\ begun.config = resolved.config /\ begun.selection = resolved.selection
          /\ {"pc", "output", "config", "selection"} \subseteq DOMAIN begun
      OBVIOUS
    <2> HIDE DEF begun, rendered, resolved, compiled, pending
    <2> QED
      BY <2>1, <2>2, <2>3, <2>4, <2>5 DEF Carrying, Pcs
  <1>5. begun.pc = "commit"
    OBVIOUS
  <1> HIDE DEF begun, rendered, resolved, compiled
  <1>6. \E call : /\ Start(c, call)
                  /\ Carrying(call)
                  /\ \/ applyMu' = applyMu /\ call.pc = "idle"
                     \/ applyMu = None /\ applyMu' = c /\ call.pc = "commit"
    BY <1>2, <1>3, <1>4, <1>5
  <1>7. PICK call : /\ Start(c, call)
                    /\ Carrying(call)
                    /\ \/ applyMu' = applyMu /\ call.pc = "idle"
                       \/ applyMu = None /\ applyMu' = c /\ call.pc = "commit"
    BY <1>6
  <1>8. /\ DOMAIN calls' = Clients
        /\ \A d \in Clients : Carrying(calls'[d])
        /\ applyMu' \in Clients \union {None}
        /\ \A d \in Clients : calls'[d].pc \in Pcs
        /\ \A d \in Clients : calls'[d].pc \in {"commit", "artifacts"} <=> applyMu' = d
    <2>1. calls' = [calls EXCEPT ![c] = call] /\ calls[c].pc = "idle"
      BY <1>7 DEF Start, At
    <2> QED
      BY <1>7, <2>1, CallMoves
  <1>9. /\ registry' \subseteq ToSet(Patches)
        /\ artifacts' \in Deliveries /\ profile' \in [mode : DOMAIN Builtin, core : Cores]
        /\ newer' \subseteq Sources
        /\ started' \in 0..MaxCalls /\ {overlapped', raced'} \subseteq BOOLEAN
    BY <1>0, <1>2, <1>7, PipelineAssumption DEF Start, fileVars, inputVars, TypeOK
  <1>10. Files'
    <2>1. /\ UNCHANGED <<generated, intent, selection, selectionTmp>>
          /\ calls' = [calls EXCEPT ![c] = call] /\ call.pc \notin {"encode", "rename"}
      BY <1>2, <1>7 DEF fileVars, Start
    <2> QED
      BY <1>0, <2>1 DEF Files
  <1> QED
    BY <1>8, <1>9, <1>10 DEF Inv, TypeOK

(* An apply has replaced the patches.                                      *)
LEMMA ApplyCommitPatchesKeeps ==
    ASSUME Inv, NEW c \in Clients, ApplyCommitPatches(c) PROVE Inv'
  <1>0. TypeOK /\ Files /\ DOMAIN calls = Clients /\ Carrying(calls[c])
    BY DEF Inv
  <1> DEFINE call == [calls[c] EXCEPT !.pc = "artifacts"]
  <1>1. calls' = [calls EXCEPT ![c] = call]
    BY DEF ApplyCommitPatches, At, Goto
  <1>2. Carrying(call)
    BY <1>0 DEF ApplyCommitPatches, At, Goto, Carrying, Pcs
  <1>3. /\ applyMu' = applyMu
        /\ call.pc \in {"commit", "artifacts"} <=> calls[c].pc \in {"commit", "artifacts"}
    BY <1>0 DEF ApplyCommitPatches, At, Goto, TypeOK
  <1> HIDE DEF call
  <1>4. /\ DOMAIN calls' = Clients
        /\ \A d \in Clients : Carrying(calls'[d])
        /\ applyMu' \in Clients \union {None}
        /\ \A d \in Clients : calls'[d].pc \in Pcs
        /\ \A d \in Clients : calls'[d].pc \in {"commit", "artifacts"} <=> applyMu' = d
    BY <1>1, <1>2, <1>3, CallMoves
  <1>5. /\ registry' \subseteq ToSet(Patches)
        /\ artifacts' \in Deliveries /\ profile' \in [mode : DOMAIN Builtin, core : Cores]
        /\ newer' \subseteq Sources
        /\ started' \in 0..MaxCalls /\ {overlapped', raced'} \subseteq BOOLEAN
    BY <1>0, PipelineAssumption DEF ApplyCommitPatches, At, Goto, inputVars,
           TypeOK, Sources, Carrying
  <1>6. Files'
    BY <1>0 DEF ApplyCommitPatches, At, Goto, Files, Carrying
  <1> QED
    BY <1>4, <1>5, <1>6 DEF Inv, TypeOK

(* An apply has replaced the other files and gives the lock back.          *)
LEMMA ApplyCommitArtifactsKeeps ==
    ASSUME Inv, NEW c \in Clients, ApplyCommitArtifacts(c) PROVE Inv'
  <1>0. TypeOK /\ Files /\ DOMAIN calls = Clients /\ Carrying(calls[c])
    BY DEF Inv
  <1> DEFINE call == Idle
  <1>1. calls' = [calls EXCEPT ![c] = call]
    BY DEF ApplyCommitArtifacts, At, Goto, Return, Idle, WriteGenerated
  <1>2. Carrying(call)
    BY <1>0 DEF ApplyCommitArtifacts, At, Goto, Return, Idle, WriteGenerated,
                Carrying, Pcs
  <1>3. /\ applyMu = c /\ applyMu' = None /\ call.pc = "idle"
    BY <1>0 DEF ApplyCommitArtifacts, At, Goto, Return, Idle, WriteGenerated, TypeOK
  <1> HIDE DEF call
  <1>4. /\ DOMAIN calls' = Clients
        /\ \A d \in Clients : Carrying(calls'[d])
        /\ applyMu' \in Clients \union {None}
        /\ \A d \in Clients : calls'[d].pc \in Pcs
        /\ \A d \in Clients : calls'[d].pc \in {"commit", "artifacts"} <=> applyMu' = d
    BY <1>1, <1>2, <1>3, CallMoves
  <1>5. /\ registry' \subseteq ToSet(Patches)
        /\ artifacts' \in Deliveries /\ profile' \in [mode : DOMAIN Builtin, core : Cores]
        /\ newer' \subseteq Sources
        /\ started' \in 0..MaxCalls /\ {overlapped', raced'} \subseteq BOOLEAN
    BY <1>0, PipelineAssumption DEF ApplyCommitArtifacts, At, Goto, Return,
           Idle, WriteGenerated, inputVars, TypeOK, Sources, Carrying
  <1>6. Files'
    BY <1>0, IntentsAssumption DEF ApplyCommitArtifacts, At, Goto, Return, Idle, WriteGenerated,
                Files, Carrying
  <1> QED
    BY <1>4, <1>5, <1>6 DEF Inv, TypeOK

(* Nothing changes when no call moves.                                     *)
LEMMA StutterKeeps == ASSUME Inv, UNCHANGED vars PROVE Inv'
  BY DEF Inv, vars, fileVars, inputVars, TypeOK, Files, RenderNeeded

(* Inv is inductive.                                                       *)
LEMMA NextKeeps == Inv /\ [Next]_vars => Inv'
  <1> SUFFICES ASSUME Inv, [Next]_vars PROVE Inv'
    OBVIOUS
  <1>1. ASSUME NEW c \in Clients, Step(c) PROVE Inv'
    BY <1>1, RenderBeginKeeps, RenderCompileKeeps, RenderWriteIntentKeeps,
       RenderResolveKeeps, EncodeSelectionKeeps, RenameSelectionKeeps,
       RenderConfigKeeps, WriteConfigKeeps, RefreshKeeps, EvaluateRefreshKeeps,
       EvaluateWriteIntentKeeps, ApplyBuildKeeps, ApplyCommitPatchesKeeps,
       ApplyCommitArtifactsKeeps, ConfigureKeeps DEF Step
  <1> QED
    BY <1>1, StutterKeeps DEF Next

(* The invariant holds in every state that is reached.                     *)
THEOREM Invariance == Spec => []Inv
  BY InitKeeps, NextKeeps, PTL DEF Spec

(* Types, and one apply at a time: whatever runs beside it, the call in    *)
(* configpatch.Apply is the one that holds applyMu.                        *)
THEOREM TypeInvariant == Spec => []TypeOK
  <1>1. Inv => TypeOK
    BY DEF Inv
  <1> QED
    BY <1>1, Invariance, PTL

(* No configuration that is written, by a render, a refresh or an apply,   *)
(* refers to a group, an exit or a node that it does not define, in its    *)
(* groups, its rules or its metadata.                                      *)
THEOREM References == Spec => []ReferencesDefined
  <1>1. Inv => ReferencesDefined
    BY DEF Inv, Files, Whole, ReferencesDefined, MembersDefined, RulesReachGroups
  <1> QED
    BY <1>1, Invariance, PTL
-----------------------------------------------------------------------------
(* What a call that runs alone knows of the files it has read and written. *)

FromRegistry ==
    registry # {} =>
        /\ CompileRegistry(registry).ok
        /\ intent = CompileRegistry(registry).config

Resolves(config, chosen) ==
    /\ Resolve(config, Nodes(artifacts)).ok
    /\ chosen = Resolve(config, Nodes(artifacts)).selection

Rendering == Render(selection, Profile, NamesOf(merged))

(* A render, from the registry over the intent and the selection to the    *)
(* configuration that it is going to write.                                *)
RenderFits(call) ==
    /\ call.pc = "compile" => registry # {}
    /\ call.pc = "intent" =>
          CompileRegistry(registry).ok /\ call.config = CompileRegistry(registry).config
    /\ call.pc \in {"resolve", "render"} => FromRegistry
    /\ call.pc = "encode" /\ call.then.pc = "render" =>
          FromRegistry /\ call.then.use /\ Resolves(intent, call.selection)
    /\ call.pc = "rename" /\ call.then.pc = "render" =>
          FromRegistry /\ call.then.use /\ Resolves(intent, selectionTmp)
    /\ call.pc = "render" =>
          IF call.use THEN intent # None /\ Resolves(intent, selection) ELSE intent = None
    /\ call.pc = "write" /\ call.then.pc = "idle" =>
          /\ FromRegistry
          /\ intent # None => Resolves(intent, selection)
          /\ call.output = Rendering

(* An apply.                                                               *)
ApplyFits(call) ==
    call.pc \in {"commit", "artifacts"} =>
        /\ Resolves(call.config, call.selection)
        /\ call.output = Render(call.selection, Profile, NamesOf(merged))

Alone ==
    /\ overlapped => raced
    /\ ~overlapped => \A c, d \in Active : c = d

(* While no calls ran beside one another, a configuration without a newer  *)
(* source is what the selection renders to, and the selection what the     *)
(* intent resolved to, except between the two writes of a refresh.         *)
Current ==
    /\ generated = Rendering
    /\ intent # None => \E delivery \in Deliveries :
          LET resolved == Resolve(intent, Nodes(delivery))
          IN resolved.ok /\ selection = resolved.selection

Lasting ==
    (/\ ~raced /\ newer = {} /\ generated # None
     /\ \A c \in Clients : calls[c].pc # "resolved") => Current

Story ==
    /\ Inv
    /\ Alone
    /\ ~overlapped => \A c \in Clients : RenderFits(calls[c]) /\ ApplyFits(calls[c])
    /\ Lasting

LEMMA InitStory == Init => Story
  <1> SUFFICES ASSUME Init PROVE Story
    OBVIOUS
  <1>1. \A c \in Clients : calls[c].pc = "idle"
    BY DEF Init, Idle
  <1>2. Alone
    BY <1>1 DEF Init, Alone, Active
  <1>3. \A c \in Clients : RenderFits(calls[c]) /\ ApplyFits(calls[c])
    BY <1>1 DEF RenderFits, ApplyFits
  <1>4. Lasting
    BY DEF Init, Lasting
  <1> QED
    BY InitKeeps, <1>2, <1>3, <1>4 DEF Story

(* When one call moves, the others matter only if they ran beside it.      *)
Moves(c) ==
    /\ \A d \in Clients \ {c} : calls'[d] = calls[d]
    /\ \/ UNCHANGED <<overlapped, raced>> /\ calls[c].pc # "idle"
       \/ overlapped' = (Active # {}) /\ raced' = (raced \/ Active # {})

LEMMA StoryMoves ==
    ASSUME Story, Inv', NEW c \in Clients, Moves(c),
           ~overlapped' => RenderFits(calls[c])' /\ ApplyFits(calls[c])',
           Lasting'
    PROVE  Story'
  <1>1. ASSUME ~overlapped', NEW d \in Clients \ {c} PROVE calls'[d].pc = "idle"
    <2>1. CASE UNCHANGED <<overlapped, raced>> /\ calls[c].pc # "idle"
      <3>1. \A b, e \in Active : b = e
        BY <1>1, <2>1 DEF Story, Alone
      <3> QED
        BY <2>1, <3>1 DEF Active, Moves
    <2>2. CASE overlapped' = (Active # {})
      BY <1>1, <2>2 DEF Active, Moves
    <2> QED
      BY <2>1, <2>2 DEF Moves
  <1>2. Alone'
    <2>1. overlapped' => raced'
      <3>1. CASE UNCHANGED <<overlapped, raced>>
        BY <3>1 DEF Story, Alone
      <3>2. CASE overlapped' = (Active # {}) /\ raced' = (raced \/ Active # {})
        BY <3>2
      <3> QED
        BY <3>1, <3>2 DEF Moves
    <2>2. ASSUME ~overlapped', NEW b \in Active', NEW e \in Active' PROVE b = e
      BY <1>1, <2>2 DEF Active
    <2> QED
      BY <2>1, <2>2 DEF Alone
  <1>3. ASSUME ~overlapped', NEW d \in Clients
        PROVE  RenderFits(calls[d])' /\ ApplyFits(calls[d])'
    <2>1. CASE d = c
      BY <1>3, <2>1
    <2>2. CASE d # c
      BY <1>1, <1>3, <2>2 DEF RenderFits, ApplyFits
    <2> QED
      BY <2>1, <2>2
  <1> QED
    BY <1>2, <1>3 DEF Story

(* A call that leaves the files that Current is about leaves it to hold.   *)
LEMMA LastingStays ==
    ASSUME Story, NEW c \in Clients, calls[c].pc # "resolved", Moves(c),
           UNCHANGED <<generated, selection, intent, newer, merged, profile, userProfile>>
    PROVE  Lasting'
  <1>1. raced => raced'
    BY DEF Moves
  <1>2. (\A d \in Clients : calls'[d].pc # "resolved") => \A d \in Clients : calls[d].pc # "resolved"
    BY DEF Moves
  <1>3. Current => Current'
    BY DEF Current, Rendering, Profile
  <1> QED
    BY <1>1, <1>2, <1>3 DEF Story, Lasting

(* The call that steps knows what it read, if it runs alone.               *)
LEMMA Knows ==
    ASSUME Story, NEW c \in Clients, ~overlapped
    PROVE  RenderFits(calls[c]) /\ ApplyFits(calls[c])
  BY DEF Story
(* A render begins.                                                        *)
LEMMA RenderBeginStory ==
    ASSUME Story, Inv', NEW c \in Clients, RenderBegin(c) PROVE Story'
  <1>0. DOMAIN calls = Clients
    BY DEF Story, Inv
  <1>1. Moves(c)
    BY <1>0 DEF RenderBegin, Start, At, Moves, Active
  <1>2. calls'[c] = [pc |-> IF registry # {} THEN "compile" ELSE "resolve"]
    BY <1>0 DEF RenderBegin, Start
  <1>3. Lasting'
    BY <1>1, LastingStays DEF RenderBegin, At, Start, Idle, fileVars, inputVars
  <1>4. ~overlapped' => RenderFits(calls[c])' /\ ApplyFits(calls[c])'
    BY <1>2 DEF RenderBegin, fileVars, RenderFits, ApplyFits, FromRegistry
  <1> QED
    BY <1>1, <1>3, <1>4, StoryMoves

(* The registry is compiled.                                               *)
LEMMA RenderCompileStory ==
    ASSUME Story, Inv', NEW c \in Clients, RenderCompile(c) PROVE Story'
  <1>0. DOMAIN calls = Clients
    BY DEF Story, Inv
  <1>1. Moves(c)
    BY <1>0 DEF RenderCompile, Goto, At, Moves, Active, Return
  <1>2. \/ calls'[c] = Idle
        \/ /\ CompileRegistry(registry).ok
           /\ calls'[c] = [pc |-> "intent", config |-> CompileRegistry(registry).config]
    BY <1>0 DEF RenderCompile, Goto, Return
  <1>3. Lasting'
    BY <1>1, LastingStays DEF RenderCompile, At, Start, Idle, fileVars, inputVars
  <1>4. ~overlapped' => RenderFits(calls[c])' /\ ApplyFits(calls[c])'
    BY <1>2 DEF RenderCompile, Idle, fileVars, RenderFits, ApplyFits
  <1> QED
    BY <1>1, <1>3, <1>4, StoryMoves

(* The intent is the registry's.                                           *)
LEMMA RenderWriteIntentStory ==
    ASSUME Story, Inv', NEW c \in Clients, RenderWriteIntent(c) PROVE Story'
  <1>0. DOMAIN calls = Clients
    BY DEF Story, Inv
  <1>1. Moves(c)
    BY <1>0 DEF RenderWriteIntent, Goto, At, Moves, Active
  <1>2. calls'[c] = [pc |-> "resolve"]
    BY <1>0 DEF RenderWriteIntent, Goto
  <1>3. Lasting'
    BY DEF RenderWriteIntent, WriteSource, Lasting
  <1>4. ~overlapped' => RenderFits(calls[c])' /\ ApplyFits(calls[c])'
    BY <1>1, <1>2, Knows DEF RenderWriteIntent, At, Goto, RenderFits, ApplyFits, FromRegistry
  <1> QED
    BY <1>1, <1>3, <1>4, StoryMoves

(* The selection is what the intent resolves to.                           *)
LEMMA RenderResolveStory ==
    ASSUME Story, Inv', NEW c \in Clients, RenderResolve(c) PROVE Story'
  <1>0. DOMAIN calls = Clients
    BY DEF Story, Inv
  <1>1. Moves(c)
    BY <1>0 DEF RenderResolve, Goto, At, Moves, Active, Return
  <1>2. \/ calls'[c] = Idle
        \/ intent = None /\ calls'[c] = [pc |-> "render", use |-> FALSE]
        \/ /\ intent # None /\ Resolve(intent, Nodes(artifacts)).ok
           /\ calls'[c] = [pc |-> "encode",
                           selection |-> Resolve(intent, Nodes(artifacts)).selection,
                           then |-> [pc |-> "render", use |-> TRUE]]
    BY <1>0 DEF RenderResolve, Goto, Return
  <1>3. Lasting'
    BY <1>1, LastingStays DEF RenderResolve, At, Start, Idle, fileVars, inputVars
  <1>4. ~overlapped' => RenderFits(calls[c])' /\ ApplyFits(calls[c])'
    BY <1>2, Knows DEF RenderResolve, At, Goto, Return, Idle, fileVars, inputVars,
                       RenderFits, ApplyFits, FromRegistry, Resolves
  <1> QED
    BY <1>1, <1>3, <1>4, StoryMoves

(* A selection goes to its temporary file.                                 *)
LEMMA EncodeSelectionStory ==
    ASSUME Story, Inv', NEW c \in Clients, EncodeSelection(c) PROVE Story'
  <1>0. DOMAIN calls = Clients
    BY DEF Story, Inv
  <1>1. Moves(c)
    BY <1>0 DEF EncodeSelection, Goto, At, Moves, Active
  <1>2. calls'[c] = [pc |-> "rename", then |-> calls[c].then]
    BY <1>0 DEF EncodeSelection, Goto
  <1>3. Lasting'
    BY <1>1, LastingStays DEF EncodeSelection, At, Start, Idle, fileVars, inputVars
  <1>4. ~overlapped' => RenderFits(calls[c])' /\ ApplyFits(calls[c])'
    BY <1>2, Knows DEF EncodeSelection, At, Goto, inputVars,
                       RenderFits, ApplyFits, FromRegistry, Resolves
  <1> QED
    BY <1>1, <1>3, <1>4, StoryMoves

(* The temporary file becomes the selection.                               *)
LEMMA RenameSelectionStory ==
    ASSUME Story, Inv', NEW c \in Clients, RenameSelection(c) PROVE Story'
  <1>0. DOMAIN calls = Clients
    BY DEF Story, Inv
  <1>1. Moves(c)
    BY <1>0 DEF RenameSelection, Goto, At, Moves, Active, Return
  <1>2. \/ selectionTmp = None /\ calls'[c] = Idle /\ UNCHANGED <<selection, newer>>
        \/ /\ selection' = selectionTmp /\ newer' # {}
           /\ calls'[c] = calls[c].then
    BY <1>0 DEF RenameSelection, Goto, Return, WriteSource
  <1>3. Lasting'
    <2>1. CASE newer' # {}
      BY <2>1 DEF Lasting
    <2>2. CASE UNCHANGED <<selection, newer>>
      BY <1>1, <2>2, LastingStays DEF RenameSelection, At, inputVars
    <2> QED
      BY <1>2, <2>1, <2>2
  <1>4. ~overlapped' => RenderFits(calls[c])' /\ ApplyFits(calls[c])'
    <2>1. calls[c].then.pc \in {"idle", "render"} /\ intent # None
      BY DEF Story, Inv, Carrying, Files, RenameSelection, At
    <2> QED
      BY <1>2, <2>1, Knows DEF RenameSelection, At, Goto, Return, Idle, inputVars,
                               RenderFits, ApplyFits, FromRegistry, Resolves
  <1> QED
    BY <1>1, <1>3, <1>4, StoryMoves

(* The selection is rendered.                                              *)
LEMMA RenderConfigStory ==
    ASSUME Story, Inv', NEW c \in Clients, RenderConfig(c) PROVE Story'
  <1>0. DOMAIN calls = Clients
    BY DEF Story, Inv
  <1>1. Moves(c)
    BY <1>0 DEF RenderConfig, Goto, At, Moves, Active, Return
  <1> DEFINE output == Render(IF calls[c].use THEN selection ELSE None,
                              Profile, NamesOf(merged))
  <1>2. \/ calls'[c] = Idle
        \/ calls'[c] = [pc |-> "write", output |-> output, then |-> Idle]
    BY <1>0 DEF RenderConfig, Goto, Return
  <1>3. Lasting'
    BY <1>1, LastingStays DEF RenderConfig, At, Start, Idle, fileVars, inputVars
  <1>4. ~overlapped' => RenderFits(calls[c])' /\ ApplyFits(calls[c])'
    <2>1. ~overlapped => output = Rendering
      BY Knows DEF Story, Inv, Files, RenderConfig, At, RenderFits, Rendering
    <2> HIDE DEF output
    <2> QED
      BY <1>2, <2>1, Knows DEF RenderConfig, At, Goto, Return, Idle, fileVars, inputVars,
                               RenderFits, ApplyFits, FromRegistry, Resolves, Rendering, Profile
  <1> QED
    BY <1>1, <1>3, <1>4, StoryMoves

(* The configuration is written.                                           *)
LEMMA WriteConfigStory ==
    ASSUME Story, Inv', NEW c \in Clients, WriteConfig(c) PROVE Story'
  <1>0. DOMAIN calls = Clients
    BY DEF Story, Inv
  <1>1. Moves(c)
    BY <1>0 DEF WriteConfig, Goto, At, Moves, Active
  <1>2. /\ calls'[c] = calls[c].then
        /\ calls[c].then.pc \in {"idle", "resolved"}
    BY <1>0 DEF WriteConfig, At, Goto, Story, Inv, Carrying
  <1>3. Lasting'
    <2> SUFFICES ASSUME ~raced, calls[c].then.pc = "idle" PROVE Current'
      <3>1. raced' = raced
        BY DEF WriteConfig, Goto
      <3> QED
        BY <1>2, <3>1 DEF Lasting
    <2>1. /\ intent # None => Resolves(intent, selection)
          /\ calls[c].output = Rendering
      BY Knows DEF Story, Alone, WriteConfig, At, RenderFits
    <2>2. artifacts \in Deliveries
      BY DEF Story, Inv, TypeOK
    <2>3. generated' = calls[c].output /\ UNCHANGED <<intent, selection, inputVars>>
      BY DEF WriteConfig, WriteGenerated
    <2> QED
      BY <2>1, <2>2, <2>3 DEF Current, Rendering, Profile, Resolves, inputVars
  <1>4. ~overlapped' => RenderFits(calls[c])' /\ ApplyFits(calls[c])'
    BY <1>2 DEF RenderFits, ApplyFits
  <1> QED
    BY <1>1, <1>3, <1>4, StoryMoves

(* A refresh that merges leaves a newer source.                            *)
LEMMA RefreshStory ==
    ASSUME Story, Inv', NEW c \in Clients, Refresh(c) PROVE Story'
  <1>0. DOMAIN calls = Clients
    BY DEF Story, Inv
  <1>1. Moves(c)
    BY <1>0 DEF Refresh, Start, At, Moves, Active
  <1>2. /\ calls'[c].pc \in {"evaluate", "idle"}
        /\ newer' # {} \/ UNCHANGED <<merged, newer>>
    BY <1>0 DEF Refresh, Start, Idle, WriteSource
  <1>3. Lasting'
    <2>1. CASE newer' # {}
      BY <2>1 DEF Lasting
    <2>2. CASE UNCHANGED <<merged, newer>>
      BY <1>1, <2>2, LastingStays DEF Refresh, Start, At
    <2> QED
      BY <1>2, <2>1, <2>2
  <1>4. ~overlapped' => RenderFits(calls[c])' /\ ApplyFits(calls[c])'
    BY <1>2 DEF RenderFits, ApplyFits
  <1> QED
    BY <1>1, <1>3, <1>4, StoryMoves

(* A refresh renders from memory.                                          *)
LEMMA EvaluateRefreshStory ==
    ASSUME Story, Inv', NEW c \in Clients, EvaluateRefresh(c) PROVE Story'
  <1>0. DOMAIN calls = Clients
    BY DEF Story, Inv
  <1>1. Moves(c)
    BY <1>0 DEF EvaluateRefresh, Goto, At, Moves, Active, Return
  <1>2. \/ calls'[c].pc = "idle"
        \/ calls'[c].pc = "write" /\ calls'[c].then.pc = "resolved"
    BY <1>0 DEF EvaluateRefresh, Goto, Return, Idle
  <1>3. Lasting'
    BY <1>1, LastingStays DEF EvaluateRefresh, At, Start, Idle, fileVars, inputVars
  <1>4. ~overlapped' => RenderFits(calls[c])' /\ ApplyFits(calls[c])'
    BY <1>2 DEF RenderFits, ApplyFits
  <1> QED
    BY <1>1, <1>3, <1>4, StoryMoves

(* A refresh leaves a newer intent.                                        *)
LEMMA EvaluateWriteIntentStory ==
    ASSUME Story, Inv', NEW c \in Clients, EvaluateWriteIntent(c) PROVE Story'
  <1>0. DOMAIN calls = Clients
    BY DEF Story, Inv
  <1>1. Moves(c)
    BY <1>0 DEF EvaluateWriteIntent, Goto, At, Moves, Active
  <1>2. calls'[c].pc = "encode" /\ calls'[c].then.pc = "idle"
    BY <1>0 DEF EvaluateWriteIntent, Goto, Idle
  <1>3. Lasting'
    BY DEF EvaluateWriteIntent, WriteSource, Lasting
  <1>4. ~overlapped' => RenderFits(calls[c])' /\ ApplyFits(calls[c])'
    BY <1>2 DEF RenderFits, ApplyFits
  <1> QED
    BY <1>1, <1>3, <1>4, StoryMoves

(* An apply begins with the configuration it has built, or fails.          *)
LEMMA ApplyBuildStory ==
    ASSUME Story, Inv', NEW c \in Clients, ApplyBuild(c) PROVE Story'
  <1>0. DOMAIN calls = Clients
    BY DEF Story, Inv
  <1>1. PICK p \in ToSet(Patches) : ApplyBuild(c)!(p)
    BY DEF ApplyBuild
  <1> DEFINE pending == IF p \in registry THEN registry \ {p} ELSE registry \union {p}
             compiled == CompileRegistry(pending)
             resolved == Resolve(compiled.config, Nodes(artifacts))
             rendered == Render(resolved.selection, Profile, NamesOf(merged))
             begun == [pc |-> "commit", registry |-> pending, config |-> resolved.config,
                       output |-> rendered, selection |-> resolved.selection]
  <1>2. /\ UNCHANGED <<fileVars, inputVars>>
        /\ \/ compiled.ok /\ resolved.ok /\ Start(c, begun)
           \/ Start(c, Idle)
    BY <1>1
  <1> HIDE DEF begun
  <1>3. \E call : Start(c, call)
    BY <1>2
  <1>4. Moves(c) /\ calls[c].pc = "idle"
    BY <1>0, <1>3 DEF Start, At, Moves, Active
  <1>5. Lasting'
    BY <1>2, <1>4, LastingStays DEF fileVars, inputVars
  <1>6. CASE Start(c, Idle)
    <2>1. calls'[c].pc = "idle"
      BY <1>0, <1>6 DEF Start, Idle
    <2> QED
      BY <1>4, <1>5, <2>1, StoryMoves DEF RenderFits, ApplyFits
  <1>7. CASE compiled.ok /\ resolved.ok /\ Start(c, begun)
    <2>1. calls'[c] = begun
      BY <1>0, <1>7 DEF Start
    <2>2. /\ begun.pc = "commit" /\ begun.config = resolved.config
          /\ begun.selection = resolved.selection /\ begun.output = rendered
      BY DEF begun
    <2>3. HasFields(compiled.config)
      <3>1. pending \subseteq ToSet(Patches)
        BY DEF Story, Inv, TypeOK
      <3> QED
        BY <1>7, <3>1, CompileListed
    <2>4. /\ Resolve(begun.config, Nodes(artifacts)).ok
          /\ begun.selection = Resolve(begun.config, Nodes(artifacts)).selection
      BY <1>7, <2>2, <2>3, ConfigResolved, ResolvedAgain
    <2> HIDE DEF resolved, compiled, rendered
    <2>5. rendered = Render(begun.selection, Profile, NamesOf(merged))
      BY <2>2 DEF rendered
    <2>6. RenderFits(calls[c])' /\ ApplyFits(calls[c])'
      BY <1>2, <2>1, <2>2, <2>4, <2>5 DEF RenderFits, ApplyFits, Resolves, Profile, inputVars
    <2> QED
      BY <1>4, <1>5, <2>6, StoryMoves
  <1> QED
    BY <1>2, <1>6, <1>7

(* An apply goes on with what it has built.                                *)
LEMMA ApplyCommitPatchesStory ==
    ASSUME Story, Inv', NEW c \in Clients, ApplyCommitPatches(c) PROVE Story'
  <1>0. DOMAIN calls = Clients
    BY DEF Story, Inv
  <1>1. Moves(c)
    BY <1>0 DEF ApplyCommitPatches, Goto, At, Moves, Active
  <1>2. /\ calls'[c].pc = "artifacts" /\ calls'[c].config = calls[c].config
        /\ calls'[c].selection = calls[c].selection /\ calls'[c].output = calls[c].output
    <2>1. calls'[c] = [calls[c] EXCEPT !.pc = "artifacts"]
      BY <1>0 DEF ApplyCommitPatches, Goto
    <2>2. "pc" \in DOMAIN calls[c]
      BY DEF Story, Inv, Carrying, ApplyCommitPatches, At
    <2> QED
      BY <2>1, <2>2
  <1>3. Lasting'
    BY <1>1, LastingStays DEF ApplyCommitPatches, At, Start, Idle, fileVars, inputVars
  <1>4. ~overlapped' => RenderFits(calls[c])' /\ ApplyFits(calls[c])'
    BY <1>1, <1>2, Knows DEF ApplyCommitPatches, At, Goto, inputVars, RenderFits,
                             ApplyFits, Resolves, Profile
  <1> QED
    BY <1>1, <1>3, <1>4, StoryMoves

(* An apply leaves what it has built.                                      *)
LEMMA ApplyCommitArtifactsStory ==
    ASSUME Story, Inv', NEW c \in Clients, ApplyCommitArtifacts(c) PROVE Story'
  <1>0. DOMAIN calls = Clients
    BY DEF Story, Inv
  <1>1. Moves(c)
    BY <1>0 DEF ApplyCommitArtifacts, Goto, At, Moves, Active, Return
  <1>2. calls'[c].pc = "idle"
    BY <1>0 DEF ApplyCommitArtifacts, Goto, Return, Idle
  <1>3. Lasting'
    <2> SUFFICES ASSUME ~raced PROVE Current'
      <3>1. raced' = raced
        BY DEF ApplyCommitArtifacts, Return, Goto
      <3> QED
        BY <3>1 DEF Lasting
    <2>1. ApplyFits(calls[c])
      BY Knows DEF Story, Alone
    <2>2. artifacts \in Deliveries
      BY DEF Story, Inv, TypeOK
    <2>3. /\ generated' = calls[c].output /\ selection' = calls[c].selection
          /\ intent' = calls[c].config /\ UNCHANGED inputVars
      BY DEF ApplyCommitArtifacts, WriteGenerated
    <2> QED
      BY <2>1, <2>2, <2>3 DEF ApplyCommitArtifacts, At, ApplyFits, Current, Rendering,
                              Profile, Resolves, inputVars
  <1>4. ~overlapped' => RenderFits(calls[c])' /\ ApplyFits(calls[c])'
    BY <1>2 DEF RenderFits, ApplyFits
  <1> QED
    BY <1>1, <1>3, <1>4, StoryMoves

(* A profile that was set is a newer source.                               *)
LEMMA ConfigureStory ==
    ASSUME Story, Inv', NEW c \in Clients, Configure(c) PROVE Story'
  <1>0. DOMAIN calls = Clients
    BY DEF Story, Inv
  <1>1. Moves(c)
    BY <1>0 DEF Configure, Start, At, Moves, Active
  <1>2. calls'[c].pc = "idle"
    BY <1>0 DEF Configure, Start, Idle
  <1>3. Lasting'
    BY DEF Configure, WriteSource, Lasting
  <1>4. ~overlapped' => RenderFits(calls[c])' /\ ApplyFits(calls[c])'
    BY <1>2 DEF RenderFits, ApplyFits
  <1> QED
    BY <1>1, <1>3, <1>4, StoryMoves

LEMMA StutterStory == ASSUME Story, Inv', UNCHANGED vars PROVE Story'
  <1>1. UNCHANGED <<overlapped, raced, calls>>
    BY DEF vars
  <1>2. Alone'
    BY <1>1 DEF Story, Alone, Active
  <1>3. Lasting'
    BY DEF Story, Lasting, Current, Rendering, Profile, vars, fileVars, inputVars
  <1>4. ASSUME NEW c \in Clients, RenderFits(calls[c]), ApplyFits(calls[c])
        PROVE  RenderFits(calls[c])' /\ ApplyFits(calls[c])'
    BY <1>4 DEF RenderFits, ApplyFits, FromRegistry, Resolves, Rendering, Profile,
                vars, fileVars, inputVars
  <1> QED
    BY <1>1, <1>2, <1>3, <1>4 DEF Story

LEMMA NextStory == Story /\ [Next]_vars => Story'
  <1> SUFFICES ASSUME Story, [Next]_vars PROVE Story'
    OBVIOUS
  <1>1. Inv'
    BY NextKeeps DEF Story
  <1>2. ASSUME NEW c \in Clients, Step(c) PROVE Story'
    BY <1>1, <1>2,
       RenderBeginStory, RenderCompileStory, RenderWriteIntentStory,
       RenderResolveStory, EncodeSelectionStory, RenameSelectionStory,
       RenderConfigStory, WriteConfigStory, RefreshStory,
       EvaluateRefreshStory, EvaluateWriteIntentStory, ApplyBuildStory,
       ApplyCommitPatchesStory, ApplyCommitArtifactsStory, ConfigureStory DEF Step
  <1> QED
    BY <1>1, <1>2, StutterStory DEF Next

\* A call that nothing overlaps holds what the sources say, and where no calls
\* raced and no source is newer the generated configuration is current.
THEOREM StoryInvariance == Spec => []Story
  BY InitStory, NextStory, PTL DEF Spec

(* What config_status calls fresh is current: where no calls ever ran      *)
(* beside one another, a configuration that no source is newer than is     *)
(* what a render of the selection, the profile and the merged              *)
(* subscription would write, and the selection is what the intent resolved *)
(* to.                                                                     *)
THEOREM Fresh == Spec => []FreshMeansCurrent
  <1>1. Story => FreshMeansCurrent
    <2> SUFFICES ASSUME Story, Active = {}, ~raced, ~RenderNeeded PROVE FreshMeansCurrent
      BY DEF FreshMeansCurrent
    <2>1. \A c \in Clients : calls[c].pc # "resolved"
      BY DEF Active
    <2> QED
      BY <2>1 DEF Story, Lasting, Current, Rendering, RenderNeeded, FreshMeansCurrent
  <1> QED
    BY <1>1, StoryInvariance, PTL

(* Only the two writes of the configuration change it.                     *)
LEMMA GeneratedChanges ==
    ASSUME NEW c \in Clients, Step(c), generated' # generated
    PROVE  At(c, "write") \/ At(c, "artifacts")
  BY DEF Step, RenderBegin, RenderCompile, RenderWriteIntent, RenderResolve,
         EncodeSelection, RenameSelection, RenderConfig, WriteConfig, Refresh,
         EvaluateRefresh, EvaluateWriteIntent, ApplyBuild, ApplyCommitPatches,
         ApplyCommitArtifacts, Configure, fileVars

(* What a render that runs alone writes is the registry's configuration,   *)
(* whatever the calls before it left.                                      *)
LEMMA AloneRepairs ==
    ASSUME Story, Next, NEW c \in Clients,
           At(c, "write"), calls[c].then = Idle, ~overlapped,
           generated' # generated, registry # {}
    PROVE  /\ intent = CompileRegistry(registry).config
           /\ Resolves(intent, selection)
           /\ generated' = Rendering
  <1>1. PICK d \in Clients : Step(d)
    BY DEF Next
  <1>2. d = c
    BY <1>1, GeneratedChanges DEF Story, Alone, Active, At
  <1>3. generated' = calls[c].output
    BY <1>1, <1>2 DEF Step, RenderBegin, RenderCompile, RenderWriteIntent, RenderResolve,
         EncodeSelection, RenameSelection, RenderConfig, WriteConfig, Refresh,
         EvaluateRefresh, EvaluateWriteIntent, ApplyBuild, ApplyCommitPatches,
         ApplyCommitArtifacts, Configure, fileVars, WriteGenerated
  <1>4. /\ FromRegistry
        /\ intent # None => Resolves(intent, selection)
        /\ calls[c].output = Rendering
    BY Knows DEF RenderFits, At, Idle
  <1>5. CompileRegistry(registry).ok /\ intent = CompileRegistry(registry).config
    BY <1>4 DEF FromRegistry
  <1>6. intent # None
    <2>1. registry \in SUBSET ToSet(Patches)
      BY DEF Story, Inv, TypeOK
    <2> QED
      BY <1>5, <2>1, Compiled, IntentsAssumption
  <1> QED
    BY <1>3, <1>4, <1>5, <1>6 DEF Rendering

\* A config_render that runs alone and writes leaves the configuration of the
\* registry, whatever calls that ran beside one another had left.
THEOREM Repairs == Spec => RenderRepairs
  <1> DEFINE Repaired ==
          \A c \in Clients :
             (/\ At(c, "write") /\ calls[c].then = Idle /\ ~overlapped
              /\ generated' # generated /\ registry # {})
             => LET compiled == CompileRegistry(registry)
                    resolved == Resolve(compiled.config, Nodes(artifacts))
                IN /\ intent = compiled.config
                   /\ selection = resolved.selection
                   /\ generated' = Render(selection, Profile, NamesOf(merged))
  <1>1. Story /\ Next => Repaired
    BY AloneRepairs DEF Resolves, Rendering
  <1>2. Story /\ [Next]_vars => [Repaired]_vars
    BY <1>1
  <1> HIDE DEF Repaired
  <1>3. Spec => [][Repaired]_vars
    BY <1>2, StoryInvariance, PTL DEF Spec
  <1> QED
    BY <1>3 DEF Repaired, RenderRepairs
=============================================================================
