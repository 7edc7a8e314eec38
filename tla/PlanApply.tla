----------------------------- MODULE PlanApply -----------------------------
(***************************************************************************)
(* internal/configplan: an overlay is merged with the intent into a plan,  *)
(* a directory that a client reviews, and a plan is applied: intent,       *)
(* selection and generated config are replaced one after another, with     *)
(* backups to roll back to.  No lock is held, a second is the unit of the  *)
(* names of plans and of backups, and the process may die at any step.     *)
(*                                                                         *)
(* A config has, besides ConfigModel's fields, its policy template and     *)
(* whether it was compiled from the patch registry.                        *)
(***************************************************************************)
EXTENDS ConfigModel, TLC

CONSTANTS
    Clients,       \* callers that run at the same time
    Names,         \* names that plans are given
    Overlays,      \* overlays that plans are asked for, as configs
    Workspaces,    \* [active, artifacts] that a run may begin with
    Deliveries,    \* what the subscriptions may hold
    Profile,       \* the active runtime profile
    Torn,          \* a file cut off by a write that failed
    MaxCalls,      \* calls made in a run
    MaxMishaps,    \* writes that fail, crashes and changes from outside in a run
    MaxSecond      \* last second of a run

VARIABLES
    active,        \* the intent, the selection and the generated config
    backups,       \* <<plan, second>> -> the files backed up there
    plans,         \* plan id -> its directory
    artifacts,     \* what the subscriptions hold
    second,        \* the clock
    calls,         \* client -> its call
    started,       \* calls made so far
    mishaps,       \* such events so far
    reviewed,      \* plan id -> the configs that were answered under it
    rendersRaced,  \* whether two renders ever ran at the same time
    appliesRaced,  \* whether two applies ever ran at the same time
    result         \* how the last apply ended, None before the first

callVars == <<calls, started, rendersRaced, appliesRaced>>
vars == <<active, backups, plans, artifacts, second, callVars, mishaps, reviewed, result>>

Targets == <<"intent", "selection", "output">>
Files == ToSet(Targets)
Idle == [pc |-> "idle"]
NoFiles == [f \in Files |-> None]

\* A function with one value set.
Bind(f, x, value) == [y \in DOMAIN f \union {x} |-> IF y = x THEN value ELSE f[y]]

ASSUME FilesAssumption == Torn # None
ASSUME WorkspacesAssumption ==
    \A w \in Workspaces :
        w.artifacts \in Deliveries /\ w.active = [f \in Files |-> w.active[f]]
ASSUME BoundsAssumption == MaxCalls \in Nat /\ MaxMishaps \in Nat /\ MaxSecond \in Nat \ {0}

-----------------------------------------------------------------------------
(* Overlays, plans and their summaries.                                    *)

EmptyConfig ==
    [groups |-> <<>>, policies |-> <<>>, transport |-> <<>>, custom |-> <<>>,
     localPacks |-> <<>>, providers |-> <<>>, packs |-> <<>>, fallback |-> None,
     selected |-> <<>>, template |-> None, compiled |-> FALSE]

\* An item replaces the last one with its id, or is appended.
Put(list, item) ==
    LET same == {i \in DOMAIN list : list[i].id = item.id}
    IN IF same = {} THEN Append(list, item) ELSE [list EXCEPT ![Max(same)] = item]

\* A group that an overlay brings has no nodes selected yet.
MergeOverlay(base, overlay) ==
    [base EXCEPT !.groups = overlay.groups @@ @,
                 !.selected = [g \in DOMAIN @ \ DOMAIN overlay.groups |-> @[g]],
                 !.policies = overlay.policies @@ @,
                 !.transport = FoldLeft(Put, @, overlay.transport),
                 !.custom = FoldLeft(Put, @, overlay.custom),
                 !.localPacks = FoldLeft(Put, @, overlay.localPacks),
                 !.providers = FoldLeft(Put, @, overlay.providers),
                 !.packs = FoldLeft(Put, @, overlay.packs)]

Readable(intent) == intent \notin {None, Torn}

\* An intent compiled from the patch registry takes no overlay.
ConfigWithOverlay(intent, overlay) ==
    IF intent = Torn \/ (Readable(intent) /\ intent.compiled)
    THEN Failed
    ELSE [ok |-> TRUE,
          config |-> MergeOverlay(IF intent = None THEN EmptyConfig ELSE intent, overlay)]

\* The summary names nodes and targets as resolved, and no group optional.
RequestedSummary(overlay, selection) ==
    [groups |-> [g \in DOMAIN overlay.groups |->
                    [overlay.groups[g] EXCEPT !.nodes = selection.groups[g].nodes,
                                              !.optional = FALSE]],
     policies |-> overlay.policies,
     transport |-> overlay.transport,
     custom |-> overlay.custom,
     localPacks |-> [i \in DOMAIN overlay.localPacks |->
                        [overlay.localPacks[i] EXCEPT !.target = LocalTarget(overlay.localPacks[i])]],
     providers |-> overlay.providers,
     packs |-> overlay.packs]

IntentFromSummary(summary) == summary @@ EmptyConfig

\* A plan's config, or, if that is gone, what its summary tells of it.
LoadApplyConfig(plan) ==
    IF plan.config # None THEN plan.config ELSE IntentFromSummary(plan.summary.overlay)

PreserveTemplate(config, intent) ==
    IF config.template = None /\ Readable(intent)
    THEN [config EXCEPT !.template = intent.template]
    ELSE config

\* (for a mutant) The second a plan is rendered in names it.
BugAllocatePlanID(name, now) == <<name, now, 1>>

AllocatePlanID(name, now) ==
    <<name, now, CHOOSE n \in 1..(Cardinality(DOMAIN plans) + 1) :
                    /\ <<name, now, n>> \notin DOMAIN plans
                    /\ \A k \in 1..(n - 1) : <<name, now, k>> \in DOMAIN plans>>

-----------------------------------------------------------------------------

\* A workspace before its first plan.
Init ==
    /\ \E w \in Workspaces : active = w.active /\ artifacts = w.artifacts
    /\ backups = <<>> /\ plans = <<>> /\ reviewed = <<>>
    /\ second = 1
    /\ calls = [c \in Clients |-> Idle]
    /\ started = 0 /\ mishaps = 0
    /\ rendersRaced = FALSE /\ appliesRaced = FALSE
    /\ result = None

At(c, pc) == calls[c].pc = pc
Rendering == {c \in Clients : calls[c].pc # "idle" /\ calls[c].kind = "render"}
Applying == {c \in Clients : calls[c].pc # "idle" /\ calls[c].kind = "apply"}

Goto(c, call) ==
    /\ calls' = [calls EXCEPT ![c] = call]
    /\ UNCHANGED <<started, rendersRaced, appliesRaced>>
Mishap == mishaps < MaxMishaps /\ mishaps' = mishaps + 1
GotoPc(c, pc) == Goto(c, [calls[c] EXCEPT !.pc = pc])
Return(c) == Goto(c, Idle)

Ready(c) == At(c, "idle") /\ started < MaxCalls

Start(c, call) ==
    /\ started' = started + 1
    /\ calls' = [calls EXCEPT ![c] = call]
    /\ rendersRaced' = (rendersRaced \/ (call.kind = "render" /\ Rendering # {}))
    /\ appliesRaced' = (appliesRaced \/ (call.kind = "apply" /\ Applying # {}))

-----------------------------------------------------------------------------
(* Render: a plan for review.                                              *)

\* What `mihomo -t' may say of a config.
Verdicts == BOOLEAN

\* The plans whose summary can be read.
Summarized == {id \in DOMAIN plans : plans[id].summary # None}

\* An overlay without rules is refused: it would be groups nothing uses.
RenderResolve(c) ==
    /\ Ready(c)
    /\ \E name \in Names, overlay \in Overlays :
        LET merged == ConfigWithOverlay(active.intent, overlay)
            resolved == Resolve(merged.config, Nodes(artifacts))
        IN /\ \E list \in Lists : overlay[list] # <<>>
           /\ merged.ok /\ resolved.ok
           /\ Start(c, [pc |-> "allocate", kind |-> "render", name |-> name, now |-> second,
                        plan |-> None, config |-> resolved.config,
                        selection |-> resolved.selection,
                        overlay |-> RequestedSummary(overlay, resolved.selection)])
           /\ UNCHANGED <<active, backups, plans, artifacts, second, mishaps, reviewed, result>>

\* The id is free when it is looked for; the directory is made later.
RenderAllocate(c) ==
    /\ At(c, "allocate")
    /\ Goto(c, [calls[c] EXCEPT !.pc = "config",
                                !.plan = AllocatePlanID(calls[c].name, calls[c].now)])
    /\ UNCHANGED <<active, backups, plans, artifacts, second, mishaps, reviewed, result>>

RenderWriteConfig(c) ==
    LET id == calls[c].plan
        dir == IF id \in DOMAIN plans THEN plans[id] ELSE [config |-> None, summary |-> None]
    IN /\ At(c, "config")
       /\ plans' = Bind(plans, id, [dir EXCEPT !.config = calls[c].config])
       /\ GotoPc(c, "output")
       /\ UNCHANGED <<active, backups, artifacts, second, mishaps, reviewed, result>>

\* The candidate is rendered for review; a failure leaves the directory.
RenderCandidate(c) ==
    /\ At(c, "output")
    /\ IF Render(calls[c].selection, Profile, NamesOf(Merged(artifacts))).ok
       THEN GotoPc(c, "summary")
       ELSE Return(c)
    /\ UNCHANGED <<active, backups, plans, artifacts, second, mishaps, reviewed, result>>

\* The test decides whether the plan is valid; the summary is written last.
RenderWriteSummary(c) ==
    \E valid \in Verdicts :
        LET id == calls[c].plan
        IN /\ At(c, "summary")
           /\ plans' = [plans EXCEPT ![id].summary =
                           [valid |-> valid, overlay |-> calls[c].overlay]]
           /\ reviewed' = Bind(reviewed, id, {calls[c].config} \union
                              (IF id \in DOMAIN reviewed THEN reviewed[id] ELSE {}))
           /\ Return(c)
           /\ UNCHANGED <<active, backups, artifacts, second, mishaps, result>>

-----------------------------------------------------------------------------
(* Apply.                                                                  *)

End(c, outcome) ==
    result' = [outcome |-> outcome, before |-> calls[c].before, want |-> calls[c].want,
               key |-> calls[c].key]

\* The plan is resolved again, with the nodes that there are now.
ApplyLoad(c) ==
    /\ Ready(c)
    /\ \E id \in Summarized :
        /\ plans[id].summary.valid
        /\ LET config == PreserveTemplate(LoadApplyConfig(plans[id]), active.intent)
               resolved == Resolve(config, Nodes(artifacts))
           IN /\ resolved.ok
              /\ Start(c, [pc |-> "render", kind |-> "apply", plan |-> id,
                           key |-> <<id, second>>, before |-> active, files |-> 1, kept |-> {},
                           existed |-> {}, clean |-> TRUE,
                           want |-> [intent |-> resolved.config,
                                     selection |-> resolved.selection, output |-> None]])
        /\ UNCHANGED <<active, backups, plans, artifacts, second, mishaps, reviewed, result>>

\* Rendered and tested in a temporary directory.
ApplyRender(c) ==
    \E passed \in Verdicts :
        LET rendered == Render(calls[c].want.selection, Profile, NamesOf(Merged(artifacts)))
        IN /\ At(c, "render")
           /\ IF rendered.ok /\ passed
              THEN /\ Goto(c, [calls[c] EXCEPT !.pc = "backup", !.want.output = rendered])
                   /\ UNCHANGED result
              ELSE Return(c) /\ End(c, "unchanged")
           /\ UNCHANGED <<active, backups, plans, artifacts, second, mishaps, reviewed>>

\* (for a mutant) A target that does not exist counts as backed up.
BugApplyBackup(c) ==
    LET f == Targets[calls[c].files]
        key == calls[c].key
        kept == IF key \in DOMAIN backups THEN backups[key] ELSE NoFiles
    IN /\ At(c, "backup")
       /\ backups' = Bind(backups, key, [kept EXCEPT ![f] = active[f]])
       /\ Goto(c, IF calls[c].files = Len(Targets)
                  THEN [calls[c] EXCEPT !.pc = "prepare", !.kept = @ \union {f}]
                  ELSE [calls[c] EXCEPT !.files = @ + 1, !.kept = @ \union {f}])
       /\ UNCHANGED <<active, plans, artifacts, second, mishaps, reviewed, result>>

\* Copies of the files that exist, in the order of the targets; a copy that
\* fails may leave half a file in the place of an earlier backup.
ApplyBackup(c) ==
    LET f == Targets[calls[c].files]
        key == calls[c].key
        earlier == IF key \in DOMAIN backups THEN backups[key] ELSE NoFiles
        Copied(content) == Bind(backups, key, [earlier EXCEPT ![f] = content])
        next == IF calls[c].files = Len(Targets)
                THEN [calls[c] EXCEPT !.pc = "prepare"]
                ELSE [calls[c] EXCEPT !.files = @ + 1]
    IN /\ At(c, "backup")
       /\ \/ /\ active[f] = None
             /\ Goto(c, next)
             /\ UNCHANGED <<backups, mishaps, result>>
          \/ /\ active[f] # None
             /\ backups' = Copied(active[f])
             /\ Goto(c, [next EXCEPT !.kept = @ \union {f}])
             /\ UNCHANGED <<mishaps, result>>
          \/ /\ active[f] # None /\ Mishap
             /\ backups' = Copied(Torn)
             /\ Return(c) /\ End(c, "unchanged")
       /\ UNCHANGED <<active, plans, artifacts, second, reviewed>>

\* Which targets exist, and three temporary files of this apply's own.
ApplyPrepare(c) ==
    /\ At(c, "prepare")
    /\ \/ /\ Goto(c, [calls[c] EXCEPT !.pc = "commit", !.files = 1,
                                      !.existed = {f \in Files : active[f] # None}])
          /\ UNCHANGED <<mishaps, result>>
       \/ Mishap /\ Return(c) /\ End(c, "unchanged")
    /\ UNCHANGED <<active, backups, plans, artifacts, second, reviewed>>

\* One rename; a directory that does not sync counts as a failed commit too.
ApplyCommit(c) ==
    LET i == calls[c].files
        f == Targets[i]
        Rollback(last) == [calls[c] EXCEPT !.pc = "rollback", !.files = last]
    IN /\ At(c, "commit")
       /\ \/ /\ active' = [active EXCEPT ![f] = calls[c].want[f]]
             /\ IF i = Len(Targets)
                THEN Return(c) /\ End(c, "applied")
                ELSE Goto(c, [calls[c] EXCEPT !.files = i + 1]) /\ UNCHANGED result
             /\ UNCHANGED mishaps
          \/ /\ Mishap
             /\ active' = [active EXCEPT ![f] = calls[c].want[f]]
             /\ Goto(c, Rollback(i))
             /\ UNCHANGED result
          \/ /\ Mishap
             /\ Goto(c, Rollback(i - 1))
             /\ UNCHANGED <<active, result>>
       /\ UNCHANGED <<backups, plans, artifacts, second, reviewed>>

\* (for a mutant) A file that did not exist before is not removed.
BugApplyRollback(c) ==
    LET f == Targets[calls[c].files]
    IN /\ At(c, "rollback") /\ calls[c].files > 0
       /\ active' = IF f \in calls[c].existed \intersect calls[c].kept
                    THEN [active EXCEPT ![f] = backups[calls[c].key][f]]
                    ELSE active
       /\ Goto(c, [calls[c] EXCEPT !.files = @ - 1])
       /\ UNCHANGED <<backups, plans, artifacts, second, mishaps, reviewed, result>>

\* Backwards, going on after an error: what existed is copied back, if it
\* was backed up, and what did not is removed.  A backup may not be read, a
\* copy may stop half way, and what was restored may not sync.
ApplyRollback(c) ==
    LET f == Targets[calls[c].files]
        Becomes(content) == active' = [active EXCEPT ![f] = content]
        Done == Goto(c, [calls[c] EXCEPT !.files = @ - 1]) /\ UNCHANGED mishaps
        Error == Goto(c, [calls[c] EXCEPT !.files = @ - 1, !.clean = FALSE])
        Restored(content) == Becomes(content) /\ (Done \/ (Error /\ Mishap))
    IN /\ At(c, "rollback") /\ calls[c].files > 0
       /\ CASE f \in calls[c].existed \intersect calls[c].kept ->
                  \/ Restored(backups[calls[c].key][f])
                  \/ (Becomes(Torn) \/ UNCHANGED active) /\ Error /\ Mishap
            [] f \in calls[c].existed \ calls[c].kept ->
                  UNCHANGED <<active, mishaps>> /\ Error
            [] OTHER ->
                  \/ Restored(None)
                  \/ UNCHANGED active /\ Error /\ Mishap
       /\ UNCHANGED <<backups, plans, artifacts, second, reviewed, result>>

ApplyRolledBack(c) ==
    /\ At(c, "rollback") /\ calls[c].files = 0
    /\ Return(c)
    /\ End(c, IF calls[c].clean THEN "rolled back" ELSE "failed")
    /\ UNCHANGED <<active, backups, plans, artifacts, second, mishaps, reviewed>>

-----------------------------------------------------------------------------
(* What happens around the calls.                                          *)

\* The process dies, with all of its calls, perhaps while one copies a
\* backup back.
Crash(c) ==
    /\ calls[c].pc # "idle" /\ Mishap
    /\ \/ UNCHANGED active
       \/ /\ At(c, "rollback") /\ calls[c].files > 0
          /\ Targets[calls[c].files] \in calls[c].existed \intersect calls[c].kept
          /\ active' = [active EXCEPT ![Targets[calls[c].files]] = Torn]
    /\ IF Applying = {} THEN UNCHANGED result ELSE \E d \in Applying : End(d, "failed")
    /\ calls' = [d \in Clients |-> Idle]
    /\ UNCHANGED <<backups, plans, artifacts, second, reviewed, started,
                   rendersRaced, appliesRaced>>

\* A subscription brings other nodes between a review and its apply.
Deliver ==
    /\ artifacts' \in Deliveries \ {artifacts} /\ Mishap
    /\ UNCHANGED <<active, backups, plans, second, callVars, reviewed, result>>

\* Someone removes a plan's config.
LoseConfig ==
    \E id \in DOMAIN plans :
        /\ plans[id].summary # None /\ plans[id].config # None
        /\ plans' = [plans EXCEPT ![id].config = None]
        /\ Mishap
        /\ UNCHANGED <<active, backups, artifacts, second, callVars, reviewed, result>>

Tick ==
    /\ second < MaxSecond
    /\ second' = second + 1
    /\ UNCHANGED <<active, backups, plans, artifacts, callVars, mishaps, reviewed, result>>

Step(c) ==
    \/ RenderResolve(c) \/ RenderAllocate(c) \/ RenderWriteConfig(c)
    \/ RenderCandidate(c) \/ RenderWriteSummary(c)
    \/ ApplyLoad(c) \/ ApplyRender(c) \/ ApplyBackup(c) \/ ApplyPrepare(c)
    \/ ApplyCommit(c) \/ ApplyRollback(c) \/ ApplyRolledBack(c)
    \/ Crash(c)

Next == (\E c \in Clients : Step(c)) \/ Deliver \/ LoseConfig \/ Tick

Spec == Init /\ [][Next]_vars

-----------------------------------------------------------------------------

Pcs == {"idle", "allocate", "config", "output", "summary", "render", "backup",
        "prepare", "commit", "rollback"}

\* Types: a plan that was answered has a directory, a backup belongs to a
\* plan, and what an apply restores is what it has copied.
TypeOK ==
    /\ DOMAIN active = Files
    /\ \A key \in DOMAIN backups : key[1] \in DOMAIN plans /\ key[2] \in 1..second
    /\ DOMAIN reviewed \subseteq DOMAIN plans
    /\ artifacts \in Deliveries /\ second \in 1..MaxSecond /\ started \in 0..MaxCalls
    /\ \A c \in Clients :
          /\ calls[c].pc \in Pcs
          /\ calls[c].pc \in {"commit", "rollback"} =>
                \A f \in calls[c].kept : backups[calls[c].key][f] # None

\* How the last apply left the files: one that says it is applied has them
\* all, one that was refused or rolled back left what it found; one that
\* died, or that could not roll back, left nothing of other applies, and
\* what it replaced is in its backup.
LeftWhole ==
    CASE result.outcome = "applied" -> active = result.want
      [] result.outcome \in {"unchanged", "rolled back"} -> active = result.before
      [] OTHER -> \A f \in Files :
                     \/ active[f] = result.before[f]
                     \/ /\ active[f] \in {result.want[f], Torn}
                        /\ \/ result.before[f] = None
                           \/ backups[result.key][f] = result.before[f]

\* Applies that ran one at a time replaced the three files or none.
AppliesWhole == (~appliesRaced /\ Applying = {} /\ result # None) => LeftWhole

\* The intent that an apply writes is the one that was answered under the
\* id of its plan, but for its template and for the nodes of its groups,
\* which are those that what the subscriptions held gives them; unless that
\* config is gone from the plan's directory or two renders looked for a free
\* id at the same time.
ReviewedIsApplied ==
    [][\A c \in Clients :
          (/\ At(c, "commit") /\ calls[c].files = 1 /\ active' # active
           /\ calls'[c] \notin {calls[c], Idle} /\ ~rendersRaced
           /\ plans[calls[c].plan].config # None)
          => \E config \in reviewed[calls[c].plan], delivery \in Deliveries :
                LET kept == [config EXCEPT !.template = active'.intent.template]
                IN /\ reviewed[calls[c].plan] = {config}
                   /\ Resolve(kept, Nodes(delivery)).ok
                   /\ active'.intent =
                         [kept EXCEPT !.selected = SelectedNodes(kept, Nodes(delivery))]]_vars

=============================================================================
