--------------------------- MODULE ConfigPipeline ---------------------------
(***************************************************************************)
(* The files between the patch registry and the configuration Mihomo runs, *)
(* and the tools that write them: config_render (renderCurrentConfig),     *)
(* subscriptions_refresh with the evaluation of its impact                 *)
(* (evaluateLocalClashAfterRefresh), config_patch_apply and                *)
(* config_configure.  Only an apply takes a lock, against other applies.   *)
(*                                                                         *)
(* The transaction of an apply is the module PatchTransaction's, the       *)
(* download of subscriptions SubscriptionRefresh's: here each is the       *)
(* change it makes to the files the others read.                           *)
(***************************************************************************)
EXTENDS ConfigModel

CONSTANTS
    Clients,       \* tasks of the server that run at the same time
    Patches,       \* patch ids, in their order
    Overlay,       \* patch -> the config that it contributes
    HandWritten,   \* intents that a user may have written: configs and None
    Deliveries,    \* what a refresh may bring: sequences of [source, proxies]
    Cores,         \* cores that config_configure may set
    UserProfiles,  \* profiles [ok, required] a user may have written, and None
    MaxCalls       \* calls made in a run

ASSUME PipelineAssumption == None \notin Clients /\ MaxCalls \in Nat

VARIABLES
    registry,      \* the enabled patches
    intent,        \* localclash-intent.json: a config or None
    selection,     \* localclash-packs.gob
    selectionTmp,  \* localclash-packs.gob.tmp, one name for every writer
    generated,     \* .runtime/mihomo/config.yaml
    artifacts,     \* .runtime/subscriptions/<id>.gob
    merged,        \* subscription.gob
    profile,       \* the runtime profile: its mode and core
    userProfile,   \* localclash-user.json or None
    newer,         \* the sources of generated that were written after it
    applyMu,       \* the client in configpatch.Apply, or None
    calls,         \* client -> its call
    started,       \* calls made so far
    overlapped,    \* whether another call ran beside one of the running ones
    raced          \* whether two calls ever ran at the same time

inputVars == <<artifacts, merged, profile, userProfile>>
fileVars == <<registry, intent, selection, selectionTmp, generated, newer>>
vars == <<fileVars, inputVars, applyMu, calls, started, overlapped, raced>>

Sources == {"intent", "merged", "profile", "selection"}
Idle == [pc |-> "idle"]
Active == {c \in Clients : calls[c].pc # "idle"}

CompileRegistry(patches) ==
    Compile([i \in {j \in DOMAIN Patches : Patches[j] \in patches} |-> Overlay[Patches[i]]])

\* The configs that are written, and what Resolve makes of them.
Written ==
    (HandWritten \ {None}) \union
    {CompileRegistry(patches).config :
        patches \in {ps \in SUBSET ToSet(Patches) : CompileRegistry(ps).ok}}
Resolvable == {x \in Written \X Deliveries : Resolve(x[1], Nodes(x[2])).ok}
Intents == Written \union {ResolvedConfig(x[1], Nodes(x[2])) : x \in Resolvable}

ASSUME IntentsAssumption ==
    /\ None \notin Intents
    /\ Patches \in Seq(ToSet(Patches))
    /\ \A config \in HandWritten \ {None} : HasFields(config)
    /\ \A p \in ToSet(Patches) : HasFields(Overlay[p])

\* A workspace before its first render.
Init ==
    /\ registry = {}
    /\ intent \in HandWritten
    /\ selection = None /\ selectionTmp = None /\ generated = None
    /\ artifacts \in Deliveries
    /\ merged = Merged(artifacts)
    /\ profile \in [mode : DOMAIN Builtin, core : Cores]
    /\ userProfile \in UserProfiles
    /\ newer = {}
    /\ applyMu = None
    /\ calls = [c \in Clients |-> Idle]
    /\ started = 0 /\ overlapped = FALSE /\ raced = FALSE

Profile == ActiveProfile(profile, userProfile)

-----------------------------------------------------------------------------

At(c, pc) == calls[c].pc = pc
Goto(c, call) == calls' = [calls EXCEPT ![c] = call] /\ UNCHANGED <<started, overlapped, raced>>
Return(c) == Goto(c, Idle)

Start(c, call) ==
    /\ At(c, "idle") /\ started < MaxCalls
    /\ started' = started + 1
    /\ overlapped' = (Active # {})
    /\ raced' = (raced \/ Active # {})
    /\ calls' = [calls EXCEPT ![c] = call]

\* (for a mutant) The runtime profile is not among the sources compared.
BugWriteSource(file) == newer' = newer \union ({file} \ {"profile"})

WriteSource(file) == newer' = newer \union {file}
WriteGenerated(output) == generated' = output /\ newer' = {}

-----------------------------------------------------------------------------
(* config_render.                                                          *)

\* (for a mutant) The registry is only compiled when there is no intent yet.
BugRenderBegin(c) ==
    /\ Start(c, [pc |-> IF registry # {} /\ intent = None THEN "compile" ELSE "resolve"])
    /\ UNCHANGED <<fileVars, inputVars, applyMu>>

\* Without a merged subscription the tool only reports what is missing.
RenderBegin(c) ==
    /\ Start(c, [pc |-> IF registry # {} THEN "compile" ELSE "resolve"])
    /\ UNCHANGED <<fileVars, inputVars, applyMu>>

\* The registry is read without applyMu.
RenderCompile(c) ==
    /\ At(c, "compile")
    /\ IF CompileRegistry(registry).ok
       THEN Goto(c, [pc |-> "intent", config |-> CompileRegistry(registry).config])
       ELSE Return(c)
    /\ UNCHANGED <<fileVars, inputVars, applyMu>>

RenderWriteIntent(c) ==
    /\ At(c, "intent")
    /\ intent' = calls[c].config /\ WriteSource("intent")
    /\ Goto(c, [pc |-> "resolve"])
    /\ UNCHANGED <<registry, selection, selectionTmp, generated, inputVars, applyMu>>

\* Nodes come from the artifacts of the sources, not from the merged file.
RenderResolve(c) ==
    LET resolved == Resolve(intent, Nodes(artifacts))
    IN /\ At(c, "resolve")
       /\ IF intent = None
          THEN Goto(c, [pc |-> "render", use |-> FALSE])
          ELSE IF resolved.ok
               THEN Goto(c, [pc |-> "encode", selection |-> resolved.selection,
                             then |-> [pc |-> "render", use |-> TRUE]])
               ELSE Return(c)
       /\ UNCHANGED <<fileVars, inputVars, applyMu>>

\* WriteSelection creates, truncates and fills a temporary file ...
EncodeSelection(c) ==
    /\ At(c, "encode")
    /\ selectionTmp' = calls[c].selection
    /\ Goto(c, [pc |-> "rename", then |-> calls[c].then])
    /\ UNCHANGED <<registry, intent, selection, generated, newer, inputVars, applyMu>>

\* ... and renames it: whatever is under that name, or an error.
RenameSelection(c) ==
    /\ At(c, "rename")
    /\ IF selectionTmp = None
       THEN /\ Return(c)
            /\ UNCHANGED <<selection, selectionTmp, newer>>
       ELSE /\ selection' = selectionTmp /\ selectionTmp' = None
            /\ WriteSource("selection")
            /\ Goto(c, calls[c].then)
    /\ UNCHANGED <<registry, intent, generated, inputVars, applyMu>>

\* The selection is read back from its file, the nodes from the merged one.
RenderConfig(c) ==
    LET rendered == Render(IF calls[c].use THEN selection ELSE None,
                           Profile, NamesOf(merged))
    IN /\ At(c, "render")
       /\ IF rendered.ok
          THEN Goto(c, [pc |-> "write", output |-> rendered, then |-> Idle])
          ELSE Return(c)
       /\ UNCHANGED <<fileVars, inputVars, applyMu>>

WriteConfig(c) ==
    /\ At(c, "write")
    /\ WriteGenerated(calls[c].output)
    /\ Goto(c, calls[c].then)
    /\ UNCHANGED <<registry, intent, selection, selectionTmp, inputVars, applyMu>>

-----------------------------------------------------------------------------
(* subscriptions_refresh.                                                  *)

\* The sources' artifacts are renamed one after another, the merged file
\* last.  A refresh that fails has replaced artifacts, or nothing.
Refresh(c) ==
    \E delivery \in Deliveries, merges \in BOOLEAN :
        /\ artifacts' = delivery
        /\ IF merges
           THEN merged' = Merged(delivery) /\ WriteSource("merged")
           ELSE UNCHANGED <<merged, newer>>
        /\ Start(c, IF merges THEN [pc |-> "evaluate", delivery |-> delivery] ELSE Idle)
        /\ UNCHANGED <<registry, intent, selection, selectionTmp, generated, profile, userProfile, applyMu>>

\* Intent, nodes and merged document: the first from its file, the others
\* as the refresh has them in memory.  The output is rendered from memory.
EvaluateRefresh(c) ==
    LET nodes == Nodes(calls[c].delivery)
        resolved == Resolve(intent, nodes)
        rendered == Render(resolved.selection, Profile, NamesOf(nodes))
    IN /\ At(c, "evaluate")
       /\ IF intent # None /\ resolved.ok /\ rendered.ok
          THEN Goto(c, [pc |-> "write", output |-> rendered,
                        then |-> [pc |-> "resolved", config |-> resolved.config,
                                  selection |-> resolved.selection]])
          ELSE Return(c)
       /\ UNCHANGED <<fileVars, inputVars, applyMu>>

\* The resolved config replaces the intent, whatever became of it meanwhile.
EvaluateWriteIntent(c) ==
    /\ At(c, "resolved")
    /\ intent' = calls[c].config /\ WriteSource("intent")
    /\ Goto(c, [pc |-> "encode", selection |-> calls[c].selection, then |-> Idle])
    /\ UNCHANGED <<registry, selection, selectionTmp, generated, inputVars, applyMu>>

-----------------------------------------------------------------------------
(* config_patch_apply, config_configure.                                   *)

\* Compiles the pending registry and builds it in a temporary directory; the
\* groups of the compiled config are resolved in place.
ApplyBuild(c) ==
    \E p \in ToSet(Patches) :
        LET pending == IF p \in registry THEN registry \ {p} ELSE registry \union {p}
            compiled == CompileRegistry(pending)
            resolved == Resolve(compiled.config, Nodes(artifacts))
            rendered == Render(resolved.selection, Profile, NamesOf(merged))
        IN /\ applyMu = None
           /\ IF compiled.ok /\ resolved.ok /\ rendered.ok
              THEN /\ applyMu' = c
                   /\ Start(c, [pc |-> "commit", registry |-> pending,
                                config |-> resolved.config, output |-> rendered,
                                selection |-> resolved.selection])
              ELSE /\ applyMu' = applyMu
                   /\ Start(c, Idle)
           /\ UNCHANGED <<fileVars, inputVars>>

ApplyCommitPatches(c) ==
    /\ At(c, "commit")
    /\ registry' = calls[c].registry
    /\ Goto(c, [calls[c] EXCEPT !.pc = "artifacts"])
    /\ UNCHANGED <<intent, selection, selectionTmp, generated, newer, inputVars, applyMu>>

\* (for a mutant) The lock is still held after the commit.
BugApplyCommitArtifacts(c) ==
    /\ At(c, "artifacts")
    /\ intent' = calls[c].config
    /\ selection' = calls[c].selection
    /\ WriteGenerated(calls[c].output)
    /\ Return(c)
    /\ UNCHANGED <<registry, selectionTmp, inputVars, applyMu>>

\* The output was staged last: no other file of the apply is newer.
ApplyCommitArtifacts(c) ==
    /\ At(c, "artifacts")
    /\ intent' = calls[c].config
    /\ selection' = calls[c].selection
    /\ WriteGenerated(calls[c].output)
    /\ applyMu' = None
    /\ Return(c)
    /\ UNCHANGED <<registry, selectionTmp, inputVars>>

Configure(c) ==
    \E mode \in DOMAIN Builtin \union {None}, core \in Cores \union {None} :
        /\ mode # None \/ core # None
        /\ profile' = [mode |-> IF mode = None THEN profile.mode ELSE mode,
                       core |-> IF core = None THEN profile.core ELSE core]
        /\ WriteSource("profile")
        /\ Start(c, Idle)
        /\ UNCHANGED <<registry, intent, selection, selectionTmp, generated,
                       artifacts, merged, userProfile, applyMu>>

-----------------------------------------------------------------------------

Step(c) ==
    \/ RenderBegin(c) \/ RenderCompile(c) \/ RenderWriteIntent(c) \/ RenderResolve(c)
    \/ EncodeSelection(c) \/ RenameSelection(c) \/ RenderConfig(c) \/ WriteConfig(c)
    \/ Refresh(c) \/ EvaluateRefresh(c) \/ EvaluateWriteIntent(c)
    \/ ApplyBuild(c) \/ ApplyCommitPatches(c) \/ ApplyCommitArtifacts(c)
    \/ Configure(c)

Next == \E c \in Clients : Step(c)

Spec == Init /\ [][Next]_vars

-----------------------------------------------------------------------------

Pcs == {"idle", "compile", "intent", "resolve", "encode", "rename", "render",
        "write", "evaluate", "resolved", "commit", "artifacts"}

\* Types: the registry holds patches, at most one apply runs, sources of
\* the generated config are only told newer by their names.
TypeOK ==
    /\ registry \subseteq ToSet(Patches)
    /\ artifacts \in Deliveries /\ profile \in [mode : DOMAIN Builtin, core : Cores]
    /\ newer \subseteq Sources
    /\ applyMu \in Clients \union {None}
    /\ \A c \in Clients : calls[c].pc \in Pcs
    /\ \A c \in Clients : calls[c].pc \in {"commit", "artifacts"} <=> applyMu = c
    /\ started \in 0..MaxCalls /\ {overlapped, raced} \subseteq BOOLEAN

\* A group or exit that a configuration names is one it defines, at whatever
\* moments its intent, selection, nodes and profile were read: a selection
\* of other nodes is refused, never rendered with dangling names.
Closed(output) ==
    /\ \A g \in DOMAIN output.groups :
          /\ output.groups[g] # {}
          /\ output.groups[g] \subseteq output.proxies \union {DirectMember}
    /\ \A p \in DOMAIN output.policies :
          /\ output.policies[p] # {}
          /\ output.policies[p] \subseteq Terminals \union DOMAIN output.groups

MembersDefined == generated # None => Closed(generated)

\* What config_status says: no configuration, or a source that is newer.
RenderNeeded == generated = None \/ newer # {}

Defined(output, target) ==
    target \in Terminals \union DOMAIN output.groups \union DOMAIN output.policies

\* Rules go to groups that the configuration defines, and its metadata names
\* only these, except that a rule may name an optional group without nodes,
\* which is left out, and that nothing keeps a fallback group in.
Reaching(output) ==
    /\ \A g \in output.overlay :
          Defined(output, g) \/ g \in {r.target : r \in ToSet(output.rules)}
    /\ \A i \in DOMAIN output.rules :
          ~Defined(output, output.rules[i].target) =>
              \/ i = Len(output.rules)
              \/ output.rules[i].target \in output.overlay

RulesReachGroups == generated # None => Reaching(generated)

\* No configuration refers to what it does not define.
ReferencesDefined == MembersDefined /\ RulesReachGroups

\* Between calls none of which ran beside another, a configuration that
\* config_status calls fresh is what a render of the files it compares would
\* write, and the selection is the intent's.
FreshMeansCurrent ==
    (Active = {} /\ ~raced /\ ~RenderNeeded) =>
        /\ generated = Render(selection, Profile, NamesOf(merged))
        /\ intent # None => \E delivery \in Deliveries :
              LET resolved == Resolve(intent, Nodes(delivery))
              IN resolved.ok /\ selection = resolved.selection

\* Whatever was left by calls that ran beside one another, an intent that a
\* refresh wrote over an apply's, a selection of other nodes: a config_render
\* that runs alone and writes leaves the registry's configuration.
RenderRepairs ==
    [][\A c \in Clients :
          (/\ At(c, "write") /\ calls[c].then = Idle /\ ~overlapped
           /\ generated' # generated /\ registry # {})
          => LET compiled == CompileRegistry(registry)
                 resolved == Resolve(compiled.config, Nodes(artifacts))
             IN /\ intent = compiled.config
                /\ selection = resolved.selection
                /\ generated' = Render(selection, Profile, NamesOf(merged))]_vars

=============================================================================
