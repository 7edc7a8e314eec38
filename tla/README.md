# A TLA+ development of localClash

localClash is an MCP server (and a command line) that manages a Mihomo proxy on
a router: it keeps a registry of config patches that agents change through
review, renders the Mihomo config from it, tests that config, starts, reloads
and stops Mihomo, and routes the router's traffic into it. The server runs
every tool call in a goroutine of its own, some of them for minutes, next to
other processes that use the same files: the command line, LuCI's service
script, Mihomo itself. Almost all of its state is files under `.runtime/`.

This directory models that state and the calls that change it, checks the
models with TLC on small instances, and proves the main results for instances
of every size with TLAPS. `PROJECT.json` lists the runs, the seeded faults, the
source lines that each definition stands for, the hazards and the theorems.

Source paths below are relative to the repository (`src/` in `PROJECT.json`).

## 1. The system: inventory

| component | state | operations | interacts with | what is hard | correct when |
|---|---|---|---|---|---|
| **Patch registry** `internal/configpatch`, draft slot in `internal/mcp/server.go` | `patches/*.json`, compiled intent, selection, generated config; in memory `applyMu`, draft generation, one draft slot | Load, List, Draft, Apply, ImportPolicyTemplate | agents (review between draft and apply), render and refresh (same artifacts, no lock) | drafts without a lock, long review, file-by-file commit, rollback, crash | applies are atomic changes of the registry that was reviewed; what they do not name survives |
| **Order ids** `internal/configpatch` | none | midpointOrderID, nextUserOrderID, templateOrderID, previewOperations | the registry's uniqueness checks | 10^-6 steps, sentinels, fixed width | a new id is valid, unused and between its neighbours |
| **Runtime control** `internal/corerun` | the process table, pid scan of `/proc`, logs | Start, Restart (process restart, hot reload), Stop, Run, Status | config test, takeover guard, CLI | nothing serialises calls; processes that hang or crash; waits with deadlines | one core, on a tested config; what was reported stopped is dead |
| **Config test** `internal/mihomotest` | validation cache (32 entries), attestation, test snapshots | ValidateCached, Test, PromoteConfig, CacheStatus | runtime control, render | file read three times while renders rewrite it; read-modify-write of the cache | a recorded verdict is about the bytes of its hash |
| **Router takeover** `internal/routertakeover` | nft tables, ip rules, routes, DNS settings | Apply, Stop, Status | runtime control | shell scripts that fail half way | traffic is only sent to a runtime that runs; stop undoes apply |
| **Rendering** `internal/configrender`, `callConfigRender`, `renderCurrentConfig` | selection, intent, generated config | Render, refresh's re-evaluation | patch registry, subscriptions, config test | several writers of the same files, no lock | the generated config is that of the newest registry |
| **MCP server and tasks** `internal/mcp/{server,tasks,registry}.go` | paths and state of the workspace, task status and log files, wait group | dispatch, queueAsyncTool, runLoggedSyncTool, cleanup, Shutdown | every component | task goroutines, cancellation, retention, data race on paths | each task ends in a final status that says what happened |
| **Task monitor** `internal/mcp/task_monitor.go` | samples, diagnostics counters | Start, Record, Stop, one diagnostic per task | tasks | lock released around file I/O | at most one snapshot per trigger; a summary that matches the files |
| **Subscriptions** `internal/subscriptions`, `internal/subdownload` | `subscriptions.json`, raw and parsed artifacts, merged subscription | Configure, Refresh, Status | intent resolution, render | worker pool, partial failure, fixed temporary names, slow downloads | the merge is of the configured sources, each source's newest good artifact |
| **Intent** `internal/localconfig` | `localclash.intent.json`, selection | Load, Resolve, Write | rules, subscriptions, patches | resolution of groups against nodes | every reference resolves or is reported |
| **Plans** `internal/configplan` | plan artifacts | Render, Apply | intent, render | commit of several files with rollback | same as an apply of patches |
| **Policy templates** `internal/policytemplate` | none | load and merge of sources by manifest | patch import | order of sources | a later source overrides an earlier one |
| **Rule packs** `internal/rules` | catalog and index caches | adapters, index, nodes | intent | parsing, cache files | conversion of data |
| **Runtime profile** `internal/runtimeprofile` | `runtime-profile.json` | Load, Configure, merge into a config | render, takeover | precedence | profile fields win over the template's |
| **Downloads** `internal/{coredownload,baseassets,dashboard}` | core binary, geo data, UI | candidates, retry, replace | runtime control | partial download, replacement in use | the installed file is whole |
| **Reset** `internal/reset`, `internal/workspace` | everything under the workspace | plan, delete | runtime control | refusal while a runtime runs | only planned paths go |
| **Bootstrap** `internal/appinit` | the server's initial state, core version cache | Bootstrap | all | - | - |
| **File tools** `internal/fileops` | files of the workspace | nl_file, sed_file | all | guarded read-modify-write | - |
| **Controller client** `internal/mihomoapi` | none | HTTP and WebSocket calls | Mihomo | - | - |
| **Inspection** `internal/{doctor,envinspect,configinspect,configmeta}`, `routing_explain.go` | none | reports | all | - | read-only |
| **Command line** `main.go`, `product_cli.go` | none | flags, calls of the components | a second process beside the server | no lock shared with the server | - |

How they meet: `config_patch_apply` commits the registry and three artifacts
built from it under `applyMu`; `config_render`, `subscription_refresh` and
`policy_template_import` write some of the same files without it. The generated
config is tested by `mihomo_config_test` (which attests the hash) and by
`run_runtime` and `restart_runtime` (through the validation cache), and is
read once more by Mihomo when it starts or reloads. `router_takeover_apply`
needs a runtime, `stop_runtime` refuses to stop one that the takeover needs.

## 2. Modules

| module | what it is |
|---|---|
| `PatchTransaction` | drafts, the draft slot, applies with lock, base check, build, backup, file-by-file commit, rollback, crashes |
| `AtomicRegistry` | what an apply promises: whole reviewed operations on the registry they were reviewed on |
| `MCPatchTransaction` | instances for TLC |
| `RuntimeLifecycle` | concurrent start, restart, hot reload, stop, test, takeover; processes; the generated config |
| `MCRuntimeLifecycle` | instances for TLC |
| `RuntimeLifecycleProofs` | theorems |
| `SubscriptionRefresh` | the source list and refreshes that may overlap: worker pool, artifacts through a fixed temporary name, merge, cancellation, failures, death |
| `MCSubscriptionRefresh` | the instance for TLC |
| `SubscriptionRefreshProofs` | theorems |
| `TaskRunner` | tasks, queued or waited for: status and log files, rotation, retention, monitor and diagnostics, shutdown |
| `MCTaskRunner` | the instance for TLC |
| `TaskRunnerProofs` | theorems |
| `ConfigModel` | operators without state: names of nodes, `Resolve`, `RenderFragment`, `Render`, compilation of the registry |
| `ConfigPipeline` | `ConfigModel` composed with the files and the tools that write them without a common lock |
| `MCConfigPipeline` | sources, patches and intents for TLC |
| `ConfigPipelineProofs` | theorems |
| `PlanApply` | plans of `configplan` over `ConfigModel`: render for review, apply with backups, commit, rollback |
| `MCPlanApply` | overlays and workspaces for TLC |
| `PlanApplyProofs` | theorems |
| `PatchOperations` | `previewOperations`, base hashes and order ids as operators; the template import beside an apply |
| `MCPatchOperations` | releases, registries and operation lists for TLC |
| `PatchRegistryProofs` | theorems about `PatchTransaction` and `PatchOperations` |
| `Components` | downloads of cores, assets and dashboard, the version cache, profile switch, reset, start; commands of several parts |
| `MCComponents` | the commands for TLC |
| `ComponentsProofs` | the variables' types, and theorems |
| `RouterTakeover` | the takeover's scripts command by command, and the calls around them |
| `MCRouterTakeover` | the requests for TLC |
| `RouterTakeoverProofs` | theorems |

How they compose: `ConfigModel` is what `ConfigPipeline` and `PlanApply` have in
common. `ConfigPipeline` takes the transaction of an apply from
`PatchTransaction` (there its steps, here the change it makes), and the download
from `SubscriptionRefresh` (here what it delivers). `PatchOperations` says what
the operation lists are that `PatchTransaction` takes as net effects, which is a
theorem (`ListsHaveNetEffects`); the two share no name, so that
`PatchRegistryProofs` can extend both.
`RuntimeLifecycle` has of the takeover whether nothing, a part or all of it is
installed, `RouterTakeover` has the runtime as one switch: each refines what the
other abstracts.

Definitions whose name starts with `Bug` are seeded faults. Each stands next to
the action it is a faulty variant of, has no part in the specification, and
shows that a property can fail: with the variant in the action's place, the run
that checks the property finds it violated (`mutants` in `PROJECT.json`).

### PatchTransaction

One client is one concurrent MCP request. `phase[c]` is where its handler is,
`draft[c]` the draft it works on, `txn` the local variables of the one `Apply`
that can be inside `applyMu`.

| code | actions |
|---|---|
| `callConfigPatchDraft` | `DraftBegin` (the generation is taken first), `DraftPreview` / `DraftRefused` (`configpatch.Draft`), `DraftStore` (slot) |
| `callConfigPatchApply` | `ApplyCurrent` (slot copied under its mutex), `ApplyExplicit` (arguments from the agent), `MarkStale`, `ClearDraft` |
| `configpatch.Apply` | `ApplyLock` / `ApplyStale` / `ApplyUnloadable`, `ApplyBuild`, `ApplyRefused`, `ApplyBackup` |
| `commitTargets` | `CommitRemove`, `CommitPatch`, `CommitArtifact` (one file each), `CommitDone`, `CommitFault` |
| `rollbackBackups`, `removeUnbackedTargets` | `RollbackFile`, `RollbackDone` |
| process death and restart | `Crash`: memory starts over, files and what agents were shown stay |

A draft is previewed on whatever `patches/*.json` hold at that moment, also in
the middle of another client's commit, as `Draft` takes no lock.

Abstractions. A patch is its id, its title slug (with the id, its file name),
its order id and a revision. A hash is the value it is a hash of. An operation
list is its net effect: the patches it names and the records it leaves of them.
Per-operation base hashes are implied by the registry hash and not modelled
apart. The artifacts hold the registry they were built from. Files are replaced
in any order within each of the three groups (removals, patches, artifacts).
The files a rollback restores are written in any order, and its own I/O does
not fail.

`AtomicRegistry` has a registry and the proposals agents were shown; `Apply`
replaces the registry in one step by the result of a proposal made on exactly
that registry. The refinement mapping is `CommittedRegistry` (while a commit or
a rollback is under way, the registry its draft was made on; otherwise the
files) and the reviewed drafts as proposals.

### RuntimeLifecycle

A caller is one concurrent call: an MCP handler, a task, a CLI process. `call[c]`
holds its kind, its flags, its stage and the local variables it carries from
one step to the next (the stat, the hash, the processes found). `state` is the
process table, `loaded` the config each process read, `disk` the generated
config, `cache` and `attested` the two files of `mihomotest`, `rules` whether
nothing, a part or all of the takeover's rules and routes is in place. Two are
history: `tested`, the bytes that passed, and `unguarded`, the stops whose guard
could not read the status of a whole takeover, or after whose guard one was laid.

| code | actions |
|---|---|
| `ValidateCached`, `Test` | `Stat` (with the `core -v` of the metadata as a process other scans see), `ProbeEnd`, `Lookup`, `Exec` (with `Recorded`, what `writeValidationCache` leaves), `Attest` |
| `Start` | `Scan`, then validation for `run_runtime`, `Spawn` |
| `Restart` (process) | validation, `Find`, `Signal`, `Wait` / `Timeout`, `Scan`, `Spawn` |
| `Stop`, `callStopRuntimeSync` | `Guard` (refuses while the takeover is `Effective` by every check; one that misses a part, or whose status cannot be read, is no obstacle), `Find`, `Signal`, `Wait` / `Timeout` |
| `hotReload` | `HashCheck`, `LiveCheck`, `Put` |
| `routertakeover.Apply`, `Stop` | `Check`, `Clear` (the script's cleanup), `Install` (all of it or what a failing command left), `Verify`, `Remove` |
| Mihomo | `Exit`: a signalled process exits when it likes, one with a bad config by itself, any when `Faults`; the routes may go with the last one |
| `configrender.Render` and other writers | `Edit` |

Abstractions. Pids are not reused; the core binary does not change; what the
core thinks of a config depends on its bytes only. A write of the config is one
step (a read of a half-written file is not modelled). The cache's
read-modify-write and the `-t` verdict are one step. Of several cache entries
that match, any decides (the newest in the code; this is weaker). A guard that
reads the takeover's status, checks and process list in turn does so in one step,
whatever part of the takeover is missing is the same `part`, and a
hash given by the caller of a hot reload is left out (no tool gives one), as are
the status read that ends a restart, the foreground run and an error of the
SIGKILL itself. The server does
not die here: its goroutines die with it, Mihomo does not, and a new server
starts from states that are already reachable.

### SubscriptionRefresh

A call is one `Refresh`, of a task of the server or of the command line.
`call[c].at` is the stage of the call itself, `call[c].job[s]` how far it is
with a source (waiting for a worker, with one, through), `call[c].docs` the
documents it will merge. `disk` and `temp` are the artifacts and their `.tmp`
files, with what a file needs for two writers of one name: a truncating open
keeps the inode, a rename moves it with the writers that have it open, and
bytes two writers mixed may decode to either document or to none.

| code | actions |
|---|---|
| `Refresh` up to the pool | `Begin` (the list is read once, the ids have to be in it) |
| `refreshSelectedSources` | `Dispatch` (a free worker receives a source), `Drop` (the feeding loop sees a cancelled context), `Collect` (all workers ended; one failure fails the refresh) |
| `fetchSource` | `Answer` (what the provider serves, or a failure), `Abort` (cancelled) |
| `writeSubscriptionArtifact` | `OpenTemp`, `Encode`, `Rename`, each of which may fail, for an artifact and for the merged file |
| artifacts not selected | `Read` (missing: left out; not decodable: the refresh fails) |
| the callers | `Timeout` (two minutes in the server), `Die` |
| `Configure` | `Configure` |

Abstractions. What a provider serves is a version that may grow with each
answer; proxies are the version they came with. Renaming of nodes, format
detection and the node diff are data. A write of the source list is one step.
`Status` and `Get` only read. A source that is given inline is one whose
provider never changes. Each call has a process of its own to die in; a server
that dies with several calls is several steps `Die`. Once the artifacts are
collected the context is not looked at again, hence no cancellation after that.

### TaskRunner

A task is a tool call that leaves a log: it runs in the request's goroutine
(`sync`) or, queued, in one of its own. `at[t]` is its stage, `append[t]` and
`monitor[t]` are how far its goroutine and its monitor are with the line each
logs, `order` is the order of the modification times that the retention sorts
by, a set of pairs of the files that exist: in the first, the one written first.

| code | actions |
|---|---|
| `queueAsyncTool`, `runLoggedSyncTool` | `Begin`, `RemoveFiles` (`cleanupTaskLogDir`: list, then delete by name), `FirstStatus`, `FirstLine`, `Start` |
| the tool's run | `Progress`, `Finish` (summary), `FinalStatus`, `Stop` |
| `appendTaskLog` with its rotation | `AppendLog` (stat, rotate, write: three steps, no lock) |
| task monitor | `Trigger` (claim under the mutex), `WriteDiagnostics`, `ReportDiagnostics` |
| `ListenAndServeHTTPWithState`, `Shutdown` | `Drain`, `Cancel`, `Shutdown`, `ListenerFails`, `Die` |

A status file is its status, a log how many lines it has and which of those
that matter are among them. Nothing looks at whether a line could be written, a log
rotated or a file deleted: the steps go on without it, and `dropped` and `stuck`
remember which lines are missing and which files remained for that reason, as
`faulty` does for status files. `MaxLines` is two or more in the code's terms (a log
takes far more than one line before it is rotated), and with one line
`DiagnosticsTold` would not hold. `MaxActive` bounds the tasks that are under way
at once; the code has no such bound.

### ConfigModel and ConfigPipeline

`ConfigModel` follows the data from the subscriptions' artifacts to the rendered
configuration: `Nodes` (labels and numbers of names), `Resolve` (groups against
nodes, policies, rules, local packs; the config itself gets the fallback and the
nodes of its groups, in its field `selected`: `ResolvedConfig`), `RenderFragment`
(what is used is kept, optional groups without nodes are left out), `Render` (dns
references, types, final rule, metadata), `Compile` (the enabled patches'
overlays).

`ConfigPipeline` has the files: registry, intent, selection and its temporary
file, generated config, artifacts, merged subscription, profile; `newer` is what
`config_status` compares by modification time.

| code | actions |
|---|---|
| `renderCurrentConfig` | `RenderBegin`, `RenderCompile`, `RenderWriteIntent`, `RenderResolve`, `EncodeSelection`, `RenameSelection`, `RenderConfig`, `WriteConfig` |
| `subscriptions_refresh` and `evaluateLocalClashAfterRefresh` | `Refresh`, `EvaluateRefresh`, `WriteConfig`, `EvaluateWriteIntent`, `EncodeSelection`, `RenameSelection` |
| `config_patch_apply` | `ApplyBuild`, `ApplyCommitPatches`, `ApplyCommitArtifacts` |
| `config_configure` | `Configure` |

A render writes the intent it compiled and resolves it afterwards; an apply of
patches and an evaluation after a refresh write the intent that `Resolve` has put the
nodes of its groups into. The intents a later call reads are of both kinds (`Intents`).

Abstractions. Rules carry their target and whether the rest of them is valid.
A regular expression is the set of names it matches. The validation of the
rendered file is in `RuntimeLifecycle`. An artifact's replacement is one step,
as is the merged file's.

### PlanApply

`configplan.Render` merges an overlay with the intent and leaves a directory for
review (`RenderResolve`, `RenderAllocate`, `RenderWriteConfig`,
`RenderCandidate`, `RenderWriteSummary`); `configplan.Apply` replaces the three
active files (`ApplyLoad`, `ApplyRender`, `ApplyBackup`, `ApplyPrepare`,
`ApplyCommit`, `ApplyRollback`, `ApplyRolledBack`). A file's rollback may find its
backup unreadable, write half of it, or fail at the fsync when the file is already
restored (`Becomes`, `Restored`). The apply resolves the plan's config again, with
the nodes there are by then. `Crash` may happen at any
step, `Deliver` changes the nodes and `LoseConfig` the plan between review and
apply, `Tick` moves the clock that plans and backups are named by.

### PatchOperations

`Previews` has the registries before, between and after a list of operations, as
`previewOperations` makes them (`Operate`, with `Refused` from the first operation
on that is not accepted); `BaseHashes`, `MidpointOrder` and `NextUserOrder` are the code's own. The
machine around them drafts, applies in one step, and imports a template file
by file: `ImportRemove`, `ImportWrite`, `ImportTorn`, `ImportStopped`,
`ImportLoad`. A whole has four units instead of 10^6, the open end is below an
existing order id and the digits run out after a few patches, so that every edge
of the arithmetic is met.

### Components

Every command is a process: `Begin` and its bootstrap (`Inspect`, `SaveCache`),
then its parts, one after the other (`NextPart`); only the desired state has
several. Cores: `FetchRelease`, `OpenTemp`, `Copied` or `CopyFailed`,
`InstallCore`, `CleanupTemp`. Version cache: `ClearCache`, `AskCore`,
`TellCache`. Assets: `FetchAssets`, `UnpackAsset`, `AssetsStatus`. Dashboard:
`ReplaceDashboard`, `DownloadDashboard`, `UnpackDashboard`, `VerifyDashboard`.
Reset: `ResetCheck`, `ResetRemove`. `Switch` is the profile's core, `Start` the
runtime. A file is the release it is from; a core that is being downloaded has
the releases of all who write it, since two downloads open one `.download`
name, and each `rename` moves the inode with its writers. A Meta core for a target
that OpenClash has (`openClash` of a part) is fetched from there first and, when
that fails at any step, from GitHub (`Retries`, `Refuse`). `Switch` may fail and
end the command. What fails in the refresh of the version cache does not: the
removal of the old cache is not looked at, and a core that does not tell its version or a cache
that cannot be written becomes a warning of the answer (`Warn`). That a failed write
of the runtime profile may leave it torn is left out.

### RouterTakeover

The apply script is `CheckFw4`, the cleanup (`CleanupJumps` for each base
chain, `CleanupChains`, `CleanupSets`, `CleanupIp`, `CleanupFiles`), then
`WaitTun`, `DiscoverDomains`, `DeleteRules`, `AddRule`, `AddSets`,
`AddLocalDns`, `AddTakeover`, `AddPost`, `WriteStatus`; the stop script is the
cleanup. `set -eu` and the trap are `Fails`: cleanup, then an error. `Killed` is
the deadline, which runs no trap. `Verify` and `Checks` are the status read
after it, `StopGuard` is `stop_runtime`'s, `Reload` and `RuntimeExits` are what
the firewall and the runtime do by themselves. It is assumed that the router's
`sh` knows `trap ... ERR`.

## 3. Runs

Deadlock is not checked in any run: agents may stop calling, and in the bounded
models they have to once the drafts or calls are used up.

| run | instance | shows |
|---|---|---|
| `PatchTransaction` | 2 clients, 2 patches, 2 slugs, 2 orders, 2 revisions, 2 drafts, I/O faults, no crash, clients symmetric | `CommitsOnReviewedBase`, `AppliesWhatWasReviewed`, `LoadsWhenIdle`, `UntouchedPatchesSurvive`, and that it implements `AtomicRegistry` |
| `PatchCrash` | 1 draft per server process, one crash anywhere, no fault, fairness | `OneFileWhenIdle`, `CallsReturn` |
| `PatchOperations` | 3 drafts or imports, 2 releases of 2 template patches, 1 user patch, lists of 1 or 2 operations | `DraftsApply`, `PlacedAsAsked`, `LoadsUnlessCollision` |
| `RuntimeLifecycle` | an agent with every call but the test, a tester beside it, 3 processes, 4 calls, 1 rewrite of the config, faults | `OneRuntime`, `RunsTestedConfig`, `VerdictsAreTrue` |
| `RuntimeTwoStarters` | two callers that run and restart, 6 processes, 5 calls, 2 rewrites, a bad config, no faults | `StaysUp`, `RestartSparesRuntime` |
| `RuntimeStops` | two agents that both stop and apply, one of which runs, restarts and reloads and the other releases, 3 processes, 3 calls, 1 rewrite, faults, fairness | `StoppedIsDead`, `StopSparesTakeover`, `CallsReturn` |
| `SubscriptionRefresh` | 2 refreshes of 2 sources, 1 worker, 2 versions, 1 change of the list, 1 death or failed write, calls and sources symmetric | `QuietAfterReturn`, `ReadersSeeWholeFiles`, `ArtifactsLead`, `SoleRefreshRepairs` |
| `TaskRunner` | 3 tasks, 2 at once, beside the files of an earlier one, 1 task retained, 2 lines per log; an unusual event (a stage, a diagnostic, a failure) for each task less, so 2 with one task | `CleanStop`, `OutcomeLogged`, `DiagnosticsTold`, `FilesBounded` |
| `ConfigPipeline` | 2 tasks, 3 calls, 3 patches, 2 sources with 2 deliveries, a written intent or none, 2 modes, 2 cores, a user's profile or none | `ReferencesDefined`, `FreshMeansCurrent`, `RenderRepairs` |
| `PlanApply` | 2 callers, 3 calls, 2 overlays, 2 seconds, 2 mishaps, 2 workspaces, 2 deliveries | `AppliesWhole`, `ReviewedIsApplied` |
| `Components` | 2 commands at a time, 2 in all, 2 mirrors, 2 mishaps, 2 releases | `CoresWhole`, `AnswersHold` |
| `RouterTakeover` | 2 calls at a time, 3 in all, 2 mishaps | `TakeoverAnswers` |

Why the bounds are enough. *Patches:* two clients are what it takes to interfere,
two drafts to have an old and a new one of each. The operation lists contain each
kind of file change: create, rewrite, rename (a new slug), remove, tombstone,
exchange of order ids. The neighbour patch shows what is not named. What grows
with the number of patches or clients is covered by the theorems. *Operations:*
three calls are an import of one release, a second one over it and a draft, in any
order. *Runtime:* three processes are the old runtime, its successor and a second
one; `RuntimeTwoStarters` has six so that pids are never the reason that nothing
is started. Four or five calls are a restart with something before it, something
beside it and something after it. One caller has all the calls that start runtimes
in `RuntimeLifecycle`, because two do start two cores (section 5); `BusyEdits` is
off because a rewrite in the middle of a call lets untested bytes run (also
section 5). These two conditions are the assumptions of the theorems about these
properties, and nothing else is assumed. The two agents of `RuntimeStops` are what
it takes to lay a takeover between another's guard and its signal, or to signal
what another is stopping; a runtime may be there from the start, so that three
calls are an apply, a stop and what comes between them. *Subscriptions:* two
refreshes overlap or follow each other, the second after whatever the first left;
with one worker and two sources one source waits while the other is fetched, so
that cancellation meets both. Two versions tell old from new. One fault is a death
or a failed write at any step of either refresh. *Tasks:* four tasks have eight
files where six are allowed, and two tasks at once list, delete what the other has
written, and write again. Two lines fill a log, so that task and monitor both
rotate it. Two tasks and one event are what `CleanStop` relates, one task and two
events a diagnostic and the line or the rotation that fails: a log has one task
and its monitor. `MaxSpent` is this trade of tasks for events; the theorems have
any number of both. *Pipeline and plans:* three calls are two that overlap and one
after them, which finds what the race left; the deliveries differ in the names and
labels of nodes, so that every pair of artifacts can belong to different moments;
three patches bring an optional group, a policy, a local pack, a provider rule and
a group of an exact node. In `PlanApply` a delivery between review and apply
changes the nodes of a group, so that what is applied is not literally what was
answered. *Components:* two commands, of which one may be a desired state of three
parts; two mishaps are the failure of one mirror and of the other, or a failure
and a crash. *Takeover:* the first call leaves something, the next two overlap or
one of them repairs; two mishaps are a command that fails and the deadline that
kills its cleanup.

**Fairness.** `PatchTransaction`: weak fairness of each handler's own steps (a
goroutine that can run does) and strong fairness of its step at `applyMu`:
`sync.Mutex` hands the lock to a waiter that has waited for more than a
millisecond (starvation mode), so that a waiter that keeps finding the lock free
gets it. Beginning a call is not fair. `RuntimeLifecycle`: weak fairness of each
call's steps and none of processes, which may hang for ever; with `Faults` a
deadline ends every wait. A crash ends the calls of `PatchCrash` too, and they
count as returned; `RuntimeStops` has faults, without which a wait has no deadline
in the model. `SubscriptionRefresh` states no fairness and no liveness: a provider
that does not answer is ended by the caller's deadline, which only the server
sets. The other modules state none either: whether a task or a download ends is
up to what it runs, and `FinalStatus`, scripts and commits are bounded sequences
of steps.

## 4. What is proved

Every theorem is for any clients, patches, requests and bounds; the assumptions
on the constants are the named `ASSUME`s of the modules, and TLC evaluates them
in each run. They ask for what the code's own values have: that `None` and the
torn file are no values (`PipelineAssumption`, `FilesAssumption`,
`NoneAssumption`), that intents have an intent's fields and the registry is a
sequence (`IntentsAssumption`), that a workspace has its files and holds what was
delivered (`WorkspacesAssumption`), that ids, titles and statuses are texts and `None` is none of
them (`TextAssumption`, `GivenAssumption`), that a whole has at least one unit and order
ids are numbers (`OrderAssumption`), that templates are sequences of patches and agents
send at least one operation (`InputAssumption`), that a command is asked for one part, or for
the parts of a desired state in the order in which `executeDesiredState` does them
(`RequestsAssumption`), and that bounds are numbers.

**PatchRegistryProofs, PatchTransaction.** The inductive invariant `Inv` is the
type invariant and: `DraftsSound` (what sits in slots, calls and agents' hands was
previewed and accepted on a loadable registry), `Ownership` (a call is in a
locked phase exactly when it holds `applyMu`), and one conjunct per stage of the
lock holder. `Committing` relates the files on disk to what is still to be
removed and written; `Restoring` relates them to what is still to be written
back and to the targets touched. The properties are about the ends of
those stages and none is inductive without them.

| theorem | says | assumes |
|---|---|---|
| `TypeInvariant` | `[]TypeOK` | |
| `ReviewedBase` | `[]CommitsOnReviewedBase` | |
| `CompleteCommit` | `[]CommitComplete` | |
| `UntouchedSurvive` | `UntouchedPatchesSurvive` | |
| `OneFileUnlessFaults` | `[]OneFileWhenIdle` | no I/O fault (`~IOFaults`); crashes allowed |
| `LoadsUnlessCrashed` | `[]LoadsWhenIdle` | no crash; faults allowed |
| `AppliesReviewedDraft` | `[]AppliesWhatWasReviewed` | no crash |
| `Refinement` | `Spec => AppliesAtomically` | no crash |

The three "no crash" conditions are needed: section 5 has the counterexamples
that TLC finds when crashes are allowed. A fault followed by a crash in
the rollback can leave a patch in two files, hence `~IOFaults` for
`OneFileUnlessFaults`.

**PatchRegistryProofs, PatchOperations.**

| theorem | says | holds of |
|---|---|---|
| `ReviewedApplies` | `[]DraftsApply` | drafts that name no patch twice |
| `Places` | `[]PlacedAsAsked` | every list of operations |
| `ImportsLoad` | `[]LoadsUnlessCollision` | imports that no apply runs beside, of templates whose own patches do not collide |
| `ListsHaveNetEffects` | what a list leaves is `PatchTransaction`'s `Preview` of its net effect | every list of operations |

They hold for any registries, releases and lists of operations of any length, and
any order ids. Facts about a list are inductions along it, by its first position
where the fact fails (`Least`): that `Previews` satisfies the recursion that defines it
(`PreviewsDef`; a function defined by recursion has to be shown to exist), that a list
that ends accepted was accepted at every position, and that a patch is after some
operations what it was before them when none of them names it (`Unnamed`). From the
last, the base hash of a patch that is named once is the registry's, which is
`ReviewedApplies`, and a reorder's neighbours are still where they were when the
midpoint between them was taken, which is `Places`. The inductive invariant `OpsInv`
has `Shaped` (types), `Under` and `Drafted` (what an apply holds and what a draft
answered is the preview of an accepted list) and `Importing`: while an import removes,
what is left of a registry that loads still loads (`ValidRecords` of a subset);
while it writes, the registry is the files it found and kept and the first few of the
template (`Mixed`), each of which may replace an older file of its name, so that only
the pairs that the property excuses can collide (`Excused`).

**RuntimeLifecycleProofs.**

| theorem | says | assumes |
|---|---|---|
| `TypeInvariant` | `[]TypeOK` | |
| `StoppedStaysDead` | `[]StoppedIsDead` | |
| `SingleRuntime` | `[]OneRuntime` | at most one caller runs or restarts (`OneStarter`) |
| `TestedConfigs` | `[]RunsTestedConfig` | the config is not rewritten during calls (`QuietConfig`) |
| `TrueVerdicts` | `[]VerdictsAreTrue` | `QuietConfig` |
| `RestartTested` | `RestartSparesRuntime` | `QuietConfig` |
| `AnnouncedRuns` | `[]StaysUp` | only restarts take runtimes down (`OnlyRestarts`) |
| `TakeoverSpared` | `StopSparesTakeover` | |

`StoppedStaysDead` rests on the life cycle of a process (free, up, dying, gone,
in this order) and on every process a call has found having been started.
`SingleRuntime`: between its scan and its spawn the one starter knows that
nothing runs, since only it spawns (`NothingYet`). The three with `QuietConfig`
share the invariant `Trust`: entries of the cache that pass and the attestation are of
tested bytes, a stamp determines the bytes written under it, and a call that is
past its validation has tested what is on disk.

`AnnouncedRuns` is for any number of callers that run and restart. `OnlyRestarts`
is `QuietConfig`, no faults, no probe that a scan could take for a runtime, and no
call that stops: each of these takes down a runtime that another call has just
announced, with nobody at fault. What is left is the hazard of the property, a call
that answers "already running" about a runtime that a restart is about to signal.
The invariant is `Upkeep`: a runtime that goes down is one that a restart waits for
(`Awaited`), so that of several restarts the last to scan after its signals finds
either a runtime that nobody will signal or none, and then starts one; and once a
runtime was announced one is up, or a call is on its way to start one (`Served`).

`TakeoverSpared` is for any callers with any calls, for faults, rewrites and
runtimes that exit. It says what a guard is worth that is asked once, long before
the signal: a stop that is not forced signals no runtime of a whole takeover, unless
it is one of `unguarded`. `Spares` has the two facts this rests on: a whole takeover has a runtime
(`Carried`: the last runtime takes a route with it), so that a guard that sees all the rules
also sees the runtime and refuses; and from then to the signal only an
apply makes a takeover whole (`Threats`), which puts the stop among the excused (`Spared`).
That nothing else does, a start, a release, a reload or another stop, is what could be
wrong. Section 5 has what the excuses mean for two agents.

**SubscriptionRefreshProofs.**

| theorem | says | holds of |
|---|---|---|
| `TypeInvariant` | `[]TypeOK` | every behaviour |
| `Quiet` | `[]QuietAfterReturn` | every behaviour |
| `WholeFiles` | `[]ReadersSeeWholeFiles` | files, while no two refreshes overlapped |
| `LeadingArtifacts` | `[]ArtifactsLead` | files, while no two refreshes overlapped |
| `Repairs` | `SoleRefreshRepairs` | refreshes that overlap with none, whatever happened before |

`Quiet` needs `Control` (the stage of a call bounds what its jobs can be) and
`Opens` (a call that has a file open is writing it). The others rest on `Files`:
a call that is alone is the only writer of its temporary files (`Writes`) and
knows what the artifacts it wrote or read hold (`Holds`). `Sole` and `Raced`
relate being alone to the other calls and to the history. `Repairs` does not
assume that no races ever happened: what two refreshes broke, one repairs.

**TaskRunnerProofs.**

| theorem | says |
|---|---|
| `CleanShutdown` | `[]CleanStop` |
| `LoggedOutcome` | `[]OutcomeLogged` |
| `ToldDiagnostics` | `[]DiagnosticsTold` |
| `TypeInvariant` | `[]TypeOK` |
| `BoundedFiles` | `[]FilesBounded` |

They hold for any tasks and any limits under `TaskAssumption`, which asks for
a log of at least two lines: with one line the first rotation after the outcome
would take it. For the first three the inductive invariant `Inv` has types
(without the order of the files) and five parts: `Stopping` (how far a
shutdown has come bounds what may still be running), `Statuses` (the status file
of a task that runs says so, unless a write failed), `Monitors` (a monitor is
stopped, triggered or waiting in step with its task), `Outcome` (between the
outcome's line and the end of the task at most one rotation can follow) and
`Told` (which of the summary and the log tells of diagnostics, at each step
between their file and the end). A line that could not be written is in `dropped`, and
the two properties about logs excuse that line and no other: with any other line, any
rotation or any deletion failing, what matters is in one of the two logs.

`BoundedFiles` is about a deletion that runs long after its listing: by then other
tasks have begun and written, and have listings of their own. The invariant
`Retention` says it of every set of tasks that have yet to delete (`Retained`): of
these the one that began last knew, when it listed the files, all the others and all
that write, and they were at most as many as were ever active at once; without its
victims there are the files its listing retained and those of the tasks it knew.
When that task deletes, the same fact about the set without it is still to be
shown, hence one for each set. `NewestFew` is the lemma that in any order of finitely
many files the newest `n` are at most `n`.

**ConfigPipelineProofs.**

| theorem | says | holds of |
|---|---|---|
| `TypeInvariant` | `[]TypeOK`: with it one apply at a time, the holder of `applyMu` | every behaviour |
| `References` | `[]ReferencesDefined` | every behaviour |
| `Fresh` | `[]FreshMeansCurrent` | behaviours, while no two calls have overlapped |
| `Repairs` | `RenderRepairs` | renders that overlap with no call, whatever happened before |

For `References` the argument is that whatever the selection, resolved with the
nodes at hand or with others, from a torn sequence of calls or a user's hand, an
output that `Render` accepts names only nodes, groups and exits that it defines:
`RenderClosed` for groups and exits, which rests on `FragmentClosed`, where
`prepareTargets` has refused the selections for which this fails and the used
groups are those that the used exits name; and a lemma on each of the lists that
`RulesOf` puts together for the rules. `Carrying` takes it from the step that
renders to the one that writes, with any number of calls between them.

`Fresh` and `Repairs` are about what a call knows that runs alone: `Story` has,
for each stage of a render (`RenderFits`) and of an apply (`ApplyFits`), which of
the files already are what the registry compiles to, what that resolves to and
what that renders to, and `Lasting`, that this stays so until a source changes.
As `Repairs` starts from any files, a render that runs alone ends what races before
it have left. The intents it may find there include those that an apply committed
with the nodes of their groups written in: `ResolvedAgain` is the lemma that resolving
such an intent, with the same nodes or with others, gives what resolving the
compiled one would.

**PlanApplyProofs.**

| theorem | says | holds of |
|---|---|---|
| `TypeInvariant` | `[]TypeOK` | every behaviour |
| `AllOrNothing` | `[]AppliesWhole` | behaviours, while no two applies have overlapped |
| `ReviewedApplied` | `ReviewedIsApplied` | behaviours, while no two renders have looked for a directory at once |

`Inv` has the shapes of plans, files and calls (`Shapes`), that what names a plan,
a backup or a copy names one that is there (`Links`), and two parts under the
conditions of the properties, which they state themselves. `Alone` follows the one
apply through backup, commit and rollback: which of the three files are the
apply's and which are as it found them, and that what it found is in its backup.
Of an apply that a crash ended, and of a rollback that failed itself,
`AppliesWhole` asks less: each file is as the apply found it, or has what it
wrote, whole or torn, and then what it replaced is in the backup. `Reviews`: the
config of a plan is what it was answered with, or lost. What an apply writes is
that config resolved once more: `ReviewedIsApplied` says that it differs by its
template and by the nodes of its groups, and that those are the ones a delivery
gives it. That a render finds a free directory name at all (`Free`) counts
directories: there are more names than renders so far.

**RouterTakeoverProofs.**

| theorem | says | holds of |
|---|---|---|
| `Answered` | `[]TakeoverAnswers` | calls that nothing has disturbed, whatever happened before |

`Control` bounds what a call can have answered at its stage. For a call that has
been alone, `Cleaned` and `Added` say, command by command of the two scripts,
what the cleanup has removed and what the apply has added to nothing, and
`Answers` what the verification then sees. The rules a call starts from are any:
overlapping applies, a deadline that killed a script and a firewall reload may
have left them, and the cleanup takes away all of them, however often a rule was
installed.

**ComponentsProofs.**

| theorem | says | holds of |
|---|---|---|
| `TypeInvariant` | `[]TypeOK` | every behaviour |
| `CoresStayWhole` | `[]CoresWhole` | flavors, while no two downloads have fetched them at once |
| `AnswersKept` | `[]AnswersHold` | commands that ran alone, of any parts, whatever happened before |

They hold for any number of commands that overlap, any requests, mirrors, releases
and mishaps. `Stage` bounds what a command can know at each of its steps. For the
cores the part of `Inv` that matters is `Fetches`, of each flavor that no two have
fetched together: one download at most has, or has had, the temporary file
(`Trying`: it does until its deferred remove, also between two mirrors), and while
it writes and renames, the bytes there are its own. Only `OpenTemp` can
make it two, and that is when the flavor becomes shared; what others still have
open after a crash or a remove does no harm because a file's writer is the one
that opened it last. For the answers `Story` follows a command that is alone
step by step: which flavors it has downloaded, whether the cache says nothing that
is not so once `ClearCache` has run and not failed, which files of an archive and which targets
of a reset it is through with. What it has done before stays so because of the
order of the parts (`Asked`): nothing that follows the cores writes cores, and the
refresh of a later part writes the cache truly or warns (`KeptStays`). Where the old
cache survives its removal, the answer is either preceded by a write that replaced
it or carries the warning: there is no third way. Assets and a reset
are never followed or preceded by anything.

`TypeOK` is stated in this module: no run checks it besides.

**Model-checked only.** `CallsReturn` of `PatchTransaction` and of
`RuntimeLifecycle`: liveness under fairness is out of the prover's reach. Every other
property that a run checks is stated by a theorem.

## 5. What the code does not promise

The properties above are stated with the conditions under which they hold. Where
a condition is there because the code does something else otherwise, it is
listed here, with what else was seen in the source while it was modelled. What
TLC shows when a condition is lifted is marked (TLC).

*Patches.*
- Generations start over with the server: an apply by a reviewed generation can
  apply another draft after a restart (TLC: `AppliesWhatWasReviewed` with a
  crash).
- The result of an apply says `atomic: true`; a death between the two renames of
  an exchange of order ids leaves a registry that does not load (TLC:
  `LoadsWhenIdle` with a crash).
- A draft that began first and ends last replaces the newer one in the slot,
  where `README.md:437` says that a new draft replaces the previous.
- A draft with two operations on one patch is answered as valid, and its apply
  refuses it as stale: hence the exception in `DraftsApply`.
- A reorder is accepted that names the patch itself as its neighbour, and puts it
  half way from where it was: `PlacedAsAsked` is about other neighbours. With two
  upserts of one new patch in one draft the second keeps the first one's order id.
- A patch of a template without a number of its own gets an order id from its
  position in the manifest, which may be the number that another one has: the
  import then fails to load what it wrote, and `LoadsUnlessCollision` is about
  templates for which this is not so.
- A reorder with only `after_patch_id` takes `0010.000000` as its open end,
  which is below nearly every order id there is: without `before_patch_id` there
  is "no order_id space". The next user order id past 9999 is refused.
- `ImportPolicyTemplate` does not take `applyMu`. Without reset or refresh, a
  template patch that was retitled stays in two files of one id; a refresh
  enables patches again that a user has removed, can collide with a user's patch
  of the same id or order, and refuses a source it does not know after it has
  removed files. A torn file is repaired only by a reset.

*Runtime.*
- Two `run_runtime` calls at once start two cores (TLC: `OneRuntime` with two
  starters).
- The bytes Mihomo reloads, and those `core -t` tests, are read after their hash
  was taken, where `docs/mihomo-api-hot-reload-plan.md:208` asks for the exact
  bytes (TLC: `RunsTestedConfig` and `VerdictsAreTrue` with `BusyEdits`).
- `run_runtime` may answer "already running" about a validation's `core -v`, or
  after a stop that timed out about a process that is going down.
- An unforced stop can take the runtime from a takeover that was completed after
  the guard looked, from one whose status could not be read (`takeoverErr == nil &&
  takeover.Effective`), and from the rules of one that has lost a part: the first two
  are excused in `StopSparesTakeover` (`unguarded`), the third is no whole takeover.
- `docs/mihomo-api-hot-reload-plan.md` (about line 260) says that
  `restart_runtime` must not run `mihomo -t`, and a process restart validates.

*Subscriptions and the configuration.*
- Refreshes share the name of each `.tmp` file and nothing serialises them, so
  that one may rename into place what another is still encoding: two properties
  of `SubscriptionRefresh` are about refreshes that do not overlap. The
  selection's temporary file has one name too.
- `docs/subscription-inputs.md:12` says that accepted input is stored and
  merged; a refresh of several sources of which one fails stores the others and
  merges nothing. The source list is written without a temporary file.
- A refresh that evaluates while an apply commits writes the older intent back,
  until the next render. After a refresh that changed the config by itself
  `config_status` reports that a render is needed. Artifacts are not among the
  files it compares.
- `Resolve` writes into the maps of the config it is given, so that the proxy
  group impacts after a refresh compare a map with itself, and the intent that
  `config_patch_apply` commits, or a refresh writes back, carries the
  `selected_nodes` of its time, which the one a render compiles does not.
- The fallback target, and an optional group without nodes that a rule names,
  may be undefined in the output: hence the exceptions in `RulesReachGroups`.
- `docs/rule-model.md:269` speaks of atomic generated config rendering;
  `configrender.Render` writes with `os.WriteFile`.
- `config_configure` assigns the server's paths while other handlers read them,
  a data race that is not modelled.

*Tasks.* `appendTaskLog` says nothing of a line it could not write, so that a task
may end without its outcome in its log: `dropped` in `OutcomeLogged` and
`DiagnosticsTold`. The server's `main` passes a context that never ends, so that the drain
is not run on a signal. The retention can delete the status of a task that still
runs when enough newer ones began. Rotated logs and diagnostics are never
deleted: `FilesBounded` does not count them. A server that dies leaves status
files that say "running".

*Plans.* Of two plans made from one intent, the second apply drops the first
one's overlay. Two renders in one second may share a directory. A plan whose
config is lost is rebuilt from its summary, without the base intent and
`Optional`, and fails for groups given by a match. Backups of one plan in one
second overwrite each other. Copies of a rollback are not atomic. The output
that was reviewed is not compared with what is applied, and the nodes of its groups
are those of the time of the apply (`SelectedNodes` in `ReviewedIsApplied`). Neither entry point of
`configplan` has a caller outside the tests at this commit.

*Components.* Two downloads of a core share `<core>.download` (hence `shared` in
`CoresWhole`). The dashboard's fallback to the API finds the directory that the
first attempt made, so that it cannot succeed without force; an update removes the
old dashboard before it fetches. The version cache is found by the core's path
only: a plain `core download`, an update whose second core fails and a crash leave
it stale, and so does a refresh whose removal of the old cache fails unnoticed
(`core_cache.go:42`) and whose write then fails, which is a warning. Assets are
unpacked in place, so that a failed update leaves a mix of releases that `Status`
calls installed. A reset checks for a runtime once, before its plan. A desired
state that switches the core and starts the runtime starts the old core; one that
fails part way reports none of the changes it made; one whose takeover failed
reports "Desired state applied.".

*Takeover.* `stop_runtime`'s guard asks whether the takeover is effective by
every check, so that one that lost its route is no obstacle although its rules
remain (`docs/mcp.md:87`); the command line's stop has no guard. A dnsmasq
domain that is unset makes every apply fail under `set -eu`. A failed
verification leaves the rules installed, and so does the deadline of 75 seconds,
which runs no trap. Overlapping applies install rules twice, until the next
script. The chain `nat_output` is emptied but stays.

## 6. What is not modelled, and the plan

Not modelled, and why:

- *In modelled components:* the read-modify-write of the validation cache and its
  32 entries (one step; a lost entry costs a validation), `PromoteConfig`; the
  foreground run and the display of controller endpoints; the IPv6 commands of
  the takeover, whose failures the scripts ignore; the stdio transport and the
  JSON-RPC encoding; merging of the runtime profile's other sections; fetching and
  indexing of rule packs.
- *Components:* proxy URIs and `subdownload` (conversion of data and one fetch),
  file tools (one guarded read-modify-write), the controller client (no state of
  its own), inspection and reports (read-only).

Left to do, in this order:

1. `ConfigPipeline` as an implementation of an abstract configuration that is a
   function of the registry, for behaviours without overlapping calls.
2. The validation cache as a module of its own.

Liveness and `ENABLED` are left to TLC.
