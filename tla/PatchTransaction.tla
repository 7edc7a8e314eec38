-------------------------- MODULE PatchTransaction --------------------------
(***************************************************************************)
(* The patch registry and the two tools that change it through review:     *)
(* config_patch_draft, which previews an operation and leaves the result   *)
(* in the server's one in-memory slot, and config_patch_apply, which takes *)
(* a reviewed draft, checks that the registry is still the one it was      *)
(* drafted on, rebuilds the artifacts and replaces the files one rename at *)
(* a time, with backups to roll back to.                                   *)
(*                                                                         *)
(* Sources: internal/configpatch/patch.go (Load, Draft, Apply,             *)
(* backupTargets, commitTargets, rollbackBackups, removeUnbackedTargets)   *)
(* and internal/mcp/server.go (callConfigPatchDraft, callConfigPatchApply, *)
(* the draft slot).                                                        *)
(*                                                                         *)
(* Abstractions.  A patch is its id, the slug of its title (the two make   *)
(* its file name), its order_id (none when it is tombstoned) and a         *)
(* revision standing for everything else in the file.  A hash is the value *)
(* it is the hash of.  An operation list is its net effect: the patches it *)
(* names and what it leaves of them.  The three artifacts hold the         *)
(* registry content they were built from.                                  *)
(***************************************************************************)
EXTENDS Naturals, FiniteSets

CONSTANTS
    Clients,      \* concurrent MCP requests: one HTTP handler or task each
    PatchIds,     \* patch ids
    Slugs,        \* title slugs
    Orders,       \* order ids
    Revs,         \* patch contents
    Record,       \* the patch files agents write
    Requests,     \* the operation lists agents ask for
    Installed,    \* the registries a server may find when it starts
    Nobody,       \* applyMu is free
    NoDraft,      \* no draft: the nil slot, or nothing in hand
    MaxDrafts,    \* bound: drafts per server process
    MaxCrashes,   \* bound: process deaths
    IOFaults      \* whether a rename, remove or write of an apply may fail

FileNames == [id : PatchIds, slug : Slugs]
Artifacts == {"intent", "selection", "output"}

NoOrder == "tombstoned"

(* The patches a list of operations names, and the records it leaves of    *)
(* them: none of a removed user patch, a tombstone of a template patch.    *)
Op == [names : SUBSET PatchIds, put : SUBSET Record]
Draft == [gen : 1 .. MaxDrafts, base : SUBSET Record, op : Op]
Slot == [draft : Draft, stale : BOOLEAN]

ASSUME BoundsAssumption ==
    /\ MaxDrafts \in Nat \ {0}
    /\ MaxCrashes \in Nat
    /\ IOFaults \in BOOLEAN
ASSUME RecordAssumption ==
    Record \subseteq [id : PatchIds, slug : Slugs, order : Orders \cup {NoOrder}, rev : Revs]
ASSUME RequestAssumption ==
    /\ Requests \subseteq Op
    /\ \A op \in Requests : \A r \in op.put : r.id \in op.names
ASSUME SentinelAssumption ==
    /\ Nobody \notin Clients
    /\ NoDraft \notin Draft
    /\ NoDraft \notin Slot

VARIABLES
    patches,      \* the patches/*.json files, as the set of records in them
    artifacts,    \* what each of the three built files was built from
    generation,   \* configPatchDraftGen
    slot,         \* configPatchDraftSlot
    reviewed,     \* drafts an agent has been shown (outlives the server)
    lock,         \* who holds applyMu
    phase,        \* where each client's call is
    draft,        \* the draft each client's call works on
    asked,        \* the reviewed draft the agent asked that call to apply
    txn,          \* local state of the Apply that holds applyMu
    crashes

registryVars == <<patches, artifacts>>
slotVars == <<generation, slot, reviewed>>
vars == <<patches, artifacts, generation, slot, reviewed, lock, phase, draft,
          asked, txn, crashes>>

(* Phases of a call that hold applyMu.                                     *)
Locked == {"building", "backup", "commit", "restore"}
Phases == Locked \cup {"idle", "drafting", "storing", "waiting", "marking",
                       "clearing"}

-----------------------------------------------------------------------------
(* The registry as files.                                                  *)

FileName(r) == [id |-> r.id, slug |-> r.slug]
FilesOf(registry) == {FileName(r) : r \in registry}

(* os.Rename or os.WriteFile of a patch onto its canonical file name.      *)
PutFile(registry, r) ==
    {x \in registry : FileName(x) # FileName(r)} \cup {r}

RemoveFile(registry, r) == {x \in registry : FileName(x) # FileName(r)}

(* validateRecords: no patch_id in two files, no order_id used twice.      *)
OneFilePerPatch(registry) ==
    \A r, s \in registry : r.id = s.id => r = s

OneOrderPerPatch(registry) ==
    \A r, s \in registry : r.order = s.order /\ r.order # NoOrder => r = s

Loads(registry) == OneFilePerPatch(registry) /\ OneOrderPerPatch(registry)

(* previewOperations: what the operations make of a registry ...           *)
Preview(registry, op) == {r \in registry : r.id \notin op.names} \cup op.put

(* ... and whether it accepts them: a removed patch has to exist, and the  *)
(* outcome has to be a valid registry.                                     *)
Accepts(registry, op) ==
    /\ \A id \in op.names :
          \/ \E r \in op.put : r.id = id
          \/ \E r \in registry : r.id = id
    /\ Loads(Preview(registry, op))

ASSUME InstalledAssumption ==
    /\ Installed \subseteq SUBSET Record
    /\ \A registry \in Installed : Loads(registry)

(* An artifact file: whether it exists, and what it was built from.        *)
Build == [exists : BOOLEAN, of : SUBSET Record]
NoBuild == [exists |-> FALSE, of |-> {}]
BuiltFrom(registry) == [exists |-> TRUE, of |-> registry]

Txn == [removes : SUBSET Record, writes : SUBSET Record,
        builds : SUBSET Artifacts, targets : SUBSET FileNames,
        built : SUBSET Artifacts, backup : SUBSET Record,
        backupArtifacts : [Artifacts -> Build],
        restore : SUBSET Record, restoreArtifacts : SUBSET Artifacts]

NoTxn == [removes |-> {}, writes |-> {}, builds |-> {}, targets |-> {},
          built |-> {}, backup |-> {}, backupArtifacts |-> [a \in Artifacts |-> NoBuild],
          restore |-> {}, restoreArtifacts |-> {}]

(* Order of the artifact renames: after every patch, intent, selection,    *)
(* output.                                                                 *)
NextArtifact(builds) ==
    IF "intent" \in builds THEN "intent"
    ELSE IF "selection" \in builds THEN "selection" ELSE "output"

-----------------------------------------------------------------------------
(* A workspace nobody has configured, or one whose registry was written by *)
(* earlier imports and applies and built, or imported with no subscription *)
(* to build for (ImportPolicyTemplate then writes the intent only).        *)
Init ==
    /\ patches \in Installed
    /\ \E built \in {{}, {"intent"}, Artifacts} :
          /\ built = {} <=> patches = {}
          /\ artifacts = [a \in Artifacts |->
                 IF a \in built THEN BuiltFrom(patches) ELSE NoBuild]
    /\ generation = 0
    /\ slot = NoDraft
    /\ reviewed = {}
    /\ lock = Nobody
    /\ phase = [c \in Clients |-> "idle"]
    /\ draft = [c \in Clients |-> NoDraft]
    /\ asked = [c \in Clients |-> NoDraft]
    /\ txn = NoTxn
    /\ crashes = 0

Goto(c, p) == phase' = [phase EXCEPT ![c] = p]

(* The call returns to its caller.                                         *)
Return(c) ==
    /\ Goto(c, "idle")
    /\ draft' = [draft EXCEPT ![c] = NoDraft]
    /\ asked' = [asked EXCEPT ![c] = NoDraft]

(* The deferred applyMu.Unlock.                                            *)
Unlock ==
    /\ lock' = Nobody
    /\ txn' = NoTxn

-----------------------------------------------------------------------------
(* config_patch_draft                                                      *)

(* Seeded fault: the draft gets the generation read before the increment.  *)
BugDraftBegin(c) ==
    /\ phase[c] = "idle"
    /\ generation < MaxDrafts
    /\ generation' = generation + 1
    /\ \E op \in Requests :
          draft' = [draft EXCEPT ![c] = [gen |-> generation, base |-> {}, op |-> op]]
    /\ Goto(c, "drafting")
    /\ UNCHANGED <<registryVars, slot, reviewed, lock, asked, txn, crashes>>

(* nextConfigPatchDraftGeneration, before anything is read.                *)
DraftBegin(c) ==
    /\ phase[c] = "idle"
    /\ generation < MaxDrafts
    /\ generation' = generation + 1
    /\ \E op \in Requests :
          draft' = [draft EXCEPT ![c] =
                       [gen |-> generation + 1, base |-> {}, op |-> op]]
    /\ Goto(c, "drafting")
    /\ UNCHANGED <<registryVars, slot, reviewed, lock, asked, txn, crashes>>

(* configpatch.Draft: load the registry, preview the operation on it.  It  *)
(* does not take applyMu, so it may read a registry in the middle of a     *)
(* commit.                                                                 *)
DraftPreview(c) ==
    /\ phase[c] = "drafting"
    /\ Loads(patches)
    /\ Accepts(patches, draft[c].op)
    /\ draft' = [draft EXCEPT ![c].base = patches]
    /\ Goto(c, "storing")
    /\ UNCHANGED <<registryVars, slotVars, lock, asked, txn, crashes>>

(* Load, preview, compile or the trial build refuses: nothing is stored,   *)
(* the generation stays used.                                              *)
DraftRefused(c) ==
    /\ phase[c] = "drafting"
    /\ Return(c)
    /\ UNCHANGED <<registryVars, slotVars, lock, txn, crashes>>

(* storeConfigPatchDraft, and the result goes to the agent.                *)
DraftStore(c) ==
    /\ phase[c] = "storing"
    /\ slot' = [draft |-> draft[c], stale |-> FALSE]
    /\ reviewed' = reviewed \cup {draft[c]}
    /\ Return(c)
    /\ UNCHANGED <<registryVars, generation, lock, txn, crashes>>

-----------------------------------------------------------------------------
(* config_patch_apply                                                      *)

(* Seeded fault: the generation is not compared with the slot's.           *)
BugApplyCurrent(c) ==
    /\ phase[c] = "idle"
    /\ slot # NoDraft
    /\ ~slot.stale
    /\ \E d \in reviewed : asked' = [asked EXCEPT ![c] = d]
    /\ draft' = [draft EXCEPT ![c] = slot.draft]
    /\ Goto(c, "waiting")
    /\ UNCHANGED <<registryVars, slotVars, lock, txn, crashes>>

(* use_current_draft with a reviewed generation: currentConfigPatchDraft   *)
(* copies the slot out.                                                    *)
ApplyCurrent(c) ==
    /\ phase[c] = "idle"
    /\ slot # NoDraft
    /\ ~slot.stale
    /\ \E d \in reviewed :
          /\ d.gen = slot.draft.gen
          /\ asked' = [asked EXCEPT ![c] = d]
    /\ draft' = [draft EXCEPT ![c] = slot.draft]
    /\ Goto(c, "waiting")
    /\ UNCHANGED <<registryVars, slotVars, lock, txn, crashes>>

(* explicit_apply_args: operations and base hashes come from the agent.    *)
ApplyExplicit(c) ==
    /\ phase[c] = "idle"
    /\ \E d \in reviewed : draft' = [draft EXCEPT ![c] = d]
    /\ Goto(c, "waiting")
    /\ UNCHANGED <<registryVars, slotVars, lock, asked, txn, crashes>>

ByCurrent(c) == asked[c] # NoDraft

(* Seeded fault: the base registry hash is not checked.                    *)
BugApplyLock(c) ==
    /\ phase[c] = "waiting"
    /\ lock = Nobody
    /\ Loads(patches)
    /\ lock' = c
    /\ Goto(c, "building")
    /\ UNCHANGED <<registryVars, slotVars, draft, asked, txn, crashes>>

(* applyMu, then Load and the registry hash match the draft's base.        *)
ApplyLock(c) ==
    /\ phase[c] = "waiting"
    /\ lock = Nobody
    /\ Loads(patches)
    /\ patches = draft[c].base
    /\ lock' = c
    /\ Goto(c, "building")
    /\ UNCHANGED <<registryVars, slotVars, draft, asked, txn, crashes>>

(* "stale patch registry": the slot is marked afterwards, outside applyMu. *)
ApplyStale(c) ==
    /\ phase[c] = "waiting"
    /\ lock = Nobody
    /\ Loads(patches)
    /\ patches # draft[c].base
    /\ IF ByCurrent(c)
         THEN Goto(c, "marking") /\ UNCHANGED <<draft, asked>>
         ELSE Return(c)
    /\ UNCHANGED <<registryVars, slotVars, lock, txn, crashes>>

(* Load fails: the error does not mention "stale".                         *)
ApplyUnloadable(c) ==
    /\ phase[c] = "waiting"
    /\ lock = Nobody
    /\ ~Loads(patches)
    /\ Return(c)
    /\ UNCHANGED <<registryVars, slotVars, lock, txn, crashes>>

(* compileRecords and buildArtifacts into a temporary directory.           *)
ApplyBuild(c) ==
    /\ phase[c] = "building"
    /\ Goto(c, "backup")
    /\ UNCHANGED <<registryVars, slotVars, lock, draft, asked, txn, crashes>>

(* Seeded fault: a refusal returns without unlocking applyMu.              *)
BugApplyRefused(c) ==
    /\ phase[c] \in {"building", "backup"}
    /\ Return(c)
    /\ UNCHANGED <<registryVars, slotVars, lock, txn, crashes>>

(* The overlay conflicts, a target does not resolve, mihomo -t refuses, or *)
(* a backup cannot be written: nothing has been replaced yet.              *)
ApplyRefused(c) ==
    /\ phase[c] \in {"building", "backup"}
    /\ Return(c)
    /\ Unlock
    /\ UNCHANGED <<registryVars, slotVars, crashes>>

(* backupTargets reads what is on disk now; commitTargets then stages the  *)
(* new files and knows what it has to remove and rename.                   *)
ApplyBackup(c) ==
    LET pending == Preview(draft[c].base, draft[c].op)
        removes == {r \in draft[c].base : FileName(r) \notin FilesOf(pending)}
        backup  == {r \in patches :
                       FileName(r) \in FilesOf(draft[c].base \cup pending)}
    IN  /\ phase[c] = "backup"
        /\ txn' = [NoTxn EXCEPT !.removes = removes,
                                !.writes = pending,
                                !.builds = Artifacts,
                                !.backup = backup,
                                !.backupArtifacts = artifacts]
        /\ Goto(c, "commit")
        /\ UNCHANGED <<registryVars, slotVars, lock, draft, asked, crashes>>

(* A file of a removed or retitled patch goes first.                       *)
CommitRemove(c) ==
    /\ phase[c] = "commit"
    /\ \E r \in txn.removes :
          /\ patches' = RemoveFile(patches, r)
          /\ txn' = [txn EXCEPT !.removes = @ \ {r},
                                !.targets = @ \cup {FileName(r)}]
    /\ UNCHANGED <<artifacts, slotVars, lock, phase, draft, asked, crashes>>

(* Seeded fault: the new files are put in place before old ones are        *)
(* removed.                                                                *)
BugCommitPatch(c) ==
    /\ phase[c] = "commit"
    /\ \E r \in txn.writes :
          /\ patches' = PutFile(patches, r)
          /\ txn' = [txn EXCEPT !.writes = @ \ {r},
                                !.targets = @ \cup {FileName(r)}]
    /\ UNCHANGED <<artifacts, slotVars, lock, phase, draft, asked, crashes>>

(* Then every patch of the new registry is renamed into place ...          *)
CommitPatch(c) ==
    /\ phase[c] = "commit"
    /\ txn.removes = {}
    /\ \E r \in txn.writes :
          /\ patches' = PutFile(patches, r)
          /\ txn' = [txn EXCEPT !.writes = @ \ {r},
                                !.targets = @ \cup {FileName(r)}]
    /\ UNCHANGED <<artifacts, slotVars, lock, phase, draft, asked, crashes>>

(* ... and last the three artifacts built from it.                         *)
CommitArtifact(c) ==
    LET a == NextArtifact(txn.builds)
    IN  /\ phase[c] = "commit"
        /\ txn.removes = {} /\ txn.writes = {} /\ txn.builds # {}
        /\ artifacts' = [artifacts EXCEPT ![a] = BuiltFrom(Preview(draft[c].base, draft[c].op))]
        /\ txn' = [txn EXCEPT !.builds = @ \ {a}, !.built = @ \cup {a}]
        /\ UNCHANGED <<patches, slotVars, lock, phase, draft, asked, crashes>>

(* Apply returns Applied; a draft taken from the slot is cleared next.     *)
CommitDone(c) ==
    /\ phase[c] = "commit"
    /\ txn.removes = {} /\ txn.writes = {} /\ txn.builds = {}
    /\ Unlock
    /\ IF ByCurrent(c)
         THEN Goto(c, "clearing") /\ UNCHANGED <<draft, asked>>
         ELSE Return(c)
    /\ UNCHANGED <<registryVars, slotVars, crashes>>

(* Seeded fault: only the artifacts are restored.                          *)
BugCommitFault(c) ==
    /\ IOFaults
    /\ phase[c] = "commit"
    /\ txn' = [txn EXCEPT !.restoreArtifacts =
                              {a \in Artifacts : txn.backupArtifacts[a].exists}]
    /\ Goto(c, "restore")
    /\ UNCHANGED <<registryVars, slotVars, lock, draft, asked, crashes>>

(* Staging, a remove, a rename or a directory sync fails.                  *)
CommitFault(c) ==
    /\ IOFaults
    /\ phase[c] = "commit"
    /\ txn' = [txn EXCEPT !.restore = txn.backup,
                          !.restoreArtifacts =
                              {a \in Artifacts : txn.backupArtifacts[a].exists}]
    /\ Goto(c, "restore")
    /\ UNCHANGED <<registryVars, slotVars, lock, draft, asked, crashes>>

(* rollbackBackups writes the saved files back one by one.                 *)
RollbackFile(c) ==
    /\ phase[c] = "restore"
    /\ \/ \E r \in txn.restore :
             /\ patches' = PutFile(patches, r)
             /\ txn' = [txn EXCEPT !.restore = @ \ {r}]
             /\ UNCHANGED artifacts
       \/ \E a \in txn.restoreArtifacts :
             /\ artifacts' = [artifacts EXCEPT ![a] = txn.backupArtifacts[a]]
             /\ txn' = [txn EXCEPT !.restoreArtifacts = @ \ {a}]
             /\ UNCHANGED patches
    /\ UNCHANGED <<slotVars, lock, phase, draft, asked, crashes>>

(* Seeded fault: what was created stays.                                   *)
BugRollbackKeeps(c) ==
    /\ phase[c] = "restore"
    /\ txn.restore = {} /\ txn.restoreArtifacts = {}
    /\ Return(c)
    /\ Unlock
    /\ UNCHANGED <<registryVars, slotVars, crashes>>

(* Seeded fault: every target is removed, backed up or not.                *)
BugRollbackDone(c) ==
    /\ phase[c] = "restore"
    /\ txn.restore = {} /\ txn.restoreArtifacts = {}
    /\ patches' = {r \in patches : FileName(r) \notin txn.targets}
    /\ artifacts' = txn.backupArtifacts
    /\ Return(c)
    /\ Unlock
    /\ UNCHANGED <<slotVars, crashes>>

(* removeUnbackedTargets: what was created and has no backup is deleted.   *)
RollbackDone(c) ==
    LET unbacked == txn.targets \ FilesOf(txn.backup)
    IN  /\ phase[c] = "restore"
        /\ txn.restore = {} /\ txn.restoreArtifacts = {}
        /\ patches' = {r \in patches : FileName(r) \notin unbacked}
        /\ artifacts' = [a \in Artifacts |->
               IF a \in txn.built /\ ~txn.backupArtifacts[a].exists
                 THEN NoBuild ELSE artifacts[a]]
        /\ Return(c)
        /\ Unlock
        /\ UNCHANGED <<slotVars, crashes>>

HoldsGeneration(g) == slot # NoDraft /\ slot.draft.gen = g

(* markConfigPatchDraftStale                                               *)
MarkStale(c) ==
    /\ phase[c] = "marking"
    /\ slot' = IF HoldsGeneration(draft[c].gen)
                 THEN [slot EXCEPT !.stale = TRUE] ELSE slot
    /\ Return(c)
    /\ UNCHANGED <<registryVars, generation, reviewed, lock, txn, crashes>>

(* clearConfigPatchDraft                                                   *)
ClearDraft(c) ==
    /\ phase[c] = "clearing"
    /\ slot' = IF HoldsGeneration(draft[c].gen) THEN NoDraft ELSE slot
    /\ Return(c)
    /\ UNCHANGED <<registryVars, generation, reviewed, lock, txn, crashes>>

-----------------------------------------------------------------------------
(* The server process dies, or is stopped before its calls return, and is  *)
(* started again: memory starts over, the files stay, and agents keep what *)
(* they were shown.                                                        *)
Crash ==
    /\ crashes < MaxCrashes
    /\ crashes' = crashes + 1
    /\ generation' = 0
    /\ slot' = NoDraft
    /\ lock' = Nobody
    /\ phase' = [c \in Clients |-> "idle"]
    /\ draft' = [c \in Clients |-> NoDraft]
    /\ asked' = [c \in Clients |-> NoDraft]
    /\ txn' = NoTxn
    /\ UNCHANGED <<registryVars, reviewed>>

(* Steps the server takes by itself once a call is under way.              *)
DraftStep(c) == DraftPreview(c) \/ DraftRefused(c) \/ DraftStore(c)
LockStep(c) == ApplyLock(c) \/ ApplyStale(c) \/ ApplyUnloadable(c)
CommitStep(c) == CommitRemove(c) \/ CommitPatch(c) \/ CommitArtifact(c) \/ CommitDone(c)
RollbackStep(c) == RollbackFile(c) \/ RollbackDone(c)
HeldStep(c) == ApplyBuild(c) \/ ApplyRefused(c) \/ ApplyBackup(c)
                 \/ CommitStep(c) \/ RollbackStep(c)
SlotStep(c) == MarkStale(c) \/ ClearDraft(c)
CallStep(c) == DraftStep(c) \/ HeldStep(c) \/ SlotStep(c)

Next ==
    \/ \E c \in Clients :
          \/ DraftBegin(c) \/ ApplyCurrent(c) \/ ApplyExplicit(c)
          \/ DraftStep(c) \/ LockStep(c) \/ HeldStep(c) \/ SlotStep(c)
          \/ CommitFault(c)
    \/ Crash

Spec == Init /\ [][Next]_vars

(* A handler that can move does; sync.Mutex hands itself to a waiter that  *)
(* has waited long enough (starvation mode), hence SF on the lock.         *)
FairSpec ==
    /\ Spec
    /\ \A c \in Clients : WF_vars(CallStep(c)) /\ SF_vars(LockStep(c))
-----------------------------------------------------------------------------
(* Properties.                                                             *)

(* Every variable holds a value of its kind.                               *)
TypeOK ==
    /\ patches \subseteq Record
    /\ artifacts \in [Artifacts -> Build]
    /\ generation \in 0 .. MaxDrafts
    /\ slot \in Slot \cup {NoDraft}
    /\ reviewed \subseteq Draft
    /\ lock \in Clients \cup {Nobody}
    /\ phase \in [Clients -> Phases]
    /\ draft \in [Clients -> Draft \cup {NoDraft}]
    /\ asked \in [Clients -> Draft \cup {NoDraft}]
    /\ txn \in Txn
    /\ crashes \in 0 .. MaxCrashes

(* From the moment an apply has checked the registry hash until it starts  *)
(* to replace files, the registry is the one its draft was reviewed on:    *)
(* no other apply gets in between (Apply, registry.Hash against            *)
(* opts.BaseRegistryHash).                                                 *)
CommitsOnReviewedBase ==
    \A c \in Clients :
        phase[c] \in {"building", "backup"} => patches = draft[c].base

(* When an apply reports success the files on disk are exactly the         *)
(* registry that was previewed, though they were replaced one by one.      *)
CommitComplete ==
    \A c \in Clients :
        /\ phase[c] = "commit"
        /\ txn.removes = {} /\ txn.writes = {}
        => patches = Preview(draft[c].base, draft[c].op)

(* use_current_draft applies what the agent reviewed under that            *)
(* generation, and nothing else that has the same number.                  *)
AppliesWhatWasReviewed ==
    \A c \in Clients :
        phase[c] \in Locked /\ ByCurrent(c) => draft[c] = asked[c]

(* Whatever happens (a commit under way, a rollback, a crash between two   *)
(* renames) a patch the operations do not name keeps its file and its      *)
(* content.                                                                *)
UntouchedPatchesSurvive ==
    [][\A r \in patches : r \notin patches' =>
          \E c \in Clients : lock = c /\ r.id \in draft[c].op.names]_vars

(* With applyMu free the registry can be loaded: every commit and every    *)
(* rollback ends in a registry Load accepts.                               *)
LoadsWhenIdle == lock = Nobody => Loads(patches)

(* With applyMu free no patch is left under two file names: a retitled one *)
(* loses its old file before it gets its new one, so that not even a crash *)
(* between the two leaves both.                                            *)
OneFileWhenIdle == lock = Nobody => OneFilePerPatch(patches)

(* The registry as other clients should see it: a commit or a rollback     *)
(* that is under way has not happened.                                     *)
CommittedRegistry ==
    IF lock \in Clients /\ phase[lock] \in {"commit", "restore"}
      THEN draft[lock].base ELSE patches

(* File by file, with faults and rollbacks, the applies are atomic         *)
(* operations on the registry each was reviewed on.                        *)
Atomic == INSTANCE AtomicRegistry WITH
    Patches <- Record, Operations <- Requests, Result <- Preview,
    registry <- CommittedRegistry,
    proposals <- {<<d.base, d.op>> : d \in reviewed}
AppliesAtomically == Atomic!Spec

(* Every draft or apply call returns.                                      *)
CallsReturn == \A c \in Clients : phase[c] # "idle" ~> phase[c] = "idle"
=============================================================================
