------------------------ MODULE PatchRegistryProofs ------------------------
(***************************************************************************)
(* Proofs about the two modules of the patch registry, which have no name  *)
(* in common: PatchTransaction, for any number of clients, patches and     *)
(* drafts, with faults, rollbacks and crashes, and PatchOperations, for    *)
(* any lists of operations, registries, templates and interruptions.       *)
(***************************************************************************)
EXTENDS PatchTransaction, PatchOperations, FiniteSetTheorems, WellFoundedInduction, TLAPS

USE DEF registryVars, slotVars, Goto, Return, Unlock

LEMMA NoTxnType == NoTxn \in Txn
  BY DEF NoTxn, Txn, Build, NoBuild, Artifacts

LEMMA RequestType ==
    ASSUME NEW op \in Requests
    PROVE  op \in Op
  BY RequestAssumption

LEMMA PreviewType ==
    ASSUME NEW base \in SUBSET Record, NEW op \in Op
    PROVE  Preview(base, op) \in SUBSET Record
  BY DEF Preview, Op

LEMMA FileNameType ==
    ASSUME NEW r \in Record
    PROVE  FileName(r) \in FileNames
  BY RecordAssumption DEF FileName, FileNames

(* A call that is under way has a draft in hand.                           *)
DraftInHand == \A c \in Clients : phase[c] # "idle" => draft[c] \in Draft

Types == TypeOK /\ DraftInHand

\* Every variable keeps its type, and a call of configpatch that is under way has
\* a draft in hand.
THEOREM TypeCorrect == Spec => []Types
  <1>1. Init => Types
    BY NoTxnType, BoundsAssumption, InstalledAssumption
    DEF Init, Types, TypeOK, DraftInHand, Phases, Build, NoBuild, BuiltFrom
  <1>2. Types /\ [Next]_vars => Types'
    <2> SUFFICES ASSUME Types, [Next]_vars PROVE Types'
      OBVIOUS
    <2> USE NoTxnType, BoundsAssumption DEF Types, TypeOK, DraftInHand
    <2>1. ASSUME NEW c \in Clients, DraftBegin(c) PROVE Types'
      BY <2>1, RequestType DEF DraftBegin, Draft, Phases
    <2>2. ASSUME NEW c \in Clients, ApplyCurrent(c) PROVE Types'
      BY <2>2, SentinelAssumption DEF ApplyCurrent, Slot, Phases
    <2>3. ASSUME NEW c \in Clients, ApplyExplicit(c) PROVE Types'
      BY <2>3 DEF ApplyExplicit, Phases
    <2>4. ASSUME NEW c \in Clients, DraftStep(c) PROVE Types'
      <3>1. CASE DraftPreview(c)
        BY <3>1 DEF DraftPreview, Draft, Phases
      <3>2. CASE DraftRefused(c)
        BY <3>2 DEF DraftRefused, Phases
      <3>3. CASE DraftStore(c)
        BY <3>3 DEF DraftStore, Phases, Slot
      <3> QED BY <2>4, <3>1, <3>2, <3>3 DEF DraftStep
    <2>5. ASSUME NEW c \in Clients, LockStep(c) PROVE Types'
      BY <2>5 DEF LockStep, ApplyLock, ApplyStale, ApplyUnloadable, Phases, Locked
    <2>6. ASSUME NEW c \in Clients, HeldStep(c) PROVE Types'
      <3>1. CASE ApplyBuild(c) \/ ApplyRefused(c)
        BY <3>1 DEF ApplyBuild, ApplyRefused, Phases, Locked
      <3>2. CASE ApplyBackup(c)
        BY <3>2, PreviewType, ZenonT(60) DEF ApplyBackup, Txn, NoTxn, Draft, Phases, Locked
      <3>3. CASE CommitRemove(c)
        <4>1. PICK r \in txn.removes :
                /\ patches' = RemoveFile(patches, r)
                /\ txn' = [txn EXCEPT !.removes = @ \ {r},
                                      !.targets = @ \cup {FileName(r)}]
          BY <3>3 DEF CommitRemove
        <4>2. FileName(r) \in FileNames
          BY FileNameType DEF Txn
        <4>3. txn' \in Txn
          BY <4>1, <4>2 DEF Txn
        <4>4. patches' \subseteq Record
          BY <4>1 DEF RemoveFile
        <4> QED BY <3>3, <4>3, <4>4 DEF CommitRemove
      <3>4. CASE CommitPatch(c)
        <4>1. PICK r \in txn.writes :
                /\ patches' = PutFile(patches, r)
                /\ txn' = [txn EXCEPT !.writes = @ \ {r},
                                      !.targets = @ \cup {FileName(r)}]
          BY <3>4 DEF CommitPatch
        <4>2. FileName(r) \in FileNames
          BY FileNameType DEF Txn
        <4>3. txn' \in Txn
          BY <4>1, <4>2 DEF Txn
        <4>4. patches' \subseteq Record
          BY <4>1 DEF PutFile, Txn
        <4> QED BY <3>4, <4>3, <4>4 DEF CommitPatch
      <3>5. CASE CommitArtifact(c)
        BY <3>5, PreviewType, ZenonT(60) DEF CommitArtifact, Txn, NextArtifact, Artifacts,
           Build, BuiltFrom, Draft
      <3>6. CASE CommitDone(c)
        BY <3>6 DEF CommitDone, Phases
      <3>7. CASE RollbackFile(c)
        BY <3>7 DEF RollbackFile, Txn, PutFile
      <3>8. CASE RollbackDone(c)
        BY <3>8 DEF RollbackDone, Build, NoBuild, Phases
      <3> QED BY <2>6, <3>1, <3>2, <3>3, <3>4, <3>5, <3>6, <3>7, <3>8
          DEF HeldStep, CommitStep, RollbackStep
    <2>7. ASSUME NEW c \in Clients, SlotStep(c) PROVE Types'
      BY <2>7, ZenonT(60) DEF SlotStep, MarkStale, ClearDraft, HoldsGeneration, Phases, Slot
    <2>8. ASSUME NEW c \in Clients, CommitFault(c) PROVE Types'
      BY <2>8 DEF CommitFault, Txn, Phases, Locked
    <2>9. CASE Crash
      BY <2>9 DEF Crash, Phases
    <2>10. CASE UNCHANGED vars
      BY <2>10 DEF vars
    <2> QED BY <2>1, <2>2, <2>3, <2>4, <2>5, <2>6, <2>7, <2>8, <2>9, <2>10 DEF Next
  <1>3. QED BY <1>1, <1>2, PTL DEF Spec

-----------------------------------------------------------------------------
(***************************************************************************)
(* What the file operations do to a registry.  View is the registry in the *)
(* middle of a commit: what is still to be removed, what is already        *)
(* written, and the old content of what is still to be written.            *)
(***************************************************************************)
View(base, pending, removes, writes) ==
    removes \cup (pending \ writes)
      \cup {r \in base : FileName(r) \in FilesOf(writes)}

Removed(base, pending) == {r \in base : FileName(r) \notin FilesOf(pending)}

LEMMA SameFile ==
    ASSUME NEW r, NEW s
    PROVE  FileName(r) = FileName(s) <=> r.id = s.id /\ r.slug = s.slug
  BY DEF FileName

LEMMA InFiles ==
    ASSUME NEW files, NEW r
    PROVE  FileName(r) \in FilesOf(files)
             <=> \E s \in files : r.id = s.id /\ r.slug = s.slug
  BY SameFile DEF FilesOf

(* The operations leave the other patches alone.                           *)
LEMMA PendingOthers ==
    ASSUME NEW base, NEW op \in Requests, NEW r, r.id \notin op.names
    PROVE  r \in base <=> r \in Preview(base, op)
  BY RequestAssumption DEF Preview

LEMMA ViewStart ==
    ASSUME NEW base, NEW pending
    PROVE  View(base, pending, Removed(base, pending), pending) = base
  BY DEF View, Removed

LEMMA ViewRemove ==
    ASSUME NEW base, OneFilePerPatch(base), NEW pending, OneFilePerPatch(pending),
           NEW removes \in SUBSET Removed(base, pending),
           NEW writes \in SUBSET pending, NEW r \in removes
    PROVE  RemoveFile(View(base, pending, removes, writes), r)
             = View(base, pending, removes \ {r}, writes)
  <1>1. ASSUME NEW x \in View(base, pending, removes, writes)
        PROVE  FileName(x) = FileName(r) <=> x = r
    BY InFiles, SameFile DEF View, OneFilePerPatch, Removed
  <1>2. r \notin pending /\ FileName(r) \notin FilesOf(writes)
    BY InFiles DEF Removed
  <1> QED BY <1>1, <1>2 DEF RemoveFile, View

LEMMA ViewPut ==
    ASSUME NEW base, NEW pending, OneFilePerPatch(pending),
           NEW writes \in SUBSET pending, NEW r \in writes
    PROVE  PutFile(View(base, pending, {}, writes), r)
             = View(base, pending, {}, writes \ {r})
  <1>1. ASSUME NEW x \in pending
        PROVE  FileName(x) = FileName(r) <=> x = r
    BY SameFile DEF OneFilePerPatch
  <1>2. ASSUME NEW x
        PROVE  FileName(x) \in FilesOf(writes \ {r})
                 <=> FileName(x) \in FilesOf(writes) /\ FileName(x) # FileName(r)
    BY <1>1 DEF FilesOf
  <1> QED BY <1>1, <1>2 DEF PutFile, View

(* In the middle of a commit no patch is in two files: a retitled patch    *)
(* loses its old file before it gets its new one.                          *)
LEMMA ViewOneFile ==
    ASSUME NEW base, OneFilePerPatch(base), NEW pending, OneFilePerPatch(pending),
           NEW removes \in SUBSET Removed(base, pending),
           NEW writes \in SUBSET pending,
           removes # {} => writes = pending
    PROVE  OneFilePerPatch(View(base, pending, removes, writes))
  <1> SUFFICES ASSUME NEW x \in View(base, pending, removes, writes),
                      NEW y \in View(base, pending, removes, writes), x.id = y.id
               PROVE  x = y
    BY DEF OneFilePerPatch
  <1>1. CASE removes # {}
    <2>1. x \in base /\ y \in base
      BY <1>1 DEF View, Removed
    <2> QED BY <2>1 DEF OneFilePerPatch
  <1>2. CASE removes = {}
    <2>1. CASE x \in base /\ y \in base
      BY <2>1 DEF OneFilePerPatch
    <2>2. CASE x \in pending /\ y \in pending
      BY <2>2 DEF OneFilePerPatch
    <2>3. ASSUME NEW b \in base, NEW p \in pending \ writes, b.id = p.id,
                 FileName(b) \in FilesOf(writes)
          PROVE  FALSE
      BY <2>3, InFiles DEF OneFilePerPatch
    <2> QED BY <1>2, <2>1, <2>2, <2>3 DEF View
  <1> QED BY <1>1, <1>2

-----------------------------------------------------------------------------
(***************************************************************************)
(* The inductive invariant.                                                *)
(***************************************************************************)
Base(c) == draft[c].base
Pending(c) == Preview(draft[c].base, draft[c].op)

SoundDraft(d) ==
    /\ d.op \in Requests
    /\ Loads(d.base)
    /\ Loads(Preview(d.base, d.op))

DraftsSound ==
    /\ \A d \in reviewed : SoundDraft(d)
    /\ slot # NoDraft => slot.draft \in reviewed
    /\ \A c \in Clients : phase[c] = "drafting" => draft[c].op \in Requests
    /\ \A c \in Clients : phase[c] \notin {"idle", "drafting"} => SoundDraft(draft[c])
    /\ \A c \in Clients :
          phase[c] \notin {"idle", "drafting", "storing"} => draft[c] \in reviewed

Ownership == \A c \in Clients : phase[c] \in Locked <=> lock = c

(* Backups hold the old registry, and whatever is new is a known target.   *)
BackedUp(c) ==
    /\ txn.backup = Base(c)
    /\ txn.targets \subseteq FilesOf(Base(c) \cup Pending(c))
    /\ \A r \in patches : r \in Base(c) \/ FileName(r) \in txn.targets

Committing(c) ==
    /\ txn.removes \subseteq Removed(Base(c), Pending(c))
    /\ txn.writes \subseteq Pending(c)
    /\ txn.removes # {} => txn.writes = Pending(c)
    /\ patches = View(Base(c), Pending(c), txn.removes, txn.writes)

Restoring(c) ==
    /\ txn.restore \subseteq Base(c)
    /\ Base(c) \subseteq patches \cup txn.restore
    /\ patches \subseteq Base(c) \cup Pending(c)
    /\ \A r, s \in patches : FileName(r) = FileName(s) => r = s

Inv ==
    /\ DraftsSound
    /\ Ownership
    /\ CommitsOnReviewedBase
    /\ \A c \in Clients : phase[c] = "commit" => Committing(c) /\ BackedUp(c)
    /\ \A c \in Clients : phase[c] = "restore" => Restoring(c) /\ BackedUp(c)

(* Steps that leave the files, applyMu and every holder's state alone.     *)
LEMMA InvOutside ==
    ASSUME Types, Inv, DraftsSound',
           UNCHANGED <<patches, lock, txn>>, NEW c \in Clients,
           phase[c] \notin Locked, phase'[c] \notin Locked,
           \A d \in Clients \ {c} : phase'[d] = phase[d] /\ draft'[d] = draft[d]
    PROVE  Inv'
  BY ZenonT(60) DEF Inv, Ownership, CommitsOnReviewedBase, Committing, BackedUp, Restoring,
     Base, Pending, Locked

(* The holder of applyMu moves on with it: the others are not affected.    *)
LEMMA InvHeld ==
    ASSUME Types, Inv, NEW c \in Clients, phase[c] \in Locked, phase'[c] \in Locked,
           UNCHANGED <<slotVars, lock, draft>>,
           \A d \in Clients \ {c} : phase'[d] = phase[d],
           phase'[c] \in {"building", "backup"} => patches' = Base(c),
           phase'[c] = "commit" => Committing(c)' /\ BackedUp(c)',
           phase'[c] = "restore" => Restoring(c)' /\ BackedUp(c)'
    PROVE  Inv'
  <1>1. \A d \in Clients \ {c} : phase[d] \notin Locked
    BY DEF Inv, Ownership
  <1>2. DraftsSound'
    BY DEF Inv, DraftsSound, Locked
  <1> QED BY <1>1, <1>2
      DEF Inv, Ownership, CommitsOnReviewedBase, Base, Locked

(* The holder of applyMu lets it go.                                       *)
LEMMA InvReleased ==
    ASSUME Types, Inv, NEW c \in Clients, phase[c] \in Locked, lock' = Nobody,
           UNCHANGED slotVars,
           \/ phase'[c] = "idle"
           \/ phase'[c] = "clearing" /\ draft'[c] = draft[c],
           \A d \in Clients \ {c} : phase'[d] = phase[d] /\ draft'[d] = draft[d]
    PROVE  Inv'
  <1>1. \A d \in Clients \ {c} : phase[d] \notin Locked
    BY DEF Inv, Ownership
  <1>2. DraftsSound'
    BY DEF Inv, DraftsSound, Locked
  <1> QED BY <1>1, <1>2, SentinelAssumption
      DEF Inv, Ownership, CommitsOnReviewedBase, Locked

(* What Inv says of the call that is committing or rolling back.           *)
LEMMA HolderFacts ==
    ASSUME Types, Inv, NEW c \in Clients, phase[c] \in Locked
    PROVE  /\ draft[c].op \in Requests /\ draft[c].op \in Op
           /\ Loads(Base(c)) /\ Loads(Pending(c))
           /\ OneFilePerPatch(Base(c)) /\ OneFilePerPatch(Pending(c))
           /\ Base(c) \in SUBSET Record /\ Pending(c) \in SUBSET Record
  BY PreviewType
  DEF Inv, DraftsSound, SoundDraft, Loads, Types, DraftInHand, Draft, Base, Pending, Locked

\* Drafts stay sound and applyMu has one holder, who commits on the registry it
\* reviewed; whatever files are replaced, the backup restores what was there.
THEOREM Invariant == Spec => []Inv
  <1>1. Init => Inv
    BY SentinelAssumption
    DEF Init, Inv, DraftsSound, Ownership, CommitsOnReviewedBase, Locked
  <1>2. Types /\ Inv /\ [Next]_vars => Inv'
    <2> SUFFICES ASSUME Types, Inv, [Next]_vars PROVE Inv'
      OBVIOUS
    <2>1. ASSUME NEW c \in Clients, DraftBegin(c) PROVE Inv'
      <3>1. DraftsSound'
        BY <2>1 DEF DraftBegin, Inv, DraftsSound, Types, TypeOK
      <3> QED BY <2>1, <3>1, InvOutside DEF DraftBegin, Types, TypeOK, Locked
    <2>2. ASSUME NEW c \in Clients, ApplyCurrent(c) PROVE Inv'
      <3>1. DraftsSound'
        BY <2>2 DEF ApplyCurrent, Inv, DraftsSound, Types, TypeOK
      <3> QED BY <2>2, <3>1, InvOutside DEF ApplyCurrent, Types, TypeOK, Locked
    <2>3. ASSUME NEW c \in Clients, ApplyExplicit(c) PROVE Inv'
      <3>1. DraftsSound'
        BY <2>3 DEF ApplyExplicit, Inv, DraftsSound, Types, TypeOK
      <3> QED BY <2>3, <3>1, InvOutside DEF ApplyExplicit, Types, TypeOK, Locked
    <2>4. ASSUME NEW c \in Clients, DraftStep(c) PROVE Inv'
      <3>1. DraftsSound'
        <4>1. CASE DraftPreview(c)
          <5>1. /\ draft'[c].base = patches /\ draft'[c].op = draft[c].op
                /\ \A d \in Clients \ {c} : draft'[d] = draft[d]
                /\ phase' = [phase EXCEPT ![c] = "storing"]
            BY <4>1 DEF DraftPreview, Types, TypeOK, DraftInHand, Draft
          <5>2. SoundDraft(draft'[c])
            BY <4>1, <5>1 DEF DraftPreview, Inv, DraftsSound, SoundDraft, Accepts
          <5> QED BY <4>1, <5>1, <5>2
              DEF DraftPreview, Inv, DraftsSound, Types, TypeOK
        <4>2. CASE DraftRefused(c)
          BY <4>2 DEF DraftRefused, Inv, DraftsSound, Types, TypeOK
        <4>3. CASE DraftStore(c)
          BY <4>3 DEF DraftStore, Inv, DraftsSound, Types, TypeOK
        <4> QED BY <2>4, <4>1, <4>2, <4>3 DEF DraftStep
      <3>2. /\ UNCHANGED <<patches, lock, txn>>
            /\ phase[c] \notin Locked /\ phase'[c] \notin Locked
            /\ \A d \in Clients \ {c} : phase'[d] = phase[d] /\ draft'[d] = draft[d]
        BY <2>4 DEF DraftStep, DraftPreview, DraftRefused, DraftStore, Types,
           TypeOK, Locked
      <3> QED BY <3>1, <3>2, InvOutside
    <2>5. ASSUME NEW c \in Clients, LockStep(c) PROVE Inv'
      <3>1. DraftsSound'
        BY <2>5 DEF LockStep, ApplyLock, ApplyStale, ApplyUnloadable, Inv,
           DraftsSound, Types, TypeOK
      <3>2. CASE ApplyLock(c)
        BY <3>1, <3>2, SentinelAssumption
        DEF ApplyLock, Inv, Ownership, CommitsOnReviewedBase, Locked, Types, TypeOK
      <3>3. CASE ApplyStale(c) \/ ApplyUnloadable(c)
        BY <3>1, <3>3, InvOutside
        DEF ApplyStale, ApplyUnloadable, Types, TypeOK, Locked
      <3> QED BY <2>5, <3>2, <3>3 DEF LockStep
    <2>6. ASSUME NEW c \in Clients, SlotStep(c) PROVE Inv'
      <3>1. DraftsSound'
        BY <2>6, SentinelAssumption
        DEF SlotStep, MarkStale, ClearDraft, HoldsGeneration, Inv,
            DraftsSound, Types, TypeOK, Slot
      <3> QED BY <2>6, <3>1, InvOutside
          DEF SlotStep, MarkStale, ClearDraft, Types, TypeOK, Locked
    <2>7. ASSUME NEW c \in Clients, ApplyBuild(c) PROVE Inv'
      BY <2>7, InvHeld DEF ApplyBuild, Types, TypeOK, Locked, Inv,
         CommitsOnReviewedBase, Base
    <2>8. ASSUME NEW c \in Clients, ApplyRefused(c) PROVE Inv'
      BY <2>8, InvReleased DEF ApplyRefused, Types, TypeOK, Locked
    <2>9. ASSUME NEW c \in Clients, ApplyBackup(c) PROVE Inv'
      <3>1. patches = Base(c)
        BY <2>9 DEF ApplyBackup, Inv, CommitsOnReviewedBase, Base
      <3>2. /\ txn'.removes = Removed(Base(c), Pending(c))
            /\ txn'.writes = Pending(c)
            /\ txn'.targets = {}
            /\ txn'.backup = {r \in patches :
                                FileName(r) \in FilesOf(Base(c) \cup Pending(c))}
        BY <2>9 DEF ApplyBackup, NoTxn, Removed, Base, Pending
      <3>3. txn'.backup = Base(c)
        BY <3>1, <3>2 DEF FilesOf
      <3>4. Committing(c)'
        BY <2>9, <3>1, <3>2, ViewStart DEF ApplyBackup, Committing, Base, Pending
      <3>5. BackedUp(c)'
        BY <2>9, <3>1, <3>2, <3>3 DEF ApplyBackup, BackedUp, Base, Pending
      <3> QED BY <2>9, <3>4, <3>5, InvHeld DEF ApplyBackup, Types, TypeOK, Locked
    <2>10. ASSUME NEW c \in Clients, CommitRemove(c) PROVE Inv'
      <3>1. PICK r \in txn.removes :
              /\ patches' = RemoveFile(patches, r)
              /\ txn' = [txn EXCEPT !.removes = @ \ {r},
                                    !.targets = @ \cup {FileName(r)}]
        BY <2>10 DEF CommitRemove
      <3>2. Committing(c) /\ BackedUp(c) /\ phase[c] \in Locked
        BY <2>10 DEF CommitRemove, Inv, Locked
      <3>3. /\ txn'.removes = txn.removes \ {r} /\ txn'.writes = txn.writes
            /\ txn'.targets = txn.targets \cup {FileName(r)}
            /\ txn'.backup = txn.backup
        BY <3>1 DEF Types, TypeOK, Txn
      <3>4. patches' = View(Base(c), Pending(c), txn.removes \ {r}, txn.writes)
        BY <3>1, <3>2, HolderFacts, ViewRemove DEF Committing
      <3>5. Committing(c)'
        BY <2>10, <3>2, <3>3, <3>4 DEF CommitRemove, Committing, Base, Pending
      <3>6. BackedUp(c)'
        <4>1. FileName(r) \in FilesOf(Base(c) \cup Pending(c))
          BY <3>2 DEF Committing, Removed, FilesOf
        <4> QED BY <2>10, <3>1, <3>2, <3>3, <4>1
            DEF CommitRemove, BackedUp, Base, Pending, RemoveFile
      <3> QED BY <2>10, <3>2, <3>5, <3>6, InvHeld DEF CommitRemove, Locked
    <2>11. ASSUME NEW c \in Clients, CommitPatch(c) PROVE Inv'
      <3>1. PICK r \in txn.writes :
              /\ patches' = PutFile(patches, r)
              /\ txn' = [txn EXCEPT !.writes = @ \ {r},
                                    !.targets = @ \cup {FileName(r)}]
        BY <2>11 DEF CommitPatch
      <3>2. Committing(c) /\ BackedUp(c) /\ phase[c] \in Locked /\ txn.removes = {}
        BY <2>11 DEF CommitPatch, Inv, Locked
      <3>3. /\ txn'.removes = {} /\ txn'.writes = txn.writes \ {r}
            /\ txn'.targets = txn.targets \cup {FileName(r)}
            /\ txn'.backup = txn.backup
        BY <3>1, <3>2 DEF Types, TypeOK, Txn
      <3>4. patches' = View(Base(c), Pending(c), {}, txn.writes \ {r})
        BY <3>1, <3>2, HolderFacts, ViewPut DEF Committing
      <3>5. Committing(c)'
        BY <2>11, <3>2, <3>3, <3>4 DEF CommitPatch, Committing, Base, Pending
      <3>6. BackedUp(c)'
        <4>1. FileName(r) \in FilesOf(Base(c) \cup Pending(c))
          BY <3>2 DEF Committing, FilesOf
        <4> QED BY <2>11, <3>1, <3>2, <3>3, <4>1
            DEF CommitPatch, BackedUp, Base, Pending, PutFile
      <3> QED BY <2>11, <3>2, <3>5, <3>6, InvHeld DEF CommitPatch, Locked
    <2>12. ASSUME NEW c \in Clients, CommitArtifact(c) PROVE Inv'
      <3>1. /\ phase[c] = "commit" /\ phase'[c] = "commit"
            /\ UNCHANGED <<patches, slotVars, lock, phase, draft>>
            /\ txn'.removes = txn.removes /\ txn'.writes = txn.writes
            /\ txn'.targets = txn.targets /\ txn'.backup = txn.backup
        BY <2>12 DEF CommitArtifact, Types, TypeOK, Txn
      <3>2. Committing(c)' /\ BackedUp(c)'
        BY <3>1 DEF Inv, Committing, BackedUp, Base, Pending
      <3> QED BY <3>1, <3>2, InvHeld DEF Locked
    <2>13. ASSUME NEW c \in Clients, CommitDone(c) PROVE Inv'
      BY <2>13, InvReleased DEF CommitDone, Types, TypeOK, Locked
    <2>14. ASSUME NEW c \in Clients, CommitFault(c) PROVE Inv'
      <3>1. /\ txn'.restore = txn.backup
            /\ txn'.targets = txn.targets /\ txn'.backup = txn.backup
        BY <2>14 DEF CommitFault, Types, TypeOK, Txn
      <3>2. Committing(c) /\ BackedUp(c) /\ phase[c] \in Locked
        BY <2>14 DEF CommitFault, Inv, Locked
      <3>3. OneFilePerPatch(patches)
        BY <3>2, HolderFacts, ViewOneFile DEF Committing
      <3>4. patches \subseteq Base(c) \cup Pending(c)
        BY <3>2 DEF Committing, View, Removed
      <3>5. \A r, s \in patches : FileName(r) = FileName(s) => r = s
        BY <3>3, SameFile DEF OneFilePerPatch
      <3>6. Restoring(c)' /\ BackedUp(c)'
        BY <2>14, <3>1, <3>2, <3>4, <3>5
        DEF CommitFault, Restoring, BackedUp, Base, Pending
      <3> QED BY <2>14, <3>2, <3>6, InvHeld DEF CommitFault, Types, TypeOK, Locked
    <2>15. ASSUME NEW c \in Clients, RollbackFile(c) PROVE Inv'
      <3>1. Restoring(c) /\ BackedUp(c) /\ phase[c] \in Locked
        BY <2>15 DEF RollbackFile, Inv, Locked
      <3>2. ASSUME NEW a \in txn.restoreArtifacts, UNCHANGED patches,
                   txn' = [txn EXCEPT !.restoreArtifacts = @ \ {a}]
            PROVE  Inv'
        <4>1. /\ txn'.targets = txn.targets /\ txn'.backup = txn.backup
              /\ txn'.restore = txn.restore
          BY <3>2 DEF Types, TypeOK, Txn
        <4>2. Restoring(c)' /\ BackedUp(c)'
          BY <2>15, <3>1, <3>2, <4>1
          DEF RollbackFile, Restoring, BackedUp, Base, Pending
        <4> QED BY <2>15, <3>1, <4>2, InvHeld DEF RollbackFile, Locked
      <3>3. ASSUME NEW r \in txn.restore, patches' = PutFile(patches, r),
                   txn' = [txn EXCEPT !.restore = @ \ {r}]
            PROVE  Inv'
        <4>1. /\ txn'.restore = txn.restore \ {r}
              /\ txn'.targets = txn.targets /\ txn'.backup = txn.backup
          BY <3>3 DEF Types, TypeOK, Txn
        <4>2. \A x \in Base(c) : FileName(x) = FileName(r) => x = r
          BY <3>1, HolderFacts, SameFile DEF Restoring, OneFilePerPatch
        <4>3. Restoring(c)' /\ BackedUp(c)'
          BY <2>15, <3>1, <3>3, <4>1, <4>2
          DEF RollbackFile, Restoring, BackedUp, Base, Pending, PutFile
        <4> QED BY <2>15, <3>1, <4>3, InvHeld DEF RollbackFile, Locked
      <3>4. \/ \E r \in txn.restore :
                  /\ patches' = PutFile(patches, r)
                  /\ txn' = [txn EXCEPT !.restore = @ \ {r}]
            \/ \E a \in txn.restoreArtifacts :
                  /\ txn' = [txn EXCEPT !.restoreArtifacts = @ \ {a}]
                  /\ UNCHANGED patches
        BY <2>15 DEF RollbackFile
      <3> QED BY <3>2, <3>3, <3>4
    <2>16. ASSUME NEW c \in Clients, RollbackDone(c) PROVE Inv'
      BY <2>16, InvReleased DEF RollbackDone, Types, TypeOK, Locked
    <2>20. CASE Crash
      BY <2>20, SentinelAssumption
      DEF Crash, Inv, DraftsSound, Ownership, CommitsOnReviewedBase, Locked
    <2>21. CASE UNCHANGED vars
      BY <2>21 DEF vars, Inv, DraftsSound, Ownership, CommitsOnReviewedBase, Committing,
         BackedUp, Restoring, Base, Pending
    <2> QED BY <2>1, <2>2, <2>3, <2>4, <2>5, <2>6, <2>7, <2>8, <2>9, <2>10, <2>11,
               <2>12, <2>13, <2>14, <2>15, <2>16, <2>20, <2>21
        DEF Next, HeldStep, CommitStep, RollbackStep
  <1>3. QED BY <1>1, <1>2, TypeCorrect, PTL DEF Spec

-----------------------------------------------------------------------------
(* The properties the runs check, for every value of the constants.        *)

(* The type invariant of PatchTransaction.                                 *)
THEOREM TypeInvariant == Spec => []TypeOK
  BY TypeCorrect, PTL DEF Types

(* No apply replaces files of a registry other than the one its draft was  *)
(* reviewed on: concurrent applies cannot lose each other's update.        *)
THEOREM ReviewedBase == Spec => []CommitsOnReviewedBase
  BY Invariant, PTL DEF Inv

(* The file-by-file commit ends with exactly the previewed registry.       *)
THEOREM CompleteCommit == Spec => []CommitComplete
  <1>1. Types /\ Inv => CommitComplete
    BY ZenonT(60) DEF Inv, Committing, CommitComplete, View, FilesOf, Pending
  <1> QED BY <1>1, TypeCorrect, Invariant, PTL

(* A step touches no patch but the one the running apply was asked to      *)
(* change, be it a commit, a rollback or a crash.                          *)
THEOREM UntouchedSurvive == Spec => UntouchedPatchesSurvive
  <1> DEFINE Kept == \A r \in patches : r \notin patches' =>
                 \E c \in Clients : lock = c /\ r.id \in draft[c].op.names
  <1>1. Types /\ Inv /\ [Next]_vars => [Kept]_vars
    <2> SUFFICES ASSUME Types, Inv, Next PROVE Kept
      OBVIOUS
    <2>1. ASSUME NEW c \in Clients, NEW r \in patches, r \notin patches',
                 CommitRemove(c)
          PROVE  lock = c /\ r.id \in draft[c].op.names
      <3>1. /\ lock = c /\ Committing(c) /\ phase[c] \in Locked
        BY <2>1 DEF CommitRemove, Inv, Ownership, Locked
      <3>2. PICK x \in txn.removes : patches' = RemoveFile(patches, x)
        BY <2>1 DEF CommitRemove
      <3>3. FileName(r) = FileName(x) /\ x \in Base(c) /\ x \notin Pending(c)
        BY <2>1, <3>1, <3>2 DEF RemoveFile, Committing, Removed, FilesOf
      <3> QED BY <3>1, <3>3, HolderFacts, PendingOthers, SameFile DEF Base, Pending
    <2>2. ASSUME NEW c \in Clients, NEW r \in patches, r \notin patches',
                 CommitPatch(c)
          PROVE  lock = c /\ r.id \in draft[c].op.names
      <3>1. /\ lock = c /\ Committing(c) /\ phase[c] \in Locked
        BY <2>2 DEF CommitPatch, Inv, Ownership, Locked
      <3>2. PICK x \in txn.writes : patches' = PutFile(patches, x)
        BY <2>2 DEF CommitPatch
      <3>3. FileName(r) = FileName(x) /\ r # x /\ x \in Pending(c)
        BY <2>2, <3>1, <3>2 DEF PutFile, Committing
      <3>4. r \in Base(c) \/ r \in Pending(c)
        BY <3>1 DEF Committing, View, Removed
      <3>5. r.id = x.id
        BY <3>3, SameFile
      <3> QED BY <3>1, <3>3, <3>4, <3>5, HolderFacts, PendingOthers DEF Base, Pending, OneFilePerPatch
    <2>3. ASSUME NEW c \in Clients, NEW r \in patches, r \notin patches',
                 RollbackFile(c)
          PROVE  lock = c /\ r.id \in draft[c].op.names
      <3>1. /\ lock = c /\ Restoring(c) /\ phase[c] \in Locked
        BY <2>3 DEF RollbackFile, Inv, Ownership, Locked
      <3>2. PICK x \in txn.restore : patches' = PutFile(patches, x)
        BY <2>3 DEF RollbackFile
      <3>3. FileName(r) = FileName(x) /\ r # x /\ x \in Base(c)
        BY <2>3, <3>1, <3>2 DEF PutFile, Restoring
      <3>4. r \in Base(c) \/ r \in Pending(c)
        BY <3>1 DEF Restoring
      <3>5. r.id = x.id
        BY <3>3, SameFile
      <3> QED BY <3>1, <3>3, <3>4, <3>5, HolderFacts, PendingOthers DEF Base, Pending, OneFilePerPatch
    <2>4. ASSUME NEW c \in Clients, NEW r \in patches, r \notin patches',
                 RollbackDone(c)
          PROVE  lock = c /\ r.id \in draft[c].op.names
      <3>1. /\ lock = c /\ Restoring(c) /\ BackedUp(c) /\ phase[c] \in Locked
        BY <2>4 DEF RollbackDone, Inv, Ownership, Locked
      <3>2. FileName(r) \notin FilesOf(Base(c))
        BY <2>4, <3>1 DEF RollbackDone, BackedUp
      <3>3. r \notin Base(c) /\ r \in Pending(c)
        BY <3>1, <3>2 DEF FilesOf, Restoring
      <3> QED BY <3>1, <3>3, HolderFacts, PendingOthers DEF Base, Pending
    <2>5. CASE UNCHANGED patches
      BY <2>5
    <2> QED BY <2>1, <2>2, <2>3, <2>4, <2>5
        DEF Next, DraftBegin, ApplyCurrent, ApplyExplicit, DraftStep, DraftPreview,
            DraftRefused, DraftStore, LockStep, ApplyLock, ApplyStale, ApplyUnloadable,
            HeldStep, ApplyBuild, ApplyRefused, ApplyBackup, CommitStep, CommitArtifact,
            CommitDone, RollbackStep, SlotStep, MarkStale, ClearDraft, CommitFault, Crash
  <1> QED BY <1>1, TypeCorrect, Invariant, PTL DEF Spec, UntouchedPatchesSurvive
-----------------------------------------------------------------------------
(***************************************************************************)
(* How the lock is given back: the registry is the reviewed one after a    *)
(* refusal and after a rollback, the previewed one after a commit.         *)
(***************************************************************************)
LEMMA RefusalKeeps ==
    ASSUME Types, Inv, NEW c \in Clients, ApplyRefused(c)
    PROVE  patches' = Base(c)
  BY DEF ApplyRefused, Inv, CommitsOnReviewedBase, Base

LEMMA CommitEnds ==
    ASSUME Types, Inv, NEW c \in Clients, CommitDone(c)
    PROVE  patches' = Pending(c)
  <1>1. Committing(c) /\ txn.removes = {} /\ txn.writes = {} /\ patches' = patches
    BY DEF CommitDone, Inv
  <1> QED BY <1>1 DEF Committing, View, FilesOf

LEMMA RollbackRestores ==
    ASSUME Types, Inv, NEW c \in Clients, RollbackDone(c)
    PROVE  patches' = Base(c)
  <1>1. Restoring(c) /\ BackedUp(c) /\ txn.restore = {}
    BY DEF RollbackDone, Inv
  <1>2. patches' = {r \in patches : FileName(r) \notin txn.targets \ FilesOf(Base(c))}
    BY <1>1 DEF RollbackDone, BackedUp
  <1>3. ASSUME NEW r \in Base(c) PROVE r \in patches'
    BY <1>1, <1>2, <1>3 DEF Restoring, FilesOf
  <1>4. ASSUME NEW r \in patches' PROVE r \in Base(c)
    <2> SUFFICES ASSUME r \notin Base(c) PROVE FALSE
      OBVIOUS
    <2>1. r \in patches /\ FileName(r) \in FilesOf(Base(c))
      BY <1>1, <1>2, <1>4 DEF BackedUp
    <2>2. PICK s \in Base(c) : FileName(r) = FileName(s)
      BY <2>1 DEF FilesOf
    <2> QED BY <1>1, <2>1, <2>2 DEF Restoring
  <1> QED BY <1>3, <1>4

(* The other steps of the running apply keep the lock, and the steps that  *)
(* take it leave the files alone.                                          *)
LEMMA LockMoves ==
    ASSUME Types, Inv, Next, lock' = Nobody, patches' # patches \/ lock # Nobody
    PROVE  \/ \E c \in Clients : ApplyRefused(c) \/ CommitDone(c) \/ RollbackDone(c)
           \/ Crash
  <1>1. ASSUME NEW c \in Clients, phase[c] \in Locked
        PROVE  lock = c /\ c # Nobody
    BY <1>1, SentinelAssumption DEF Inv, Ownership
  <1> QED BY <1>1, SentinelAssumption
      DEF Next, DraftBegin, ApplyCurrent, ApplyExplicit, DraftStep, DraftPreview,
          DraftRefused, DraftStore, LockStep, ApplyLock, ApplyStale, ApplyUnloadable,
          HeldStep, ApplyBuild, ApplyBackup, CommitStep, CommitRemove, CommitPatch,
          CommitArtifact, RollbackStep, RollbackFile, SlotStep, MarkStale, ClearDraft,
          CommitFault, Locked

(* As long as the server does not die, every commit and every rollback     *)
(* ends in a registry Load accepts.                                        *)
THEOREM LoadsUnlessCrashed ==
    ASSUME MaxCrashes = 0
    PROVE  Spec => []LoadsWhenIdle
  <1>1. Init => LoadsWhenIdle
    BY InstalledAssumption DEF Init, LoadsWhenIdle
  <1>2. Types /\ Inv /\ LoadsWhenIdle /\ [Next]_vars => LoadsWhenIdle'
    <2> SUFFICES ASSUME Types, Inv, LoadsWhenIdle, [Next]_vars, lock' = Nobody,
                        patches' # patches \/ lock # Nobody
                 PROVE  Loads(patches')
      BY DEF LoadsWhenIdle
    <2>1. Next
      BY DEF vars
    <2>2. ~Crash
      BY DEF Crash, Types, TypeOK
    <2>3. PICK c \in Clients : ApplyRefused(c) \/ CommitDone(c) \/ RollbackDone(c)
      BY <2>1, <2>2, LockMoves
    <2>4. phase[c] \in Locked
      BY <2>3 DEF ApplyRefused, CommitDone, RollbackDone, Locked
    <2> QED BY <2>3, <2>4, HolderFacts, RefusalKeeps, CommitEnds, RollbackRestores
  <1> QED BY <1>1, <1>2, TypeCorrect, Invariant, PTL DEF Spec

(* As long as no rename fails, no patch is left in two files, wherever the *)
(* server dies.                                                            *)
THEOREM OneFileUnlessFaults ==
    ASSUME ~IOFaults
    PROVE  Spec => []OneFileWhenIdle
  <1> DEFINE NoRollback == \A c \in Clients : phase[c] # "restore"
  <1>1. Init => NoRollback /\ OneFileWhenIdle
    BY InstalledAssumption DEF Init, OneFileWhenIdle, Loads
  <1>2. Types /\ NoRollback /\ [Next]_vars => NoRollback'
    BY ZenonT(60) DEF Types, TypeOK, Next, DraftBegin, ApplyCurrent, ApplyExplicit, DraftStep,
       DraftPreview, DraftRefused, DraftStore, LockStep, ApplyLock, ApplyStale,
       ApplyUnloadable, HeldStep, ApplyBuild, ApplyRefused, ApplyBackup, CommitStep,
       CommitRemove, CommitPatch, CommitArtifact, CommitDone, RollbackStep,
       RollbackFile, RollbackDone, SlotStep, MarkStale, ClearDraft, CommitFault,
       Crash, vars
  <1>3. Types /\ Inv /\ NoRollback /\ OneFileWhenIdle /\ [Next]_vars => OneFileWhenIdle'
    <2> SUFFICES ASSUME Types, Inv, NoRollback, OneFileWhenIdle, [Next]_vars,
                        lock' = Nobody, patches' # patches \/ lock # Nobody
                 PROVE  OneFilePerPatch(patches')
      BY DEF OneFileWhenIdle
    <2>1. Next
      BY DEF vars
    <2>2. CASE Crash
      <3>1. PICK c \in Clients : lock = c /\ phase[c] \in Locked
        BY <2>2 DEF Crash, Types, TypeOK, Inv, Ownership
      <3>2. CASE phase[c] \in {"building", "backup"}
        <4>1. patches = Base(c)
          BY <3>2 DEF Inv, CommitsOnReviewedBase, Base
        <4> QED BY <2>2, <3>1, <4>1, HolderFacts DEF Crash
      <3>3. CASE phase[c] = "commit"
        <4>1. Committing(c)
          BY <3>3 DEF Inv
        <4>2. OneFilePerPatch(patches)
          BY <3>1, <4>1, HolderFacts, ViewOneFile DEF Committing
        <4> QED BY <2>2, <4>2 DEF Crash
      <3> QED BY <3>1, <3>2, <3>3 DEF Locked
    <2>3. ASSUME NEW c \in Clients, ApplyRefused(c) \/ CommitDone(c) \/ RollbackDone(c)
          PROVE  OneFilePerPatch(patches')
      <3>1. phase[c] \in Locked
        BY <2>3 DEF ApplyRefused, CommitDone, RollbackDone, Locked
      <3> QED BY <2>3, <3>1, HolderFacts, RefusalKeeps, CommitEnds, RollbackRestores
    <2> QED BY <2>1, <2>2, <2>3, LockMoves
  <1> QED BY <1>1, <1>2, <1>3, TypeCorrect, Invariant, PTL DEF Spec

-----------------------------------------------------------------------------
(***************************************************************************)
(* Generations.  Within one server process a number names one draft.       *)
(***************************************************************************)
Drafting(c) == phase[c] \in {"drafting", "storing"}

Numbered ==
    /\ \A d \in reviewed : d.gen <= generation
    /\ \A d, e \in reviewed : d.gen = e.gen => d = e
    /\ \A c \in Clients : Drafting(c) =>
          /\ draft[c].gen <= generation
          /\ \A d \in reviewed : d.gen # draft[c].gen
          /\ \A b \in Clients : Drafting(b) /\ b # c => draft[b].gen # draft[c].gen
    /\ \A c \in Clients : asked[c] # NoDraft =>
          /\ asked[c] = draft[c]
          /\ phase[c] \notin {"idle", "drafting", "storing"}

(* As long as the server does not die, use_current_draft applies the draft *)
(* its agent reviewed under that generation.                               *)
THEOREM AppliesReviewedDraft ==
    ASSUME MaxCrashes = 0
    PROVE  Spec => []AppliesWhatWasReviewed
  <1>1. Init => Numbered
    BY DEF Init, Numbered, Drafting
  <1>2. Types /\ Inv /\ Numbered /\ [Next]_vars => Numbered'
    <2> SUFFICES ASSUME Types, Inv, Numbered, [Next]_vars PROVE Numbered'
      OBVIOUS
    <2> USE DEF Types, TypeOK, DraftInHand
    <2>1. ASSUME NEW c \in Clients, DraftBegin(c) PROVE Numbered'
      <3>1. PICK op \in Requests :
              draft' = [draft EXCEPT ![c] = [gen |-> generation + 1, base |-> {}, op |-> op]]
        BY <2>1 DEF DraftBegin
      <3>2. /\ draft'[c].gen = generation + 1 /\ generation' = generation + 1
            /\ phase' = [phase EXCEPT ![c] = "drafting"] /\ phase[c] = "idle"
            /\ UNCHANGED <<reviewed, asked>>
            /\ \A b \in Clients \ {c} : draft'[b] = draft[b]
        BY <2>1, <3>1 DEF DraftBegin
      <3>3. \A b \in Clients : Drafting(b) => draft[b].gen \in Nat /\ draft[b].gen <= generation
        BY DEF Drafting, Draft, Numbered
      <3>4. \A d \in reviewed : d.gen \in Nat /\ d.gen <= generation
        BY DEF Draft, Numbered
      <3>5. generation \in Nat
        BY BoundsAssumption
      <3> QED BY <3>2, <3>3, <3>4, <3>5 DEF Numbered, Drafting
    <2>2. ASSUME NEW c \in Clients, DraftPreview(c) PROVE Numbered'
      <3>1. draft'[c].gen = draft[c].gen /\ \A b \in Clients \ {c} : draft'[b] = draft[b]
        BY <2>2 DEF DraftPreview, Draft
      <3> QED BY <2>2, <3>1 DEF DraftPreview, Numbered, Drafting
    <2>3. ASSUME NEW c \in Clients, DraftRefused(c) PROVE Numbered'
      BY <2>3 DEF DraftRefused, Numbered, Drafting
    <2>4. ASSUME NEW c \in Clients, DraftStore(c) PROVE Numbered'
      BY <2>4 DEF DraftStore, Numbered, Drafting
    <2>5. ASSUME NEW c \in Clients, ApplyCurrent(c) PROVE Numbered'
      <3>1. PICK d \in reviewed : d.gen = slot.draft.gen /\ asked' = [asked EXCEPT ![c] = d]
        BY <2>5 DEF ApplyCurrent
      <3>2. d = slot.draft
        BY <2>5, <3>1 DEF ApplyCurrent, Numbered, Inv, DraftsSound
      <3> QED BY <2>5, <3>1, <3>2 DEF ApplyCurrent, Numbered, Drafting
    <2>6. ASSUME NEW c \in Clients, ApplyExplicit(c) PROVE Numbered'
      BY <2>6 DEF ApplyExplicit, Numbered, Drafting
    <2>7. ASSUME NEW c \in Clients, LockStep(c) \/ SlotStep(c) PROVE Numbered'
      BY <2>7 DEF LockStep, ApplyLock, ApplyStale, ApplyUnloadable, SlotStep, MarkStale,
         ClearDraft, Numbered, Drafting
    <2>8. ASSUME NEW c \in Clients, HeldStep(c) \/ CommitFault(c) PROVE Numbered'
      <3>1. ASSUME UNCHANGED <<generation, reviewed, draft, asked>>,
                   phase[c] \in Locked, phase'[c] \in Locked \cup {"clearing"},
                   \A b \in Clients \ {c} : phase'[b] = phase[b]
            PROVE  Numbered'
        BY <3>1 DEF Numbered, Drafting, Locked
      <3>2. ASSUME UNCHANGED <<generation, reviewed>>, Return(c)
            PROVE  Numbered'
        BY <3>2 DEF Numbered, Drafting
      <3>3. CASE ApplyBuild(c) \/ ApplyBackup(c) \/ CommitFault(c)
        BY <3>1, <3>3 DEF ApplyBuild, ApplyBackup, CommitFault, Locked
      <3>4. CASE ApplyRefused(c) \/ RollbackDone(c)
        BY <3>2, <3>4 DEF ApplyRefused, RollbackDone
      <3>5. CASE CommitRemove(c) \/ CommitPatch(c) \/ CommitArtifact(c) \/ RollbackFile(c)
        BY <3>1, <3>5 DEF CommitRemove, CommitPatch, CommitArtifact, RollbackFile, Locked
      <3>6. CASE CommitDone(c)
        BY <3>1, <3>2, <3>6 DEF CommitDone, Locked
      <3> QED BY <2>8, <3>3, <3>4, <3>5, <3>6 DEF HeldStep, CommitStep, RollbackStep
    <2>9. ~Crash
      BY DEF Crash
    <2>10. CASE UNCHANGED vars
      BY <2>10 DEF vars, Numbered, Drafting
    <2> QED BY <2>1, <2>2, <2>3, <2>4, <2>5, <2>6, <2>7, <2>8, <2>9, <2>10
        DEF Next, DraftStep
  <1>3. Numbered => AppliesWhatWasReviewed
    BY DEF Numbered, AppliesWhatWasReviewed, ByCurrent
  <1> QED BY <1>1, <1>2, <1>3, TypeCorrect, Invariant, PTL DEF Spec

-----------------------------------------------------------------------------
(***************************************************************************)
(* Refinement.                                                             *)
(***************************************************************************)
LEMMA Unseen ==
    ASSUME Types, Inv, UNCHANGED <<lock, draft>>,
           lock \in Clients,
           phase[lock] \in {"commit", "restore"} \/ patches = Base(lock),
           phase'[lock] \in {"commit", "restore"} \/ patches' = Base(lock)
    PROVE  UNCHANGED CommittedRegistry
  BY DEF CommittedRegistry, Base

(* Detailed steps are steps of AtomicRegistry, or invisible to it.         *)
THEOREM Refinement ==
    ASSUME MaxCrashes = 0
    PROVE  Spec => AppliesAtomically
  <1> DEFINE Proposals == {<<d.base, d.op>> : d \in reviewed}
  <1>1. Init => Atomic!Init
    BY SentinelAssumption, InstalledAssumption DEF Init, Atomic!Init, CommittedRegistry
  <1>2. Types /\ Inv /\ [Next]_vars => [Atomic!Next]_<<CommittedRegistry, Proposals>>
    <2> SUFFICES ASSUME Types, Inv, [Next]_vars
                 PROVE  Atomic!Next \/ UNCHANGED <<CommittedRegistry, Proposals>>
      OBVIOUS
    <2>0. ~Crash
      BY DEF Crash, Types, TypeOK
    <2>1. ASSUME NEW c \in Clients, DraftStore(c)
          PROVE  Atomic!Next \/ UNCHANGED <<CommittedRegistry, Proposals>>
      <3>1. UNCHANGED CommittedRegistry
        <4>1. lock # c /\ UNCHANGED <<patches, lock>>
          BY <2>1 DEF DraftStore, Inv, Ownership, Locked
        <4>2. \A b \in Clients \ {c} : phase'[b] = phase[b] /\ draft'[b] = draft[b]
          BY <2>1 DEF DraftStore, Types, TypeOK
        <4> QED BY <4>1, <4>2 DEF CommittedRegistry
      <3>2. reviewed' = reviewed \cup {draft[c]}
        BY <2>1 DEF DraftStore
      <3>3. draft[c].base \in SUBSET Record /\ draft[c].op \in Requests
        BY <2>1 DEF DraftStore, Inv, DraftsSound, SoundDraft, Types, DraftInHand, Draft
      <3>4. Proposals' = Proposals \cup {<<draft[c].base, draft[c].op>>}
        BY <3>2
      <3>5. Atomic!Propose
        BY <3>1, <3>3, <3>4 DEF Atomic!Propose
      <3> QED BY <3>5 DEF Atomic!Next
    <2>2. ASSUME NEW c \in Clients, CommitDone(c)
          PROVE  Atomic!Next \/ UNCHANGED <<CommittedRegistry, Proposals>>
      <3>1. lock = c /\ phase[c] = "commit" /\ draft[c] \in reviewed
        BY <2>2 DEF CommitDone, Inv, Ownership, DraftsSound, Locked
      <3>2. CommittedRegistry = draft[c].base
        BY <3>1 DEF CommittedRegistry
      <3>3. CommittedRegistry' = Preview(draft[c].base, draft[c].op)
        BY <2>2, CommitEnds, SentinelAssumption DEF CommitDone, CommittedRegistry, Pending
      <3>4. Proposals' = Proposals
        BY <2>2 DEF CommitDone
      <3>5. <<draft[c].base, draft[c].op>> \in Proposals
        BY <3>1
      <3>6. Atomic!Apply
        BY <3>2, <3>3, <3>4, <3>5 DEF Atomic!Apply
      <3> QED BY <3>6 DEF Atomic!Next
    <2>3. ASSUME NEW c \in Clients, ApplyRefused(c) \/ RollbackDone(c)
          PROVE  UNCHANGED <<CommittedRegistry, Proposals>>
      <3>1. lock = c /\ patches' = Base(c) /\ lock' = Nobody
        BY <2>3, RefusalKeeps, RollbackRestores
        DEF ApplyRefused, RollbackDone, Inv, Ownership, Locked
      <3>2. CommittedRegistry = Base(c)
        BY <2>3, <3>1, RefusalKeeps
        DEF ApplyRefused, RollbackDone, CommittedRegistry, Base, Inv, CommitsOnReviewedBase
      <3>3. CommittedRegistry' = Base(c)
        BY <3>1, SentinelAssumption DEF CommittedRegistry
      <3> QED BY <2>3, <3>2, <3>3 DEF ApplyRefused, RollbackDone
    <2>4. ASSUME NEW c \in Clients,
                 \/ ApplyBuild(c) \/ ApplyBackup(c) \/ CommitRemove(c) \/ CommitPatch(c)
                 \/ CommitArtifact(c) \/ CommitFault(c) \/ RollbackFile(c)
          PROVE  UNCHANGED <<CommittedRegistry, Proposals>>
      <3>1. UNCHANGED <<reviewed, lock, draft>>
        BY <2>4 DEF ApplyBuild, ApplyBackup, CommitRemove, CommitPatch, CommitArtifact,
           CommitFault, RollbackFile
      <3>2. lock = c
        BY <2>4 DEF ApplyBuild, ApplyBackup, CommitRemove, CommitPatch, CommitArtifact,
           CommitFault, RollbackFile, Inv, Ownership, Locked
      <3>3. phase[c] \in {"commit", "restore"} \/ patches = Base(c)
        BY <2>4 DEF ApplyBuild, ApplyBackup, CommitRemove, CommitPatch, CommitArtifact,
           CommitFault, RollbackFile, Inv, CommitsOnReviewedBase, Base
      <3>4. phase'[c] \in {"commit", "restore"} \/ patches' = Base(c)
        BY <2>4, <3>3 DEF ApplyBuild, ApplyBackup, CommitRemove, CommitPatch,
           CommitArtifact, CommitFault, RollbackFile, Types, TypeOK
      <3> QED BY <3>1, <3>2, <3>3, <3>4, Unseen
    <2>5. ASSUME NEW c \in Clients,
                 \/ DraftBegin(c) \/ ApplyCurrent(c) \/ ApplyExplicit(c) \/ DraftPreview(c)
                 \/ DraftRefused(c) \/ ApplyStale(c) \/ ApplyUnloadable(c) \/ SlotStep(c)
          PROVE  UNCHANGED <<CommittedRegistry, Proposals>>
      <3>1. UNCHANGED <<patches, reviewed, lock>> /\ lock # c
        BY <2>5, SentinelAssumption DEF DraftBegin, ApplyCurrent, ApplyExplicit,
           DraftPreview, DraftRefused, ApplyStale, ApplyUnloadable, SlotStep, MarkStale,
           ClearDraft, Inv, Ownership, Locked
      <3>2. \A b \in Clients \ {c} : phase'[b] = phase[b] /\ draft'[b] = draft[b]
        BY <2>5 DEF DraftBegin, ApplyCurrent, ApplyExplicit, DraftPreview, DraftRefused,
           ApplyStale, ApplyUnloadable, SlotStep, MarkStale, ClearDraft, Types, TypeOK
      <3>3. UNCHANGED CommittedRegistry
        BY <3>1, <3>2 DEF CommittedRegistry
      <3> QED BY <3>1, <3>3
    <2>6. ASSUME NEW c \in Clients, ApplyLock(c)
          PROVE  UNCHANGED <<CommittedRegistry, Proposals>>
      <3>1. CommittedRegistry = patches /\ CommittedRegistry' = patches
        BY <2>6, SentinelAssumption DEF ApplyLock, CommittedRegistry, Types, TypeOK
      <3> QED BY <2>6, <3>1 DEF ApplyLock
    <2>7. CASE UNCHANGED vars
      BY <2>7 DEF vars, CommittedRegistry
    <2> QED BY <2>0, <2>1, <2>2, <2>3, <2>4, <2>5, <2>6, <2>7
        DEF Next, DraftStep, LockStep, HeldStep, CommitStep, RollbackStep
  <1> QED BY <1>1, <1>2, TypeCorrect, Invariant, PTL DEF Spec, AppliesAtomically, Atomic!Spec

-----------------------------------------------------------------------------
(***************************************************************************)
(* PatchOperations: lists of operations.                                   *)
(***************************************************************************)
\* A set of natural numbers has a least one: what inductions along a list of
\* operations rest on.
LEMMA Least ==
  ASSUME NEW S \in SUBSET Nat, S # {}
  PROVE  \E n \in S : \A k \in S : n <= k
<1> DEFINE Less == OpToRel(<, Nat)
<1>1. IsWellFoundedOn(Less, Nat)
  BY NatLessThanWellFounded
<1> HIDE DEF Less
<1>2. PICK n \in S : \A k \in S : <<k, n>> \notin Less
  BY <1>1, WFMin
<1>3. \A k \in S : ~(k < n)
  <2>1. SUFFICES ASSUME NEW k \in S, k < n
                 PROVE  <<k, n>> \in Less
    BY <1>2
  <2>2. <<k, n>> \in Nat \X Nat /\ <<k, n>>[1] < <<k, n>>[2]
    BY <2>1
  <2> QED
    BY <2>2 DEF Less, OpToRel
<1>4. \A k \in S : n <= k
  BY <1>3
<1> QED
  BY <1>4

\* The first n registries of a list of operations.
Fits(g, n, records, ops) ==
    g = [i \in 1..n |-> IF i = 1 THEN records ELSE Operate(g[i - 1], ops[i - 1])]

\* The recursion that defines Previews has a solution.
LEMMA SomeFits ==
    ASSUME NEW records, NEW ops, NEW n \in Nat
    PROVE  \E g : Fits(g, n, records, ops)
  <1> DEFINE Bad == {m \in Nat : ~\E g : Fits(g, m, records, ops)}
  <1>1. SUFFICES ASSUME Bad # {} PROVE FALSE
    OBVIOUS
  <1>2. PICK m \in Bad : \A k \in Bad : m <= k
    BY <1>1, Least
  <1>3. m # 0
    <2> DEFINE g == [i \in 1..0 |-> records]
    <2>1. g = [i \in 1..0 |-> IF i = 1 THEN records ELSE Operate(g[i - 1], ops[i - 1])]
      OBVIOUS
    <2> QED
      BY <2>1 DEF Fits
  <1>4. m - 1 \in Nat /\ m - 1 \notin Bad
    BY <1>2, <1>3
  <1>5. PICK g : Fits(g, m - 1, records, ops)
    BY <1>4
  <1> DEFINE h == [i \in 1..m |-> IF i < m THEN g[i]
                                  ELSE IF i = 1 THEN records ELSE Operate(g[i - 1], ops[i - 1])]
  <1>6. Fits(h, m, records, ops)
    <2>1. \A i \in 1..m : h[i] = IF i = 1 THEN records ELSE Operate(h[i - 1], ops[i - 1])
      <3> SUFFICES ASSUME NEW i \in 1..m
                   PROVE  h[i] = IF i = 1 THEN records ELSE Operate(h[i - 1], ops[i - 1])
        OBVIOUS
      <3>1. i # 1 => h[i - 1] = g[i - 1]
        OBVIOUS
      <3>2. i < m => g[i] = IF i = 1 THEN records ELSE Operate(g[i - 1], ops[i - 1])
        BY <1>5 DEF Fits
      <3> QED
        BY <3>1, <3>2
    <2> HIDE DEF h
    <2> QED
      BY <2>1 DEF Fits, h
  <1> QED
    BY <1>2, <1>6

\* Previews is what its definition says: the registry before the first operation,
\* and after each what the operation made of the one before it.
LEMMA PreviewsDef ==
    ASSUME NEW records, NEW ops \in Seq(Operation)
    PROVE  /\ Previews(records, ops)[1] = records
           /\ \A i \in 1..Len(ops) :
                 Previews(records, ops)[i + 1] = Operate(Previews(records, ops)[i], ops[i])
  <1> DEFINE n == Len(ops) + 1
             seen == Previews(records, ops)
  <1>1. Len(ops) \in Nat
    OBVIOUS
  <1>2. seen = CHOOSE g : Fits(g, n, records, ops)
    BY DEF Previews, Fits
  <1>3. Fits(seen, n, records, ops)
    BY <1>1, <1>2, SomeFits
  <1> HIDE DEF seen
  <1>4. \A i \in 1..n : seen[i] = IF i = 1 THEN records ELSE Operate(seen[i - 1], ops[i - 1])
    BY <1>3, Zenon DEF Fits
  <1> QED
    BY <1>1, <1>4 DEF seen

-----------------------------------------------------------------------------
(* One operation.                                                          *)

\* A registry whose patches are valid and have ids of their own; their orders may
\* collide between two operations.
Sane(records) ==
    /\ records \subseteq PatchFile
    /\ \A r \in records : ValidPatch(r)
    /\ \A r, s \in records : r.id = s.id => r = s

\* A registry that loads is sane.
LEMMA ValidIsSane ==
    ASSUME NEW records \in SUBSET PatchFile, ValidRecords(records)
    PROVE  Sane(records)
  BY DEF ValidRecords, Sane

\* The greatest of some integers that are bounded.
LEMMA MaxIs ==
    ASSUME NEW T \in SUBSET Int, T # {}, NEW b \in Int, \A t \in T : t <= b
    PROVE  Max(T) \in T /\ \A t \in T : t <= Max(T)
  <1> DEFINE D == {b - t : t \in T}
  <1>1. D \in SUBSET Nat /\ D # {}
    OBVIOUS
  <1>2. PICK d \in D : \A e \in D : d <= e
    BY <1>1, Least
  <1>3. PICK m \in T : d = b - m
    BY <1>2
  <1>4. \A t \in T : t <= m
    <2> TAKE t \in T
    <2>1. b - m <= b - t
      BY <1>2, <1>3
    <2> QED
      BY <2>1
  <1>5. \A t \in T : m >= t
    BY <1>4
  <1>6. Max(T) \in T /\ \A t \in T : Max(T) >= t
    BY <1>5, Zenon DEF Max
  <1> QED
    BY <1>6

\* Get finds the one patch of an id, or tells that there is none.
LEMMA Found ==
    ASSUME NEW records, Sane(records), NEW id
    PROVE  /\ Get(records, id) # None => Get(records, id) \in records /\ Get(records, id).id = id
           /\ \A r \in records : r.id = id => Get(records, id) = r
           /\ Get(records, id) = None <=> \A r \in records : r.id # id
  <1> DEFINE found == {r \in records : r.id = id}
  <1>1. CASE found = {}
    BY <1>1 DEF Get
  <1>2. CASE found # {}
    <2>1. (CHOOSE r \in found : TRUE) \in found
      BY <1>2, Zenon
    <2>2. Get(records, id) \in found
      BY <1>2, <2>1 DEF Get
    <2>3. Get(records, id) # None
      BY <2>2, GivenAssumption DEF Sane
    <2> QED
      BY <2>2, <2>3 DEF Sane
  <1> QED
    BY <1>1, <1>2

\* Get depends only on the patches of the id.
LEMMA SameFound ==
    ASSUME NEW old, Sane(old), NEW new, Sane(new), NEW id,
           \A r : r.id = id => (r \in old <=> r \in new)
    PROVE  Get(old, id) = Get(new, id)
  BY Found

\* The first of three values that is given.
LEMMA GivenOf ==
    ASSUME NEW a, NEW b, NEW c, c # None
    PROVE  FirstGiven(<<a, b, c>>) = IF a # None THEN a ELSE IF b # None THEN b ELSE c
  <1> DEFINE values == <<a, b, c>>
             given == {i \in DOMAIN values : values[i] # None}
             first == CHOOSE i \in given : \A j \in given : i <= j
             k == IF a # None THEN 1 ELSE IF b # None THEN 2 ELSE 3
  <1>1. DOMAIN values = 1..3
    OBVIOUS
  <1>2. given = {i \in 1..3 : values[i] # None}
    BY <1>1
  <1>3. k \in given /\ \A j \in given : k <= j
    <2>1. values[1] = a /\ values[2] = b /\ values[3] = c
      OBVIOUS
    <2>2. k \in 1..3 /\ values[k] # None
      BY <2>1
    <2>3. \A j \in 1..3 : j < k => values[j] = None
      BY <2>1
    <2> HIDE DEF values, k
    <2> QED
      BY <1>2, <2>2, <2>3
  <1>4. given \subseteq Int
    BY <1>2
  <1>5. first \in given /\ \A j \in given : first <= j
    <2> HIDE DEF given, k
    <2> QED
      BY <1>3, Zenon
  <1>6. first = k
    <2> HIDE DEF given, first
    <2> QED
      BY <1>3, <1>4, <1>5
  <1>7. FirstGiven(values) = values[first]
    BY DEF FirstGiven
  <1> QED
    BY <1>6, <1>7

\* The next user order id is after all patches that are not tombstones.
LEMMA NextOrder ==
    ASSUME NEW records, Sane(records)
    PROVE  /\ NextUserOrder(records) \in Int
           /\ \A r \in records : r.status # "tombstoned" => r.order + Unit <= NextUserOrder(records)
  <1> DEFINE T == {FirstUser} \union {r.order : r \in {x \in records : x.status # "tombstoned"}}
             b == FirstUser + OrderLimit
  <1>1. FirstUser \in Nat /\ OrderLimit \in Nat /\ Unit \in Nat
    BY OrderAssumption
  <1>2. \A r \in records : r.order \in 0..(OrderLimit - 1)
    BY DEF Sane, ValidPatch, ValidOrder
  <1>3. T \in SUBSET Int /\ T # {} /\ b \in Int /\ \A t \in T : t <= b
    BY <1>1, <1>2
  <1>4. Max(T) \in T /\ \A t \in T : t <= Max(T)
    <2> HIDE DEF T, b
    <2> QED
      BY <1>3, MaxIs
  <1>5. NextUserOrder(records) = Max(T) + Unit
    BY DEF NextUserOrder
  <1>6. \A r \in records : r.status # "tombstoned" => r.order <= Max(T)
    <2>1. \A r \in records : r.status # "tombstoned" => r.order \in T
      OBVIOUS
    <2> QED
      BY <1>4, <2>1
  <1>7. Max(T) \in Int
    BY <1>3, <1>4
  <1> HIDE DEF T
  <1> QED
    BY <1>1, <1>2, <1>5, <1>6, <1>7

\* What an upsert writes is a patch of its id, last when nothing says otherwise.
LEMMA UpsertPatch ==
    ASSUME NEW records, Sane(records), NEW op \in Operation
    PROVE  LET patch == PatchFromUpsert(op, Get(records, op.id), records)
           IN /\ patch \in PatchFile
              /\ patch.id = op.id
              /\ op.order = None /\ Get(records, op.id) = None =>
                    patch.order = NextUserOrder(records)
  <1> DEFINE existing == Get(records, op.id)
             patch == PatchFromUpsert(op, existing, records)
             old == IF existing = None
                    THEN [title |-> None, source |-> None, status |-> None, order |-> None]
                    ELSE existing
  <1>1. old.title \in Text \union {None} /\ old.source \in Text \union {None}
        /\ old.status \in Text \union {None} /\ old.order \in Int \union {None}
        /\ (existing = None => old.order = None)
    BY Found DEF Sane, PatchFile
  <1>2. op.id \in Text /\ op.title \in Text \union {None} /\ op.source \in Text \union {None}
        /\ op.status \in Text \union {None} /\ op.order \in Int \union {None} /\ op.overlay \in Text
    BY DEF Operation
  <1>3. NextUserOrder(records) \in Int
    BY NextOrder
  <1>4. "user" # None /\ "enabled" # None /\ op.id # None /\ NextUserOrder(records) # None
    <2>1. "user" \in Text /\ "enabled" \in Text
      BY TextAssumption DEF Statuses
    <2> QED
      BY <2>1, <1>2, <1>3, GivenAssumption
  <1> DEFINE Given(a, b, c) == IF a # None THEN a ELSE IF b # None THEN b ELSE c
  <1>5. patch = [id |-> op.id,
                 title |-> Given(op.title, old.title, op.id),
                 source |-> Given(op.source, old.source, "user"),
                 status |-> Given(op.status, old.status, "enabled"),
                 order |-> Given(op.order, old.order, NextUserOrder(records)),
                 overlay |-> op.overlay]
    <2>1. FirstGiven(<<op.title, old.title, op.id>>) = Given(op.title, old.title, op.id)
      BY <1>4, GivenOf
    <2>2. FirstGiven(<<op.source, old.source, "user">>) = Given(op.source, old.source, "user")
      BY <1>4, GivenOf
    <2>3. FirstGiven(<<op.status, old.status, "enabled">>) = Given(op.status, old.status, "enabled")
      BY <1>4, GivenOf
    <2>4. FirstGiven(<<op.order, old.order, NextUserOrder(records)>>)
             = Given(op.order, old.order, NextUserOrder(records))
      BY <1>4, GivenOf
    <2>5. patch = [id |-> op.id,
                   title |-> FirstGiven(<<op.title, old.title, op.id>>),
                   source |-> FirstGiven(<<op.source, old.source, "user">>),
                   status |-> FirstGiven(<<op.status, old.status, "enabled">>),
                   order |-> FirstGiven(<<op.order, old.order, NextUserOrder(records)>>),
                   overlay |-> op.overlay]
      BY DEF PatchFromUpsert
    <2> HIDE DEF patch, old, Given
    <2> QED
      BY <2>1, <2>2, <2>3, <2>4, <2>5
  <1> HIDE DEF old, patch, existing
  <1>6. patch \in PatchFile
    <2>1. Given(op.title, old.title, op.id) \in Text
      BY <1>1, <1>2
    <2>2. Given(op.source, old.source, "user") \in Text \union {None}
      BY <1>1, <1>2, TextAssumption
    <2>3. Given(op.status, old.status, "enabled") \in Text \union {None}
      BY <1>1, <1>2, TextAssumption DEF Statuses
    <2>4. Given(op.order, old.order, NextUserOrder(records)) \in Int
      BY <1>1, <1>2, <1>3
    <2> HIDE DEF Given
    <2> QED
      BY <1>2, <1>5, <2>1, <2>2, <2>3, <2>4 DEF PatchFile
  <1>7. patch.id = op.id
    BY <1>5
  <1>8. op.order = None /\ existing = None => patch.order = NextUserOrder(records)
    BY <1>1, <1>5
  <1> QED
    BY <1>6, <1>7, <1>8 DEF patch, existing

\* A midpoint that there is room for lies between its neighbours.
LEMMA Midpoint ==
    ASSUME NEW records, Sane(records), NEW after, NEW before,
           MidpointOrder(records, after, before) # None
    PROVE  /\ MidpointOrder(records, after, before) \in Int
           /\ after # None =>
                 /\ Get(records, after) \in records
                 /\ Get(records, after).order < MidpointOrder(records, after, before)
           /\ before # None =>
                 /\ Get(records, before) \in records
                 /\ MidpointOrder(records, after, before) < Get(records, before).order
  <1> DEFINE low == IF after = None THEN -1 ELSE Get(records, after).order
             high == IF before = None THEN OpenEnd ELSE Get(records, before).order
             mid == (low + high) \div 2
  <1>1. after # None => Get(records, after) # None
    BY DEF MidpointOrder
  <1>2. before # None => Get(records, before) # None
    BY DEF MidpointOrder
  <1>3. \A r \in records : r.order \in Int
    BY DEF Sane, PatchFile
  <1>4. /\ after # None => Get(records, after) \in records
        /\ before # None => Get(records, before) \in records
    BY <1>1, <1>2, Found
  <1>5. low \in Int /\ high \in Int
    BY <1>3, <1>4, OrderAssumption
  <1>6. ~(high - low <= 1) /\ MidpointOrder(records, after, before) = mid
    BY DEF MidpointOrder
  <1>7. mid \in Int /\ low < mid /\ mid < high
    <2> HIDE DEF low, high
    <2> QED
      BY <1>5, <1>6
  <1> QED
    BY <1>4, <1>6, <1>7

\* A refusal is no registry.
LEMMA RefusedNotSane == ~Sane(Refused)
  BY GivenAssumption DEF Sane, Refused

\* Upsert puts a patch in the place of the one of its id.
LEMMA UpsertKeeps ==
    ASSUME NEW records, Sane(records), NEW patch \in PatchFile, ValidPatch(patch)
    PROVE  /\ Sane(Upsert(records, patch))
           /\ Get(Upsert(records, patch), patch.id) = patch
           /\ \A r : r.id # patch.id => (r \in records <=> r \in Upsert(records, patch))
  <1>1. Sane(Upsert(records, patch))
    BY DEF Sane, Upsert
  <1>2. patch \in Upsert(records, patch)
    BY DEF Upsert
  <1>3. Get(Upsert(records, patch), patch.id) = patch
    BY <1>1, <1>2, Found
  <1>4. \A r : r.id # patch.id => (r \in records <=> r \in Upsert(records, patch))
    BY DEF Upsert
  <1> QED
    BY <1>1, <1>3, <1>4

\* What each kind of operation makes of a registry when it is accepted.
LEMMA Upserted ==
    ASSUME NEW records, Sane(records), NEW op \in Operation, op.op = "upsert_patch",
           ApplyOperation(records, op) # Refused
    PROVE  LET patch == PatchFromUpsert(op, Get(records, op.id), records)
           IN ValidPatch(patch) /\ ApplyOperation(records, op) = Upsert(records, patch)
  BY DEF ApplyOperation

LEMMA Known ==
    ASSUME NEW records, Sane(records), NEW op \in Operation, op.op # "upsert_patch",
           ApplyOperation(records, op) # Refused
    PROVE  /\ Get(records, op.id) \in records
           /\ Get(records, op.id).id = op.id
  <1>1. Get(records, op.id) # None
    BY DEF ApplyOperation
  <1> QED
    BY <1>1, Found

LEMMA PatchRemoved ==
    ASSUME NEW records, Sane(records), NEW op \in Operation, op.op = "remove_patch",
           ApplyOperation(records, op) # Refused
    PROVE  LET record == Get(records, op.id)
           IN ApplyOperation(records, op) \in
                 {records \ {record}, Upsert(records, [record EXCEPT !.status = "tombstoned"])}
  <1>1. Get(records, op.id) # None
    BY DEF ApplyOperation
  <1> QED
    BY <1>1 DEF ApplyOperation

LEMMA StatusSet ==
    ASSUME NEW records, Sane(records), NEW op \in Operation, op.op = "set_patch_status",
           ApplyOperation(records, op) # Refused
    PROVE  /\ op.status \in Statuses
           /\ ApplyOperation(records, op)
                 = Upsert(records, [Get(records, op.id) EXCEPT !.status = op.status])
  <1>1. Get(records, op.id) # None
    BY DEF ApplyOperation
  <1> QED
    BY <1>1 DEF ApplyOperation

LEMMA Reordered ==
    ASSUME NEW records, Sane(records), NEW op \in Operation, op.op = "reorder_patch",
           ApplyOperation(records, op) # Refused
    PROVE  LET order == IF op.order # None THEN op.order
                        ELSE MidpointOrder(records, op.after, op.before)
           IN /\ order # None /\ ValidOrder(order)
              /\ ApplyOperation(records, op)
                    = Upsert(records, [Get(records, op.id) EXCEPT !.order = order])
  <1>1. Get(records, op.id) # None
    BY DEF ApplyOperation
  <1> QED
    BY <1>1 DEF ApplyOperation

LEMMA Kinds ==
    ASSUME NEW records, Sane(records), NEW op \in Operation,
           ApplyOperation(records, op) # Refused
    PROVE  op.op \in {"upsert_patch", "remove_patch", "set_patch_status", "reorder_patch"}
  BY DEF ApplyOperation

\* An operation that is accepted keeps a registry sane, and changes no patch but
\* the one it names.
LEMMA Applied ==
    ASSUME NEW records, Sane(records), NEW op \in Operation,
           ApplyOperation(records, op) # Refused
    PROVE  /\ Sane(ApplyOperation(records, op))
           /\ \A r : r.id # op.id => (r \in records <=> r \in ApplyOperation(records, op))
  <1> DEFINE record == Get(records, op.id)
             result == ApplyOperation(records, op)
  <1>1. SUFFICES \/ \E patch \in PatchFile : patch.id = op.id /\ ValidPatch(patch) /\ result = Upsert(records, patch)
                 \/ \E r \in records : r.id = op.id /\ result = records \ {r}
    <2>1. CASE \E patch \in PatchFile : patch.id = op.id /\ ValidPatch(patch) /\ result = Upsert(records, patch)
      BY <2>1, UpsertKeeps
    <2>2. CASE \E r \in records : r.id = op.id /\ result = records \ {r}
      BY <2>2 DEF Sane
    <2> QED
      BY <2>1, <2>2
  <1>2. CASE op.op = "upsert_patch"
    BY <1>2, Upserted, UpsertPatch
  <1>3. CASE op.op # "upsert_patch"
    <2>1. record \in records /\ record.id = op.id
      BY <1>3, Known
    <2>2. record \in PatchFile /\ ValidPatch(record)
      BY <2>1 DEF Sane
    <2> HIDE DEF record
    <2>3. CASE op.op = "remove_patch"
      <3>1. [record EXCEPT !.status = "tombstoned"] \in PatchFile
            /\ [record EXCEPT !.status = "tombstoned"].id = op.id
            /\ ValidPatch([record EXCEPT !.status = "tombstoned"])
        BY <2>1, <2>2, TextAssumption DEF PatchFile, ValidPatch, Statuses
      <3> QED
        BY <2>1, <2>3, <3>1, PatchRemoved DEF record
    <2>4. CASE op.op = "set_patch_status"
      <3>1. op.status \in Statuses
        BY <2>4, StatusSet
      <3>2. [record EXCEPT !.status = op.status] \in PatchFile
            /\ [record EXCEPT !.status = op.status].id = op.id
            /\ ValidPatch([record EXCEPT !.status = op.status])
        BY <2>1, <2>2, <3>1, TextAssumption DEF PatchFile, ValidPatch
      <3> QED
        BY <2>1, <2>4, <3>2, StatusSet DEF record
    <2>5. CASE op.op = "reorder_patch"
      <3> DEFINE order == IF op.order # None THEN op.order
                          ELSE MidpointOrder(records, op.after, op.before)
      <3>1. ValidOrder(order) /\ result = Upsert(records, [record EXCEPT !.order = order])
        BY <2>5, Reordered DEF record
      <3> HIDE DEF order, result
      <3>2. [record EXCEPT !.order = order] \in PatchFile
            /\ [record EXCEPT !.order = order].id = op.id
            /\ ValidPatch([record EXCEPT !.order = order])
        BY <2>1, <2>2, <3>1, OrderAssumption DEF PatchFile, ValidPatch, ValidOrder
      <3> QED
        BY <3>1, <3>2
    <2> QED
      BY <1>3, <2>3, <2>4, <2>5, Kinds
  <1> QED
    BY <1>2, <1>3

\* In a list that is accepted every operation is: the registries between them are
\* sane, and each is what the operation made of the one before.
LEMMA Accepted ==
    ASSUME NEW records, Sane(records), NEW ops \in Seq(Operation),
           PendingRecords(records, ops) # Refused,
           NEW i \in 1..(Len(ops) + 1)
    PROVE  /\ Sane(Previews(records, ops)[i])
           /\ i <= Len(ops) =>
                 /\ ops[i].base \in {None, Get(Previews(records, ops)[i], ops[i].id)}
                 /\ Previews(records, ops)[i + 1] = ApplyOperation(Previews(records, ops)[i], ops[i])
                 /\ ApplyOperation(Previews(records, ops)[i], ops[i]) # Refused
  <1> DEFINE n == Len(ops)
             seen == Previews(records, ops)
  <1>1. n \in Nat /\ \A j \in 1..n : ops[j] \in Operation
    OBVIOUS
  <1>2. seen[1] = records /\ \A j \in 1..n : seen[j + 1] = Operate(seen[j], ops[j])
    BY PreviewsDef
  <1>3. seen[n + 1] # Refused
    BY DEF PendingRecords
  <1> HIDE DEF seen, n
  <1>4. \A j \in 1..(n + 1) : seen[j] # Refused
    <2> DEFINE Bad == {k \in Nat : k <= n /\ seen[n + 1 - k] = Refused}
    <2>1. SUFFICES ASSUME Bad # {} PROVE FALSE
      <3> SUFFICES ASSUME NEW j \in 1..(n + 1), seen[j] = Refused PROVE Bad # {}
        BY <2>1
      <3>1. n + 1 - j \in Nat /\ n + 1 - j <= n /\ n + 1 - (n + 1 - j) = j
        BY <1>1
      <3> QED
        BY <3>1
    <2>2. PICK k \in Bad : \A l \in Bad : k <= l
      BY <2>1, Least
    <2>3. k # 0
      BY <1>1, <1>3, <2>2
    <2>4. k - 1 \in Nat /\ k - 1 <= n /\ k - 1 \notin Bad
      <3>1. k \in Nat /\ k <= n
        BY <2>2
      <3>2. k - 1 \in Nat /\ k - 1 <= n
        BY <1>1, <2>3, <3>1
      <3> HIDE DEF Bad
      <3>3. k - 1 \notin Bad
        BY <2>2, <3>1
      <3> QED
        BY <3>2, <3>3
    <2>5. seen[n + 1 - (k - 1)] # Refused
      BY <2>4
    <2>6. n + 1 - k \in 1..n /\ n + 1 - (k - 1) = (n + 1 - k) + 1
      BY <1>1, <2>2, <2>3
    <2>7. seen[n + 1 - (k - 1)] = Operate(seen[n + 1 - k], ops[n + 1 - k])
      BY <1>2, <2>6
    <2>8. Operate(seen[n + 1 - k], ops[n + 1 - k]) = Refused
      BY <2>2 DEF Operate
    <2> QED
      BY <2>5, <2>7, <2>8
  <1>5. \A j \in 1..n : /\ ops[j].base \in {None, Get(seen[j], ops[j].id)}
                        /\ seen[j + 1] = ApplyOperation(seen[j], ops[j])
                        /\ seen[j + 1] # Refused
    <2> TAKE j \in 1..n
    <2>1. j + 1 \in 1..(n + 1)
      BY <1>1
    <2>2. seen[j + 1] # Refused
      BY <1>4, <2>1
    <2> QED
      BY <1>2, <2>2 DEF Operate
  <1>6. \A j \in 1..(n + 1) : Sane(seen[j])
    <2> DEFINE Bad == {k \in Nat : k \in 1..(n + 1) /\ ~Sane(seen[k])}
    <2>1. SUFFICES ASSUME Bad # {} PROVE FALSE
      BY <1>1
    <2>2. PICK k \in Bad : \A l \in Bad : k <= l
      BY <2>1, Least
    <2>3. k # 1
      BY <1>2, <2>2
    <2>4. k - 1 \in 1..n /\ (k - 1) + 1 = k
      BY <1>1, <2>2, <2>3
    <2>5. Sane(seen[k - 1])
      BY <1>1, <2>2, <2>4
    <2>6. Sane(seen[(k - 1) + 1])
      BY <1>1, <1>5, <2>4, <2>5, Applied
    <2> QED
      BY <2>2, <2>4, <2>6
  <1> QED
    BY <1>1, <1>5, <1>6 DEF seen, n

\* Up to the first operation that names it, a patch is as it was.
LEMMA Unnamed ==
    ASSUME NEW records, Sane(records), NEW ops \in Seq(Operation),
           PendingRecords(records, ops) # Refused,
           NEW i \in 1..(Len(ops) + 1), NEW id,
           \A j \in 1..(i - 1) : ops[j].id # id
    PROVE  \A r : r.id = id => (r \in records <=> r \in Previews(records, ops)[i])
  <1> DEFINE n == Len(ops)
             seen == Previews(records, ops)
             Same(k) == \A r : r.id = id => (r \in records <=> r \in seen[k])
  <1>1. n \in Nat /\ \A j \in 1..n : ops[j] \in Operation
    OBVIOUS
  <1>2. seen[1] = records
    BY PreviewsDef
  <1>3. \A j \in 1..n : /\ Sane(seen[j])
                        /\ seen[j + 1] = ApplyOperation(seen[j], ops[j])
                        /\ ApplyOperation(seen[j], ops[j]) # Refused
    BY <1>1, Accepted
  <1> HIDE DEF seen
  <1> DEFINE Bad == {k \in Nat : k \in 1..i /\ ~Same(k)}
  <1>4. SUFFICES ASSUME Bad # {} PROVE FALSE
    <2>1. i \in Nat /\ i \in 1..i
      BY <1>1
    <2>2. ASSUME Bad = {} PROVE Same(i)
      BY <2>1, <2>2
    <2> QED
      BY <1>4, <2>2 DEF seen
  <1>5. PICK k \in Bad : \A l \in Bad : k <= l
    BY <1>4, Least
  <1>6. k # 1
    BY <1>2, <1>5
  <1>7. k - 1 \in 1..n /\ (k - 1) + 1 = k /\ k - 1 \in 1..(i - 1) /\ k - 1 \in 1..i
    BY <1>1, <1>5, <1>6
  <1>8. Same(k - 1)
    <2>1. k - 1 \notin Bad
      BY <1>5, <1>7
    <2> QED
      BY <1>7, <2>1
  <1>9. ops[k - 1].id # id /\ ops[k - 1] \in Operation
    BY <1>1, <1>7
  <1>10. \A r : r.id # ops[k - 1].id => (r \in seen[k - 1] <=> r \in seen[(k - 1) + 1])
    BY <1>3, <1>7, <1>9, Applied
  <1>11. Same(k)
    BY <1>7, <1>8, <1>9, <1>10
  <1> QED
    BY <1>5, <1>11

\* What a preview that is accepted answers.
LEMMA PreviewOk ==
    ASSUME NEW records, NEW ops, PreviewOperations(records, ops).ok
    PROVE  /\ PendingRecords(records, ops) # Refused
           /\ ValidRecords(PendingRecords(records, ops))
           /\ PreviewOperations(records, ops).hashes = BaseHashes(records, ops)
           /\ PreviewOperations(records, ops).pending = PendingRecords(records, ops)
  BY DEF PreviewOperations

\* What an accepted list leaves is sane.
LEMMA PendingSane ==
    ASSUME NEW records, Sane(records), NEW ops \in Seq(Operation),
           PendingRecords(records, ops) # Refused
    PROVE  Sane(PendingRecords(records, ops))
  <1>1. Len(ops) + 1 \in 1..(Len(ops) + 1)
    OBVIOUS
  <1> QED
    BY <1>1, Accepted DEF PendingRecords

\* A list that names as many patches as it has operations names none twice.
LEMMA DistinctNames ==
    ASSUME NEW ops \in Seq(Operation), ~(Cardinality(Names(ops)) < Len(ops))
    PROVE  \A i, j \in 1..Len(ops) : ops[i].id = ops[j].id => i = j
  <1> DEFINE n == Len(ops)
             f == [i \in 1..n |-> ops[i].id]
  <1>1. n \in Nat /\ DOMAIN ops = 1..n
    OBVIOUS
  <1>2. IsFiniteSet(1..n) /\ Cardinality(1..n) = n
    BY <1>1, FS_Interval
  <1>3. f \in Surjection(1..n, Names(ops))
    BY <1>1 DEF Names, Surjection
  <1>4. /\ Cardinality(Names(ops)) <= n
        /\ IsFiniteSet(Names(ops))
        /\ Cardinality(Names(ops)) = n <=> f \in Injection(1..n, Names(ops))
    <2> HIDE DEF f, n
    <2> QED
      BY <1>2, <1>3, FS_Surjection
  <1>5. Cardinality(Names(ops)) \in Nat
    BY <1>4, FS_CardinalityType
  <1>6. f \in Injection(1..n, Names(ops))
    BY <1>1, <1>4, <1>5
  <1> QED
    BY <1>6 DEF Injection, IsInjective

\* The base hashes of such a list are those of the registry it starts from.
LEMMA HashesVerify ==
    ASSUME NEW records, Sane(records), NEW ops \in Seq(Operation),
           PendingRecords(records, ops) # Refused,
           ~(Cardinality(Names(ops)) < Len(ops))
    PROVE  VerifyBaseHashes(records, BaseHashes(records, ops))
  <1> DEFINE Last_(id) == Max({i \in DOMAIN ops : ops[i].id = id})
  <1>1. DOMAIN ops = 1..Len(ops)
    OBVIOUS
  <1>2. DOMAIN BaseHashes(records, ops) = Names(ops)
        /\ \A id \in Names(ops) :
              BaseHashes(records, ops)[id] = Get(Previews(records, ops)[Last_(id)], id)
    BY DEF BaseHashes
  <1>3. ASSUME NEW id \in Names(ops)
        PROVE  Get(records, id) = Get(Previews(records, ops)[Last_(id)], id)
    <2>1. PICK i \in 1..Len(ops) : ops[i].id = id
      BY <1>1 DEF Names
    <2>2. \A j \in 1..Len(ops) : ops[j].id = id => j = i
      BY <2>1, DistinctNames
    <2>3. {j \in DOMAIN ops : ops[j].id = id} = {i}
      BY <1>1, <2>1, <2>2
    <2>4. Max({i}) = i
      BY DEF Max
    <2>5. Last_(id) = i
      BY <2>3, <2>4
    <2>6. i \in 1..(Len(ops) + 1) /\ \A j \in 1..(i - 1) : j \in 1..Len(ops) /\ j # i
      BY <2>1
    <2>7. \A j \in 1..(i - 1) : ops[j].id # id
      BY <2>2, <2>6
    <2>8. \A r : r.id = id => (r \in records <=> r \in Previews(records, ops)[i])
      BY <2>6, <2>7, Unnamed
    <2>9. Sane(Previews(records, ops)[i])
      BY <2>6, Accepted
    <2>10. Get(records, id) = Get(Previews(records, ops)[i], id)
      BY <2>8, <2>9, SameFound
    <2> QED
      BY <2>5, <2>10
  <1> HIDE DEF Last_
  <1> QED
    BY <1>2, <1>3 DEF VerifyBaseHashes

-----------------------------------------------------------------------------
(* Drafts.                                                                 *)

\* A draft that was answered: its operations were accepted on a registry that
\* loads, and it says what they make of it.
Drafted(d) ==
    /\ d.ops \in Drafts
    /\ d.base \subseteq PatchFile /\ ValidRecords(d.base)
    /\ PreviewOperations(d.base, d.ops).ok
    /\ d.hashes = BaseHashes(d.base, d.ops)
    /\ d.pending = PendingRecords(d.base, d.ops)

\* What follows for the registries of a draft.
LEMMA DraftedIs ==
    ASSUME NEW d, Drafted(d)
    PROVE  /\ d.ops \in Seq(Operation) /\ d.ops # <<>>
           /\ Sane(d.base) /\ Sane(d.pending) /\ ValidRecords(d.pending)
           /\ PendingRecords(d.base, d.ops) # Refused
  <1>1. d.ops \in Seq(Operation) /\ d.ops # <<>>
    BY InputAssumption DEF Drafted
  <1>2. Sane(d.base)
    BY ValidIsSane DEF Drafted
  <1>3. PendingRecords(d.base, d.ops) # Refused /\ ValidRecords(d.pending)
    BY PreviewOk DEF Drafted
  <1>4. Sane(d.pending)
    BY <1>1, <1>2, <1>3, PendingSane DEF Drafted
  <1> QED
    BY <1>1, <1>2, <1>3, <1>4

\* PlacedAsAsked, of one draft.
Placed(d) ==
    LET op == Last(d.ops)
        before == Previews(d.base, d.ops)[Len(d.ops)]
        placed == Get(d.pending, op.id)
        Order(id) == Get(d.pending, id).order
    IN /\ (op.op = "reorder_patch" /\ op.order = None) =>
             /\ op.after \notin {None, op.id} => Order(op.after) < placed.order
             /\ op.before \notin {None, op.id} => placed.order < Order(op.before)
       /\ (op.op = "upsert_patch" /\ op.order = None /\ Get(before, op.id) = None) =>
             \A r \in d.pending \ {placed} :
                r.status # "tombstoned" => r.order < placed.order

\* The last operation of a draft places its patch as PlacedAsAsked says.
LEMMA DraftPlaces ==
    ASSUME NEW d, Drafted(d)
    PROVE  Placed(d)
  <1> DEFINE n == Len(d.ops)
             op == Last(d.ops)
             before == Previews(d.base, d.ops)[n]
             placed == Get(d.pending, op.id)
  <1>1. n \in 1..n /\ n \in 1..(n + 1) /\ op = d.ops[n] /\ op \in Operation
    BY DraftedIs DEF Last
  <1>2. Sane(before) /\ d.pending = ApplyOperation(before, op) /\ ApplyOperation(before, op) # Refused
    <2>1. d.pending = Previews(d.base, d.ops)[n + 1]
      BY DEF Drafted, PendingRecords
    <2>2. d.ops \in Seq(Operation) /\ Sane(d.base) /\ PendingRecords(d.base, d.ops) # Refused
      BY DraftedIs
    <2>3. n \in 1..(Len(d.ops) + 1) /\ n <= Len(d.ops)
      BY <1>1, <2>2
    <2>4. Sane(before) /\ d.pending = ApplyOperation(before, d.ops[n])
          /\ ApplyOperation(before, d.ops[n]) # Refused
      BY <2>1, <2>2, <2>3, Accepted
    <2> QED
      BY <1>1, <2>4
  <1> HIDE DEF before, op, n
  <1>3. Sane(d.pending) /\ \A r : r.id # op.id => (r \in before <=> r \in d.pending)
    BY <1>1, <1>2, Applied
  <1>4. \A id : id # op.id => Get(before, id) = Get(d.pending, id)
    BY <1>2, <1>3, SameFound
  <1>5. ASSUME op.op = "reorder_patch", op.order = None
        PROVE  /\ op.after \notin {None, op.id} => Get(d.pending, op.after).order < placed.order
               /\ op.before \notin {None, op.id} => placed.order < Get(d.pending, op.before).order
    <2> DEFINE order == MidpointOrder(before, op.after, op.before)
               record == Get(before, op.id)
               moved == [record EXCEPT !.order = order]
    <2>1. order # None /\ ValidOrder(order) /\ d.pending = Upsert(before, moved)
      BY <1>1, <1>2, <1>5, Reordered
    <2>2. record \in before /\ record.id = op.id
      BY <1>1, <1>2, <1>5, Known
    <2>3. moved \in PatchFile /\ moved.id = op.id /\ moved.order = order /\ ValidPatch(moved)
      <3>1. record \in PatchFile /\ ValidPatch(record)
        BY <1>2, <2>2 DEF Sane
      <3> HIDE DEF record, order
      <3> QED
        BY <2>1, <2>2, <3>1, OrderAssumption DEF PatchFile, ValidOrder, ValidPatch
    <2> HIDE DEF moved
    <2>4. placed = moved
      BY <1>2, <2>1, <2>3, UpsertKeeps
    <2>5. /\ op.after # None => Get(before, op.after).order < order
          /\ op.before # None => order < Get(before, op.before).order
      BY <1>2, <2>1, Midpoint
    <2> QED
      BY <1>4, <2>3, <2>4, <2>5
  <1>6. ASSUME op.op = "upsert_patch", op.order = None, Get(before, op.id) = None
        PROVE  \A r \in d.pending \ {placed} : r.status # "tombstoned" => r.order < placed.order
    <2> DEFINE patch == PatchFromUpsert(op, Get(before, op.id), before)
    <2>1. ValidPatch(patch) /\ d.pending = Upsert(before, patch)
      BY <1>1, <1>2, <1>6, Upserted
    <2>2. patch \in PatchFile /\ patch.id = op.id /\ patch.order = NextUserOrder(before)
      BY <1>1, <1>2, <1>6, UpsertPatch
    <2> HIDE DEF patch
    <2>3. placed = patch
      BY <1>2, <2>1, <2>2, UpsertKeeps
    <2>4. d.pending \ {placed} \subseteq before
      BY <2>1, <2>3 DEF Upsert
    <2>5. /\ \A r \in before : r.order \in Int
          /\ \A r \in before : r.status # "tombstoned" => r.order + Unit <= NextUserOrder(before)
          /\ NextUserOrder(before) \in Int /\ Unit \in Nat \ {0}
      BY <1>2, NextOrder, OrderAssumption DEF Sane, PatchFile
    <2> QED
      BY <2>2, <2>3, <2>4, <2>5
  <1> HIDE DEF placed
  <1> QED
    BY <1>5, <1>6 DEF Placed, placed, op, before, n

-----------------------------------------------------------------------------
(***************************************************************************)
(* The inductive invariant of drafts, applies and imports.                 *)
(***************************************************************************)

\* What the import under way has written.
Written == {sources[i] : i \in 1..(import.next - 1)}

(* What there was and stays, and what the import has written.              *)
Mixed(records) ==
    \E old \in SUBSET PatchFile :
        /\ ValidRecords(old)
        /\ records \subseteq old \union ToSet(sources)
        /\ mode = "refresh" => \A r \in old : r.source # "policy_template"
        /\ mode = "reset" => old = {}

(* What a registry may have become that does not load.                     *)
Excused(records) ==
    \/ ValidRecords(records)
    \/ \E r \in records : r.status = None
    \/ \E s \in ToSet(sources) \intersect records : \E r \in records \ {s} :
          /\ r.id = s.id \/ r.order = s.order
          /\ mode = "add" \/ (mode = "refresh" /\ r.source # "policy_template")

\* Types, as far as the rest needs them.
Shaped ==
    /\ registry \subseteq PatchFile
    /\ sources \in Seq(PatchFile)
    /\ import.pc \in {"idle", "remove", "write"}
    /\ import.pc = "remove" =>
          mode \in {"reset", "refresh"} /\ import = [pc |-> "remove", files |-> import.files]
    /\ import.pc = "write" =>
          /\ mode \in {"add", "reset", "refresh"}
          /\ import = [pc |-> "write", next |-> import.next]
          /\ import.next \in 1..(Len(sources) + 1)

\* The apply in applyMu: it will leave a registry that loads, and as long as no
\* import ran beside it the registry is the one that it has read.
Under ==
    applying # None =>
        /\ applying.pending \subseteq PatchFile
        /\ ValidRecords(applying.pending)
        /\ ~raced => applying.current = registry /\ import.pc = "idle"

\* The import: what it has still to remove, then what it has removed and written,
\* and that a registry stops loading only through what LoadsUnlessCollision names.
Importing ==
    /\ import.pc = "remove" =>
          /\ mode = "reset" => \A r \in registry : File(r) \in import.files
          /\ sound => ValidRecords(registry)
          /\ mode = "refresh" /\ sound =>
                \A r \in registry : File(r) \in import.files \/ r.source # "policy_template"
    /\ ValidRecords(ToSet(sources)) =>
          /\ import.pc = "write" /\ sound => Mixed(registry)
          /\ import.pc = "write" /\ mode = "reset" => registry = Written
          /\ sound => Excused(registry)

OpsInv ==
    /\ Shaped /\ Under
    /\ answered # None => Drafted(answered)
    /\ ~raced => Importing

\* Two patches that collide are one that was there and one of the template.
LEMMA MixedIsExcused ==
    ASSUME NEW records, Mixed(records), ValidRecords(ToSet(sources)),
           mode \in {"add", "reset", "refresh"}
    PROVE  Excused(records)
  <1>1. PICK old \in SUBSET PatchFile :
                /\ ValidRecords(old)
                /\ records \subseteq old \union ToSet(sources)
                /\ mode = "refresh" => \A r \in old : r.source # "policy_template"
                /\ mode = "reset" => old = {}
    BY DEF Mixed
  <1>2. SUFFICES ASSUME ~ValidRecords(records)
                 PROVE  \E s \in ToSet(sources) \intersect records : \E r \in records \ {s} :
                           /\ r.id = s.id \/ r.order = s.order
                           /\ mode = "add" \/ (mode = "refresh" /\ r.source # "policy_template")
    BY DEF Excused
  <1>3. \A r \in records : ValidPatch(r)
    BY <1>1 DEF ValidRecords
  <1>4. PICK r \in records, s \in records :
           r # s /\ (r.id = s.id \/ (r.order = s.order /\ "tombstoned" \notin {r.status, s.status}))
    BY <1>2, <1>3 DEF ValidRecords
  <1>5. ~(r \in old /\ s \in old)
    BY <1>1, <1>4 DEF ValidRecords
  <1>6. ~(r \in ToSet(sources) /\ s \in ToSet(sources))
    BY <1>4 DEF ValidRecords
  <1>7. CASE r \in old /\ s \in ToSet(sources)
    BY <1>1, <1>4, <1>7
  <1>8. CASE s \in old /\ r \in ToSet(sources)
    BY <1>1, <1>4, <1>8
  <1> QED
    BY <1>1, <1>5, <1>6, <1>7, <1>8

\* A file that is written is a patch's.
LEMMA WriteKeeps ==
    ASSUME NEW records, records \subseteq PatchFile, NEW patch \in PatchFile
    PROVE  WritePatch(records, patch) \subseteq PatchFile
  BY DEF WritePatch

LEMMA OpsInitInv == OpsInit => OpsInv
  <1> SUFFICES ASSUME OpsInit PROVE OpsInv
    OBVIOUS
  <1>1. Shaped
    BY InputAssumption DEF OpsInit, Shaped, Idle
  <1>2. Importing
    BY DEF OpsInit, Importing, Idle, Excused
  <1> QED
    BY <1>1, <1>2 DEF OpsInv, Under, OpsInit

\* Steps of drafts and applies.
LEMMA DraftKeeps == OpsInv /\ DraftOperations => OpsInv'
  <1> SUFFICES ASSUME OpsInv, DraftOperations PROVE OpsInv'
    OBVIOUS
  <1>1. Drafted(answered)'
    BY PreviewOk DEF DraftOperations, Drafted, OpsInv, Shaped
  <1>2. Shaped' /\ Under'
    BY DEF OpsInv, Shaped, Under, DraftOperations
  <1>3. ~raced' => Importing'
    BY DEF OpsInv, Importing, Mixed, Excused, Written, DraftOperations
  <1> QED
    BY <1>1, <1>2, <1>3 DEF OpsInv

LEMMA ApplyKeeps == OpsInv /\ ApplyOperations => OpsInv'
  <1> SUFFICES ASSUME OpsInv, ApplyOperations PROVE OpsInv'
    OBVIOUS
  <1>1. Drafted(answered) /\ answered' = answered /\ registry = answered.base
    BY DEF OpsInv, ApplyOperations, ApplyAccepts
  <1>2. /\ applying'.pending \subseteq PatchFile
        /\ ValidRecords(applying'.pending)
        /\ applying'.current = registry
    <2>1. applying'.pending = answered.pending /\ applying'.current = registry
      BY <1>1, PreviewOk DEF ApplyOperations, ApplyAccepts, Drafted
    <2> QED
      BY <1>1, <2>1, DraftedIs DEF Sane
  <1>3. Under'
    BY <1>2 DEF Under, ApplyOperations, Shaped, OpsInv
  <1>4. Shaped'
    BY DEF OpsInv, Shaped, ApplyOperations
  <1>5. ~raced' => Importing'
    BY DEF OpsInv, Importing, Mixed, Excused, Written, ApplyOperations
  <1>6. Drafted(answered)'
    BY <1>1 DEF Drafted
  <1> QED
    BY <1>3, <1>4, <1>5, <1>6 DEF OpsInv

LEMMA CommitKeeps == OpsInv /\ ApplyCommit => OpsInv'
  <1> SUFFICES ASSUME OpsInv, ApplyCommit PROVE OpsInv'
    OBVIOUS
  <1>1. Shaped'
    BY DEF OpsInv, Shaped, Under, ApplyCommit
  <1>2. ASSUME ~raced' PROVE Importing'
    <2>1. ~raced /\ applying.current = registry /\ import.pc = "idle" /\ import' = import
          /\ ValidRecords(applying.pending)
      BY <1>2 DEF OpsInv, Under, ApplyCommit
    <2>2. registry' = applying.pending
      BY <2>1 DEF ApplyCommit
    <2> QED
      BY <2>1, <2>2 DEF Importing, Excused
  <1>3. Under' /\ (answered' # None => Drafted(answered)')
    BY DEF OpsInv, Under, Drafted, ApplyCommit
  <1> QED
    BY <1>1, <1>2, <1>3 DEF OpsInv

LEMMA FailedKeeps == OpsInv /\ ApplyFailed => OpsInv'
  <1> SUFFICES ASSUME OpsInv, ApplyFailed PROVE OpsInv'
    OBVIOUS
  <1>1. Shaped' /\ Under' /\ (answered' # None => Drafted(answered)')
    BY DEF OpsInv, Shaped, Under, Drafted, ApplyFailed
  <1>2. ~raced' => Importing'
    BY DEF OpsInv, Importing, Mixed, Excused, Written, ApplyFailed
  <1> QED
    BY <1>1, <1>2 DEF OpsInv

-----------------------------------------------------------------------------
\* Steps of an import.
LEMMA BeginKeeps == OpsInv /\ ImportBegin => OpsInv'
  <1> SUFFICES ASSUME OpsInv, ImportBegin PROVE OpsInv'
    OBVIOUS
  <1>1. PICK release \in DOMAIN Releases, how \in {"add", "reset", "refresh"} :
           /\ sources' = Releases[release] /\ mode' = how /\ sound' = ValidRecords(registry)
           /\ import' = IF how = "add" THEN [pc |-> "write", next |-> 1]
                        ELSE [pc |-> "remove", files |-> {File(r) : r \in registry}]
           /\ raced' = (raced \/ applying # None)
           /\ UNCHANGED <<registry, answered, applying>>
    BY DEF ImportBegin, PatchSources
  <1>2. sources' \in Seq(PatchFile) /\ Len(sources') \in Nat
    BY <1>1, InputAssumption
  <1>3. Shaped'
    BY <1>1, <1>2 DEF OpsInv, Shaped
  <1>4. Under' /\ (answered' # None => Drafted(answered)')
    BY <1>1 DEF OpsInv, Under, Drafted
  <1>5. Importing'
    <2>1. sound' => Excused(registry)'
      BY <1>1 DEF Excused
    <2>2. CASE how = "add"
      <3>1. sound' => Mixed(registry)'
        <4> SUFFICES ASSUME sound' PROVE Mixed(registry)'
          OBVIOUS
        <4> QED
          BY <1>1, <2>2 DEF Mixed, OpsInv, Shaped
      <3> QED
        BY <1>1, <2>1, <2>2, <3>1 DEF Importing
    <2>3. CASE how # "add"
      BY <1>1, <2>1, <2>3 DEF Importing
    <2> QED
      BY <2>2, <2>3
  <1> QED
    BY <1>3, <1>4, <1>5 DEF OpsInv

\* Steps of an import leave drafts and applies alone.
LEMMA ImportLeaves ==
    ASSUME OpsInv, KeepImport, import.pc # "idle", registry' \subseteq PatchFile
    PROVE  Under' /\ (answered' # None => Drafted(answered)')
  BY DEF OpsInv, Under, Drafted, KeepImport

LEMMA RemoveKeeps == OpsInv /\ ImportRemove => OpsInv'
  <1> SUFFICES ASSUME OpsInv, ImportRemove PROVE OpsInv'
    OBVIOUS
  <1>1. KeepImport /\ import.pc = "remove"
    BY DEF ImportRemove
  <1> DEFINE source(file) == IF At(file) = {} THEN None ELSE (CHOOSE r \in At(file) : TRUE).source
  <1>2. PICK file \in import.files :
           \/ /\ mode = "reset" \/ source(file) = "policy_template"
              /\ registry' = registry \ At(file)
              /\ import' = [import EXCEPT !.files = @ \ {file}]
           \/ /\ mode = "refresh" /\ source(file) = "user"
              /\ registry' = registry
              /\ import' = [import EXCEPT !.files = @ \ {file}]
           \/ /\ mode = "refresh"
              /\ registry' = registry
              /\ import' = Idle
    BY DEF ImportRemove
  <1>3. registry' \subseteq registry
    BY <1>2
  <1>4. Shaped' /\ import'.pc \in {"remove", "idle"}
        /\ (import'.pc = "remove" => import'.files = import.files \ {file})
    <2>1. CASE import' = Idle
      BY <1>1, <1>3, <2>1 DEF OpsInv, Shaped, KeepImport, Idle
    <2>2. CASE import' = [import EXCEPT !.files = @ \ {file}]
      <3>1. import = [pc |-> "remove", files |-> import.files]
        BY <1>1 DEF OpsInv, Shaped
      <3>2. import' = [pc |-> "remove", files |-> import.files \ {file}]
        BY <2>2, <3>1
      <3> QED
        BY <1>1, <1>3, <3>2 DEF OpsInv, Shaped, KeepImport
    <2> QED
      BY <1>2, <2>1, <2>2
  <1>5. Under' /\ (answered' # None => Drafted(answered)')
    BY <1>1, <1>3, ImportLeaves DEF OpsInv, Shaped
  <1>6. ASSUME ~raced' PROVE Importing'
    <2>1. Importing /\ mode' = mode /\ sources' = sources /\ sound' = sound
      BY <1>1, <1>6 DEF OpsInv, KeepImport
    <2>2. sound => ValidRecords(registry')
      BY <1>1, <1>3, <2>1 DEF Importing, ValidRecords
    <2>3. sound => Excused(registry)'
      BY <2>1, <2>2 DEF Excused
    <2>4. ASSUME import'.pc = "remove", mode = "reset"
          PROVE  \A r \in registry' : File(r) \in import'.files
      <3>1. registry' = registry \ At(file)
        BY <1>2, <1>4, <2>4 DEF Idle
      <3> QED
        BY <1>1, <1>4, <2>1, <2>4, <3>1 DEF Importing, At
    <2>5. ASSUME import'.pc = "remove", mode = "refresh", sound
          PROVE  \A r \in registry' : File(r) \in import'.files \/ r.source # "policy_template"
      <3>1. \A r \in registry : File(r) \in import.files \/ r.source # "policy_template"
        BY <1>1, <2>1, <2>5 DEF Importing
      <3>2. CASE registry' = registry \ At(file)
        BY <1>4, <2>5, <3>1, <3>2 DEF At
      <3>3. CASE registry' = registry /\ source(file) = "user"
        <4> SUFFICES ASSUME NEW r \in registry, File(r) = file
                     PROVE  r.source # "policy_template"
          BY <1>4, <2>5, <3>1, <3>3
        <4>1. ValidRecords(registry)
          BY <1>1, <2>1, <2>5 DEF Importing
        <4>2. \A s \in At(file) : s = r
          BY <4>1 DEF At, File, ValidRecords
        <4>3. At(file) = {r}
          BY <4>2 DEF At
        <4>4. (CHOOSE s \in {r} : TRUE) = r
          OBVIOUS
        <4> QED
          BY <3>3, <4>3, <4>4
      <3> QED
        BY <1>2, <1>4, <2>5, <3>2, <3>3 DEF Idle
    <2> QED
      BY <1>4, <2>1, <2>2, <2>3, <2>4, <2>5 DEF Importing
  <1> QED
    BY <1>4, <1>5, <1>6 DEF OpsInv

LEMMA RemovedKeeps == OpsInv /\ ImportRemoved => OpsInv'
  <1> SUFFICES ASSUME OpsInv, ImportRemoved PROVE OpsInv'
    OBVIOUS
  <1>1. KeepImport /\ import.pc = "remove" /\ import.files = {} /\ registry' = registry
        /\ import' = [pc |-> "write", next |-> 1]
    BY DEF ImportRemoved
  <1>2. Shaped'
    <2>1. Len(sources) \in Nat
      BY DEF OpsInv, Shaped
    <2> QED
      BY <1>1, <2>1 DEF OpsInv, Shaped, KeepImport
  <1>3. Under' /\ (answered' # None => Drafted(answered)')
    BY <1>1, ImportLeaves DEF OpsInv, Shaped
  <1>4. ASSUME ~raced' PROVE Importing'
    <2>1. Importing /\ mode' = mode /\ sources' = sources /\ sound' = sound
      BY <1>1, <1>4 DEF OpsInv, KeepImport
    <2>2. sound => Excused(registry)'
      BY <1>1, <2>1 DEF Importing, Excused
    <2>3. mode = "reset" => registry = {}
      BY <1>1, <2>1 DEF Importing
    <2>4. Written' = {}
      BY <1>1 DEF Written
    <2>5. sound => Mixed(registry)'
      <3> SUFFICES ASSUME sound PROVE Mixed(registry)'
        OBVIOUS
      <3>1. registry \in SUBSET PatchFile /\ ValidRecords(registry)
        BY <1>1, <2>1 DEF OpsInv, Shaped, Importing
      <3>2. mode = "refresh" => \A r \in registry : r.source # "policy_template"
        BY <1>1, <2>1 DEF Importing
      <3>3. Mixed(registry)
        BY <2>3, <3>1, <3>2 DEF Mixed
      <3> QED
        BY <1>1, <2>1, <3>3 DEF Mixed
    <2> QED
      BY <1>1, <2>1, <2>2, <2>3, <2>4, <2>5 DEF Importing
  <1> QED
    BY <1>2, <1>3, <1>4 DEF OpsInv

\* What an import writes next is a patch of its template.
LEMMA SourceKnown ==
    ASSUME OpsInv, import.pc = "write", import.next <= Len(sources)
    PROVE  /\ import.next \in 1..Len(sources)
           /\ sources[import.next] \in PatchFile
           /\ sources[import.next] \in ToSet(sources)
           /\ Len(sources) \in Nat
  <1>1. sources \in Seq(PatchFile) /\ import.next \in 1..(Len(sources) + 1)
    BY DEF OpsInv, Shaped
  <1>2. import.next \in 1..Len(sources) /\ DOMAIN sources = 1..Len(sources)
    BY <1>1
  <1> QED
    BY <1>1, <1>2 DEF ToSet

LEMMA WriteKeepsInv == OpsInv /\ ImportWrite => OpsInv'
  <1> SUFFICES ASSUME OpsInv, ImportWrite PROVE OpsInv'
    OBVIOUS
  <1> DEFINE patch == sources[import.next]
  <1>1. KeepImport /\ import.pc = "write" /\ import.next <= Len(sources)
        /\ registry' = WritePatch(registry, patch)
        /\ import' = [import EXCEPT !.next = @ + 1]
    BY DEF ImportWrite
  <1>2. import.next \in 1..Len(sources) /\ patch \in PatchFile /\ patch \in ToSet(sources)
        /\ Len(sources) \in Nat
    BY <1>1, SourceKnown
  <1>3. import' = [pc |-> "write", next |-> import.next + 1]
    <2>1. import = [pc |-> "write", next |-> import.next]
      BY <1>1 DEF OpsInv, Shaped
    <2> QED
      BY <1>1, <2>1
  <1>4. registry' \subseteq PatchFile
    BY <1>1, <1>2, WriteKeeps DEF OpsInv, Shaped
  <1>5. Shaped'
    BY <1>1, <1>2, <1>3, <1>4 DEF OpsInv, Shaped, KeepImport
  <1>6. Under' /\ (answered' # None => Drafted(answered)')
    BY <1>1, <1>4, ImportLeaves
  <1>7. ASSUME ~raced' PROVE Importing'
    <2>1. Importing /\ mode' = mode /\ sources' = sources /\ sound' = sound
      BY <1>1, <1>7 DEF OpsInv, KeepImport
    <2>2. ASSUME ValidRecords(ToSet(sources)), sound
          PROVE  Mixed(registry)' /\ Excused(registry)'
      <3>1. Mixed(registry)
        BY <1>1, <2>1, <2>2 DEF Importing
      <3>2. registry' \subseteq registry \union ToSet(sources)
        BY <1>1, <1>2 DEF WritePatch
      <3>3. Mixed(registry')
        BY <3>1, <3>2 DEF Mixed
      <3>4. Excused(registry')
        BY <1>1, <2>2, <3>3, MixedIsExcused DEF OpsInv, Shaped
      <3>5. Mixed(registry)'
        BY <2>1, <3>3 DEF Mixed
      <3> QED
        BY <2>1, <3>4, <3>5 DEF Excused
    <2>3. ASSUME ValidRecords(ToSet(sources)), mode = "reset"
          PROVE  registry' = Written'
      <3>1. registry = Written
        BY <1>1, <2>1, <2>3 DEF Importing
      <3>2. Written' = Written \union {patch}
        <4>1. 1..(import'.next - 1) = 1..(import.next - 1) \union {import.next}
          BY <1>2, <1>3
        <4> QED
          BY <2>1, <4>1 DEF Written
      <3>3. Written \subseteq ToSet(sources)
        <4>1. \A i \in 1..(import.next - 1) : i \in DOMAIN sources
          BY <1>2 DEF OpsInv, Shaped
        <4> QED
          BY <4>1 DEF Written, ToSet
      <3>4. \A r \in ToSet(sources) : File(r) = File(patch) => r = patch
        BY <1>2, <2>3 DEF ValidRecords, File
      <3> QED
        BY <1>1, <3>1, <3>2, <3>3, <3>4 DEF WritePatch
    <2> QED
      BY <1>3, <2>1, <2>2, <2>3 DEF Importing
  <1> QED
    BY <1>5, <1>6, <1>7 DEF OpsInv

LEMMA TornKeeps == OpsInv /\ ImportTorn => OpsInv'
  <1> SUFFICES ASSUME OpsInv, ImportTorn PROVE OpsInv'
    OBVIOUS
  <1> DEFINE torn == TornFile(sources[import.next])
  <1>1. KeepImport /\ import.pc = "write" /\ import.next <= Len(sources)
        /\ registry' = WritePatch(registry, torn) /\ import' = Idle
    BY DEF ImportTorn
  <1>2. torn \in PatchFile /\ torn.status = None
    BY <1>1, SourceKnown DEF TornFile, PatchFile
  <1> HIDE DEF torn
  <1>3. registry' \subseteq PatchFile /\ torn \in registry'
    BY <1>1, <1>2, WriteKeeps DEF OpsInv, Shaped, WritePatch
  <1>4. Shaped'
    BY <1>1, <1>3 DEF OpsInv, Shaped, KeepImport, Idle
  <1>5. Under' /\ (answered' # None => Drafted(answered)')
    BY <1>1, <1>3, ImportLeaves
  <1>6. Importing'
    BY <1>1, <1>2, <1>3 DEF Importing, Excused, Idle
  <1> QED
    BY <1>4, <1>5, <1>6 DEF OpsInv

LEMMA EndKeeps == OpsInv /\ (ImportStopped \/ ImportLoad) => OpsInv'
  <1> SUFFICES ASSUME OpsInv, ImportStopped \/ ImportLoad PROVE OpsInv'
    OBVIOUS
  <1>1. KeepImport /\ import.pc # "idle" /\ registry' = registry /\ import' = Idle
    BY DEF ImportStopped, ImportLoad
  <1>2. Shaped' /\ Under' /\ (answered' # None => Drafted(answered)')
    BY <1>1, ImportLeaves DEF OpsInv, Shaped, KeepImport, Idle
  <1>3. ~raced' => Importing'
    BY <1>1 DEF OpsInv, Importing, Excused, KeepImport, Idle
  <1> QED
    BY <1>2, <1>3 DEF OpsInv

LEMMA OpsNextInv == OpsInv /\ [OpsNext]_opsVars => OpsInv'
  <1> SUFFICES ASSUME OpsInv, [OpsNext]_opsVars PROVE OpsInv'
    OBVIOUS
  <1>1. CASE UNCHANGED opsVars
    BY <1>1 DEF OpsInv, Shaped, Under, Drafted, Importing, Mixed, Excused, Written, opsVars
  <1> QED
    BY <1>1, DraftKeeps, ApplyKeeps, CommitKeeps, FailedKeeps, BeginKeeps, RemoveKeeps,
       RemovedKeeps, WriteKeepsInv, TornKeeps, EndKeeps DEF OpsNext

\* Drafts, applies and imports keep the invariant, in any order.
THEOREM OpsInvariance == OpsSpec => []OpsInv
  BY OpsInitInv, OpsNextInv, PTL DEF OpsSpec

\* A draft that was answered is accepted by an apply while the registry stays as it
\* was, when it names no patch twice: the hashes it answered are the registry's.
THEOREM ReviewedApplies == OpsSpec => []DraftsApply
  <1>1. OpsInv => DraftsApply
    <2> SUFFICES ASSUME OpsInv, answered # None, registry = answered.base,
                        ~(Cardinality(Names(answered.ops)) < Len(answered.ops))
                 PROVE  ApplyAccepts(answered)
      BY DEF DraftsApply
    <2>1. Drafted(answered)
      BY DEF OpsInv
    <2>2. VerifyBaseHashes(answered.base, answered.hashes)
      BY <2>1, DraftedIs, HashesVerify DEF Drafted
    <2> QED
      BY <2>1, <2>2 DEF ApplyAccepts, Drafted
  <1> QED
    BY <1>1, OpsInvariance, PTL

\* A patch is where its operation put it: between the two others that a reorder
\* names, or after all that are not tombstones.
THEOREM Places == OpsSpec => []PlacedAsAsked
  <1>1. OpsInv => PlacedAsAsked
    BY DraftPlaces DEF OpsInv, PlacedAsAsked, Placed
  <1> QED
    BY <1>1, OpsInvariance, PTL

\* An import that no apply runs beside leaves a registry that loads, unless a file
\* is torn or a patch of the template collides with one that stays, wherever it is
\* interrupted; and a reset that ends leaves the template.
THEOREM ImportsLoad == OpsSpec => []LoadsUnlessCollision
  <1>1. OpsInv => LoadsUnlessCollision
    <2> SUFFICES ASSUME OpsInv, ~raced, ValidRecords(ToSet(sources))
                 PROVE  /\ sound => Excused(registry)
                        /\ (mode = "reset" /\ import.pc = "write" /\ import.next > Len(sources)) =>
                              registry = ToSet(sources)
      BY DEF LoadsUnlessCollision, Excused
    <2>1. sound => Excused(registry)
      BY DEF OpsInv, Importing
    <2>2. ASSUME mode = "reset", import.pc = "write", import.next > Len(sources)
          PROVE  registry = ToSet(sources)
      <3>1. registry = Written
        BY <2>2 DEF OpsInv, Importing
      <3>2. import.next \in 1..(Len(sources) + 1) /\ Len(sources) \in Nat
            /\ DOMAIN sources = 1..Len(sources)
        BY <2>2 DEF OpsInv, Shaped
      <3>3. import.next - 1 = Len(sources)
        BY <2>2, <3>2
      <3> QED
        BY <3>1, <3>2, <3>3 DEF Written, ToSet
    <2> QED
      BY <2>1, <2>2
  <1> QED
    BY <1>1, OpsInvariance, PTL

\* The net effect of a draft's operations: the patches that they name, and what
\* they leave of them.
NetEffect(d) == [names |-> Names(d.ops), put |-> {r \in d.pending : r.id \in Names(d.ops)}]

IsNetEffect ==
    answered # None => answered.pending = Preview(answered.base, NetEffect(answered))

\* A list of operations, whatever it is, does what PatchTransaction takes it for: it
\* leaves every patch that it does not name, and puts others in the place of those
\* that it does.
THEOREM ListsHaveNetEffects == OpsSpec => []IsNetEffect
  <1>1. OpsInv => IsNetEffect
    <2> SUFFICES ASSUME OpsInv, answered # None, NEW r, r.id \notin Names(answered.ops)
                 PROVE  r \in answered.base <=> r \in answered.pending
      BY DEF IsNetEffect, NetEffect, Preview
    <2> DEFINE n == Len(answered.ops)
    <2>1. Drafted(answered)
      BY DEF OpsInv
    <2>2. answered.ops \in Seq(Operation) /\ Sane(answered.base)
          /\ PendingRecords(answered.base, answered.ops) # Refused
      BY <2>1, DraftedIs
    <2>3. n + 1 \in 1..(n + 1) /\ \A j \in 1..((n + 1) - 1) : j \in DOMAIN answered.ops
      BY <2>2
    <2>4. \A j \in 1..((n + 1) - 1) : answered.ops[j].id # r.id
      BY <2>3 DEF Names
    <2>5. r \in answered.base <=> r \in Previews(answered.base, answered.ops)[n + 1]
      BY <2>2, <2>3, <2>4, Unnamed
    <2> QED
      BY <2>1, <2>5 DEF Drafted, PendingRecords
  <1> QED
    BY <1>1, OpsInvariance, PTL
=============================================================================
