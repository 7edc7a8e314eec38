-------------------------- MODULE PatchOperations --------------------------
(***************************************************************************)
(* What a list of patch operations makes of the registry (previewOperations*)
(* of internal/configpatch), a draft of it and its apply, beside the import*)
(* of a policy template, which removes and writes patch files one by one   *)
(* without the lock that applies take.                                     *)
(*                                                                         *)
(* How an apply replaces the files is the module PatchTransaction's: here  *)
(* it is one step.  An order id is a number of its smallest unit, a title  *)
(* stands for its slug, the overlay for the rest of a patch, and the hash  *)
(* of a record is the record.                                              *)
(*                                                                         *)
(* Its names are not PatchTransaction's, so that one module can have the   *)
(* proofs of both.                                                         *)
(***************************************************************************)
EXTENDS Integers, FiniteSets, SequencesExt

CONSTANTS
    Drafts,        \* the lists of operations that agents draft
    Registries,    \* the registries that a server may find
    Releases,      \* release -> the patches of its template, in their order
    Text,          \* what ids, titles, sources and statuses can be
    None,          \* a field that is not given, a file that is not there
    Unit,          \* units of an order id in a whole
    OpenEnd,       \* the end of the interval that has no right neighbour
    FirstUser,     \* user patches are numbered from the whole after this one
    OrderLimit,    \* the first number that has too many digits
    MaxCalls       \* drafts and imports of a run

VARIABLES
    registry,      \* the files of patches/: a set of records
    answered,      \* the draft that was answered last, or None
    applying,      \* what the apply in applyMu will write, or None
    import,        \* the import that runs
    mode,          \* how the last import treated what was there, or None
    sound,         \* whether the registry loaded when it began
    sources,       \* the patches of the template it imports
    raced,         \* whether an apply and an import ever ran together
    calls

opsVars == <<registry, answered, applying, import, mode, sound, sources, raced, calls>>

Statuses == {"enabled", "disabled", "tombstoned"}
Idle == [pc |-> "idle"]

\* A file that does not parse has neither a source nor a status.
PatchFile ==
    [id : Text, title : Text, source : Text \union {None},
     status : Text \union {None}, order : Int, overlay : Text]

\* The fields that an operation leaves out are None.
Operation ==
    [op : Text, id : Text, base : PatchFile \union {None},
     title : Text \union {None}, source : Text \union {None},
     status : Text \union {None}, order : Int \union {None}, overlay : Text,
     after : Text \union {None}, before : Text \union {None}]

\* Instead of a registry: an operation was not accepted.
Refused == {None}

ASSUME TextAssumption == Statuses \union {"user"} \subseteq Text
ASSUME GivenAssumption == None \notin Text /\ None \notin Int /\ None \notin PatchFile
ASSUME OrderAssumption == Unit \in Nat \ {0} /\ {OpenEnd, FirstUser, OrderLimit} \subseteq Nat
ASSUME InputAssumption ==
    /\ \A files \in Registries : files \subseteq PatchFile
    /\ \A release \in DOMAIN Releases : Releases[release] \in Seq(PatchFile)
    /\ \A ops \in Drafts : ops \in Seq(Operation) /\ ops # <<>>

-----------------------------------------------------------------------------
(* Records.                                                                *)

Get(records, id) ==
    LET found == {r \in records : r.id = id}
    IN IF found = {} THEN None ELSE CHOOSE r \in found : TRUE

File(r) == <<r.id, r.title>>
WritePatch(records, r) == {x \in records : File(x) # File(r)} \union {r}
Upsert(records, r) == {x \in records : x.id # r.id} \union {r}

ValidOrder(order) == order \in 0..(OrderLimit - 1)

ValidPatch(r) == r.status \in Statuses /\ ValidOrder(r.order)

ValidRecords(records) ==
    /\ \A r \in records : ValidPatch(r)
    /\ \A r, s \in records :
          r # s => /\ r.id # s.id
                   /\ r.order = s.order => "tombstoned" \in {r.status, s.status}

FirstGiven(values) ==
    LET given == {i \in DOMAIN values : values[i] # None}
    IN values[CHOOSE i \in given : \A j \in given : i <= j]

\* After the last patch that is not a tombstone.
NextUserOrder(records) ==
    Max({FirstUser} \union {r.order : r \in {x \in records : x.status # "tombstoned"}}) + Unit

\* (for a mutant) The interval is not checked for room.
BugMidpointOrder(records, after, before) ==
    LET low == IF after = None THEN -1 ELSE Get(records, after).order
        high == IF before = None THEN OpenEnd ELSE Get(records, before).order
    IN IF None \in {Get(records, id) : id \in {after, before} \ {None}} THEN None
       ELSE IF low + high < 0 THEN 0 ELSE (low + high) \div 2

\* Half way between two neighbours, None without room.
MidpointOrder(records, after, before) ==
    LET low == IF after = None THEN -1 ELSE Get(records, after).order
        high == IF before = None THEN OpenEnd ELSE Get(records, before).order
    IN IF \/ {after, before} = {None}
          \/ None \in {Get(records, id) : id \in {after, before} \ {None}}
       THEN None
       ELSE IF high - low <= 1 THEN None ELSE (low + high) \div 2

PatchFromUpsert(op, existing, records) ==
    LET old == IF existing = None
               THEN [title |-> None, source |-> None, status |-> None, order |-> None]
               ELSE existing
    IN [id |-> op.id,
        title |-> FirstGiven(<<op.title, old.title, op.id>>),
        source |-> FirstGiven(<<op.source, old.source, "user">>),
        status |-> FirstGiven(<<op.status, old.status, "enabled">>),
        order |-> FirstGiven(<<op.order, old.order, NextUserOrder(records)>>),
        overlay |-> op.overlay]

\* What one operation makes of records.
ApplyOperation(records, op) ==
    LET record == Get(records, op.id)
        patch == PatchFromUpsert(op, record, records)
        order == IF op.order # None THEN op.order
                 ELSE MidpointOrder(records, op.after, op.before)
        Changed(ok, r) == IF ok THEN Upsert(records, r) ELSE Refused
    IN IF op.op = "upsert_patch" THEN Changed(ValidPatch(patch), patch)
       ELSE IF record = None THEN Refused
       ELSE CASE op.op = "remove_patch" /\ record.source # "policy_template" ->
                    records \ {record}
              [] op.op = "remove_patch" /\ record.source = "policy_template" ->
                    Changed(TRUE, [record EXCEPT !.status = "tombstoned"])
              [] op.op = "set_patch_status" ->
                    Changed(op.status \in Statuses, [record EXCEPT !.status = op.status])
              [] op.op = "reorder_patch" ->
                    Changed(order # None /\ ValidOrder(order), [record EXCEPT !.order = order])
              [] OTHER -> Refused

Names(ops) == {ops[i].id : i \in DOMAIN ops}

\* An operation runs where all before it were accepted and its patch has not
\* changed since the agent read it.
Operate(now, op) ==
    IF now # Refused /\ op.base \in {None, Get(now, op.id)}
    THEN ApplyOperation(now, op) ELSE Refused

\* The registries before, between and after the operations.
Previews(records, ops) ==
    LET seen[i \in 1..(Len(ops) + 1)] ==
            IF i = 1 THEN records ELSE Operate(seen[i - 1], ops[i - 1])
    IN seen

PendingRecords(records, ops) == Previews(records, ops)[Len(ops) + 1]

\* (for a mutant) The hash of a patch is taken after its operation.
BugBaseHashes(records, ops) ==
    [id \in Names(ops) |-> Get(PendingRecords(records, ops), id)]

\* The base hash of a patch is taken before the last operation on it.
BaseHashes(records, ops) ==
    [id \in Names(ops) |->
        Get(Previews(records, ops)[Max({i \in DOMAIN ops : ops[i].id = id})], id)]

PreviewOperations(records, ops) ==
    LET pending == PendingRecords(records, ops)
    IN IF pending # Refused /\ ValidRecords(pending)
       THEN [ok |-> TRUE, pending |-> pending, hashes |-> BaseHashes(records, ops)]
       ELSE [ok |-> FALSE]

VerifyBaseHashes(records, hashes) ==
    \A id \in DOMAIN hashes : Get(records, id) = hashes[id]

-----------------------------------------------------------------------------

OpsInit ==
    /\ registry \in Registries
    /\ answered = None /\ applying = None
    /\ import = Idle /\ mode = None /\ sound = ValidRecords(registry) /\ sources = <<>>
    /\ raced = FALSE
    /\ calls = 0

\* config_patch_draft.
DraftOperations ==
    \E ops \in Drafts :
        /\ calls < MaxCalls /\ calls' = calls + 1
        /\ ValidRecords(registry) /\ PreviewOperations(registry, ops).ok
        /\ answered' = [ops |-> ops, base |-> registry,
                        hashes |-> PreviewOperations(registry, ops).hashes,
                        pending |-> PreviewOperations(registry, ops).pending]
        /\ UNCHANGED <<registry, applying, import, mode, sound, sources, raced>>

ApplyAccepts(d) ==
    /\ registry = d.base
    /\ VerifyBaseHashes(registry, d.hashes)
    /\ PreviewOperations(registry, d.ops).ok

\* config_patch_apply with applyMu: the registry is the reviewed one ...
ApplyOperations ==
    /\ applying = None
    /\ answered # None /\ ApplyAccepts(answered)
    /\ applying' = [current |-> registry,
                    pending |-> PreviewOperations(registry, answered.ops).pending]
    /\ raced' = (raced \/ import.pc # "idle")
    /\ UNCHANGED <<registry, answered, import, mode, sound, sources, calls>>

\* ... the build or the commit fails and is rolled back, or every pending
\* patch is written and the files that none of them has are removed.
ApplyCommit ==
    /\ applying # None /\ applying' = None
    /\ registry' =
          {r \in registry : \A s \in applying.current \union applying.pending : File(r) # File(s)}
          \union applying.pending
    /\ UNCHANGED <<answered, import, mode, sound, sources, raced, calls>>

ApplyFailed ==
    /\ applying # None /\ applying' = None
    /\ UNCHANGED <<registry, answered, import, mode, sound, sources, raced, calls>>

-----------------------------------------------------------------------------
(* ImportPolicyTemplate.                                                   *)

PatchSources(release) == Releases[release]

\* The patches of the template are read before anything is removed.
ImportBegin ==
    \E release \in DOMAIN Releases, how \in {"add", "reset", "refresh"} :
        /\ import = Idle
        /\ calls < MaxCalls /\ calls' = calls + 1
        /\ sources' = PatchSources(release) /\ mode' = how /\ sound' = ValidRecords(registry)
        /\ import' = IF how = "add" THEN [pc |-> "write", next |-> 1]
                     ELSE [pc |-> "remove", files |-> {File(r) : r \in registry}]
        /\ raced' = (raced \/ applying # None)
        /\ UNCHANGED <<registry, answered, applying>>

At(file) == {r \in registry : File(r) = file}
KeepImport == UNCHANGED <<answered, applying, mode, sound, sources, raced, calls>>

\* (for a mutant) A refresh removes the files of the imported patches only.
BugImportRemove ==
    /\ import.pc = "remove" /\ import.files # {}
    /\ \E file \in import.files :
          /\ import' = [import EXCEPT !.files = @ \ {file}]
          /\ registry' = IF mode = "refresh" /\ file \notin {File(s) : s \in ToSet(sources)}
                         THEN registry ELSE registry \ At(file)
    /\ KeepImport

\* A reset removes every file, a refresh those of templates; a refresh stops
\* at a file that is gone, does not parse or is of neither source.
ImportRemove ==
    /\ import.pc = "remove"
    /\ \E file \in import.files :
          LET goOn == import' = [import EXCEPT !.files = @ \ {file}]
              source == IF At(file) = {} THEN None ELSE (CHOOSE r \in At(file) : TRUE).source
          IN \/ /\ mode = "reset" \/ source = "policy_template"
                /\ registry' = registry \ At(file)
                /\ goOn
             \/ /\ mode = "refresh" /\ source = "user"
                /\ UNCHANGED registry
                /\ goOn
             \/ /\ mode = "refresh" /\ source \notin {"policy_template", "user"}
                /\ UNCHANGED registry
                /\ import' = Idle
    /\ KeepImport

ImportRemoved ==
    /\ import.pc = "remove" /\ import.files = {}
    /\ import' = [pc |-> "write", next |-> 1]
    /\ UNCHANGED registry /\ KeepImport

\* os.WriteFile: no temporary file.
ImportWrite ==
    /\ import.pc = "write" /\ import.next <= Len(sources)
    /\ registry' = WritePatch(registry, sources[import.next])
    /\ import' = [import EXCEPT !.next = @ + 1]
    /\ KeepImport

TornFile(r) == [r EXCEPT !.status = None, !.source = None]

\* An error, or the death of the server, in the middle of a file.
ImportTorn ==
    /\ import.pc = "write" /\ import.next <= Len(sources)
    /\ registry' = WritePatch(registry, TornFile(sources[import.next]))
    /\ import' = Idle
    /\ KeepImport

\* An error, or the death of the server, between two files.
ImportStopped ==
    /\ import.pc \in {"remove", "write"}
    /\ import' = Idle
    /\ UNCHANGED registry /\ KeepImport

\* The registry is loaded again: the import answers, or tells that it fails.
ImportLoad ==
    /\ import.pc = "write" /\ import.next > Len(sources)
    /\ import' = Idle
    /\ UNCHANGED registry /\ KeepImport

OpsNext ==
    \/ DraftOperations \/ ApplyOperations \/ ApplyCommit \/ ApplyFailed
    \/ ImportBegin \/ ImportRemove \/ ImportRemoved \/ ImportWrite
    \/ ImportTorn \/ ImportStopped \/ ImportLoad

OpsSpec == OpsInit /\ [][OpsNext]_opsVars

-----------------------------------------------------------------------------

\* A draft that was answered can be applied as long as nothing changes the
\* registry, unless its operations name a patch twice: the base hash that
\* the draft answers for such a patch is one the registry never has.
DraftsApply ==
    (answered # None /\ registry = answered.base) =>
        \/ ApplyAccepts(answered)
        \/ Cardinality(Names(answered.ops)) < Len(answered.ops)

\* What a reorder puts between two other patches is between them, and a patch
\* that was not there comes after all that are not tombstones, when it is the
\* draft's last word.
PlacedAsAsked ==
    answered # None =>
        LET op == Last(answered.ops)
            before == Previews(answered.base, answered.ops)[Len(answered.ops)]
            placed == Get(answered.pending, op.id)
            Order(id) == Get(answered.pending, id).order
        IN /\ (op.op = "reorder_patch" /\ op.order = None) =>
                 /\ op.after \notin {None, op.id} => Order(op.after) < placed.order
                 /\ op.before \notin {None, op.id} => placed.order < Order(op.before)
           /\ (op.op = "upsert_patch" /\ op.order = None /\ Get(before, op.id) = None) =>
                 \A r \in answered.pending \ {placed} :
                    r.status # "tombstoned" => r.order < placed.order

\* A registry that loads goes on loading through imports that no apply runs
\* beside, whatever interrupts them between two files: a refresh may meet a
\* user's patch with the id or the order of one that it writes, an import
\* that removes nothing also an older file of the patch.  A reset that ends
\* leaves the template, whatever was there before.  All this is said of
\* templates whose patches do not collide with one another.
LoadsUnlessCollision ==
    (~raced /\ ValidRecords(ToSet(sources))) =>
        /\ (sound /\ ~ValidRecords(registry)) =>
              \/ \E r \in registry : r.status = None
              \/ \E s \in ToSet(sources) \intersect registry : \E r \in registry \ {s} :
                    /\ r.id = s.id \/ r.order = s.order
                    /\ mode = "add" \/ (mode = "refresh" /\ r.source # "policy_template")
        /\ (mode = "reset" /\ import.pc = "write" /\ import.next > Len(sources)) =>
              registry = ToSet(sources)

=============================================================================
