-------------------------- MODULE PlanApplyProofs --------------------------
(***************************************************************************)
(* Proofs about PlanApply, for any clients, overlays, workspaces and       *)
(* bounds: applies that run one at a time replace the three files or none, *)
(* and the intent that an apply writes is the one its plan was answered    *)
(* with.  Two applies, or two renders, that run at the same time leave     *)
(* only the types.                                                         *)
(***************************************************************************)
EXTENDS PlanApply, FiniteSetTheorems, WellFoundedInduction, TLAPS

RenderFields == {"pc", "kind", "name", "now", "plan", "config", "selection", "overlay"}
RenderCall(r) ==
    /\ r.pc \in {"allocate", "config", "output", "summary"}
    /\ r.kind = "render"
    /\ r = [x \in RenderFields |-> r[x]]

ApplyFields == {"pc", "kind", "plan", "key", "before", "files", "kept", "existed", "clean",
                "want"}
ApplyCall(r) ==
    /\ r.pc \in {"render", "backup", "prepare", "commit", "rollback"}
    /\ r.kind = "apply"
    /\ r = [x \in ApplyFields |-> r[x]]
    /\ r.before = [f \in Files |-> r.before[f]]
    /\ r.want = [f \in Files |-> r.want[f]]

\* Resolved again, a config that was resolved keeps its fallback.
Resolved(config) == config = [config EXCEPT !.fallback = Fallback(config)]

\* Types, beside TypeOK: the values of the functions, and the calls' fields.
Shapes ==
    /\ active = [f \in Files |-> active[f]]
    /\ IsFiniteSet(DOMAIN plans)
    /\ \A id \in DOMAIN plans :
          plans[id] = [config |-> plans[id].config, summary |-> plans[id].summary]
    /\ \A key \in DOMAIN backups : backups[key] = [f \in Files |-> backups[key][f]]
    /\ calls = [c \in Clients |-> calls[c]]
    /\ \A c \in Clients : calls[c] = Idle \/ RenderCall(calls[c]) \/ ApplyCall(calls[c])
    /\ rendersRaced \in BOOLEAN /\ appliesRaced \in BOOLEAN

\* What names a plan names a directory that is there; what an apply has
\* kept is in its backup; a plan with a summary was answered.
Links ==
    /\ \A key \in DOMAIN backups : key[1] \in DOMAIN plans /\ key[2] \in 1..second
    /\ DOMAIN reviewed \subseteq DOMAIN plans
    /\ \A id \in DOMAIN plans : plans[id].summary # None => id \in DOMAIN reviewed
    /\ \A c \in Clients :
          /\ RenderCall(calls[c]) => Resolved(calls[c].config)
          /\ At(c, "output") \/ At(c, "summary") => calls[c].plan \in DOMAIN plans
          /\ ApplyCall(calls[c]) =>
                /\ calls[c].plan \in DOMAIN reviewed
                /\ calls[c].key = <<calls[c].plan, calls[c].key[2]>>
                /\ calls[c].key[2] \in 1..second
                /\ calls[c].files \in 0..3 /\ calls[c].kept \subseteq Files
                /\ calls[c].pc # "rollback" => calls[c].files > 0
                /\ \A f \in calls[c].kept :
                      calls[c].key \in DOMAIN backups /\ backups[calls[c].key][f] # None

Bounds ==
    /\ artifacts \in Deliveries
    /\ second \in 1..MaxSecond /\ started \in 0..MaxCalls

-----------------------------------------------------------------------------
(* An apply that has the files to itself.                                  *)

\* The targets that an apply found, and those of them it has copied.
Found(r) == {f \in Files : r.before[f] # None}
Copies(r) ==
    \A f \in r.kept : r.key \in DOMAIN backups /\ backups[r.key][f] = r.before[f]

\* Targets are backed up in their order; none has been replaced.
BackingUp(r) ==
    /\ active = r.before
    /\ r.pc = "render" => r.files = 1 /\ r.kept = {}
    /\ r.pc = "backup" =>
          r.kept = {Targets[i] : i \in 1..(r.files - 1)} \intersect Found(r)
    /\ r.pc = "prepare" => r.kept = Found(r)

\* The targets before the next one are the apply's, the others as found.
Committing(r) ==
    /\ r.kept = Found(r) /\ r.existed = r.kept
    /\ \A i \in 1..3 : active[Targets[i]] = IF i < r.files THEN r.want[Targets[i]]
                                            ELSE r.before[Targets[i]]

\* The targets up to the next one are the apply's, the others as found, or
\* an error is noted.
RollingBack(r) ==
    /\ r.kept = Found(r) /\ r.existed = r.kept
    /\ \A i \in 1..3 :
          LET f == Targets[i]
          IN \/ active[f] = IF i <= r.files THEN r.want[f] ELSE r.before[f]
             \/ i > r.files /\ ~r.clean /\ active[f] \in {r.want[f], Torn}

Progress(c) ==
    LET r == calls[c]
    IN /\ r.pc \notin {"idle", "render"} => Copies(r)
       /\ r.pc \in {"render", "backup", "prepare"} => BackingUp(r)
       /\ r.pc = "commit" => Committing(r)
       /\ r.pc = "rollback" => RollingBack(r)

Alone ==
    ~appliesRaced => /\ \A c, d \in Applying : c = d
                     /\ \A c \in Applying : Progress(c)

-----------------------------------------------------------------------------
(* Renders that look for a free id one at a time.                          *)

\* The intent is a reviewed config, but for the template and the nodes of
\* its groups, which are those of some delivery.
IsOf(intent, config) ==
    \E delivery \in Deliveries :
        LET kept == [config EXCEPT !.template = intent.template]
        IN /\ Resolve(kept, Nodes(delivery)).ok
           /\ intent = [kept EXCEPT !.selected = SelectedNodes(kept, Nodes(delivery))]

RenderProgress(c) ==
    LET r == calls[c]
    IN /\ r.pc = "config" => r.plan \notin DOMAIN plans
       /\ r.pc \in {"output", "summary"} =>
             /\ r.plan \in DOMAIN plans \ DOMAIN reviewed
             /\ plans[r.plan].config = r.config

Answered(id) ==
    \E config : /\ reviewed[id] = {config} /\ Resolved(config)
                /\ plans[id].config \in {None, config}

Reviews ==
    ~rendersRaced =>
        /\ \A c, d \in Rendering : c = d
        /\ \A c \in Rendering : RenderProgress(c)
        /\ \A id \in DOMAIN reviewed : Answered(id)
        /\ \A c \in Applying :
              plans[calls[c].plan].config # None =>
                  \A config \in reviewed[calls[c].plan] : IsOf(calls[c].want.intent, config)

Inv == Shapes /\ Links /\ Bounds /\ Alone /\ AppliesWhole /\ Reviews

-----------------------------------------------------------------------------
(* Natural numbers, and the id that is free.                               *)

LEMMA Least ==
  ASSUME NEW S \in SUBSET Nat, S # {}
  PROVE  \E n \in S : \A k \in S : n <= k
<1> DEFINE Less == OpToRel(<, Nat)
<1>1. IsWellFoundedOn(Less, Nat)
  BY NatLessThanWellFounded
<1> HIDE DEF Less
<1>2. PICK n \in S : \A k \in S : <<k, n>> \notin Less
  BY <1>1, WFMin
<1>3. \A k \in S : ~(k < n)
  <2>1. SUFFICES ASSUME NEW k \in S, k < n
                 PROVE  <<k, n>> \in Less
    BY <1>2
  <2>2. <<k, n>> \in Nat \X Nat /\ <<k, n>>[1] < <<k, n>>[2]
    BY <2>1
  <2> QED
    BY <2>2 DEF Less, OpToRel
<1>4. \A k \in S : n <= k
  BY <1>3
<1> QED
  BY <1>4

\* Not all of the first Cardinality(D) + 1 ids are taken.
LEMMA SomeFree ==
  ASSUME NEW D, IsFiniteSet(D), NEW name, NEW now
  PROVE  \E n \in 1..(Cardinality(D) + 1) : <<name, now, n>> \notin D
<1> DEFINE N == 1..(Cardinality(D) + 1)
           f == [n \in N |-> <<name, now, n>>]
<1>1. Cardinality(D) \in Nat
  BY FS_CardinalityType
<1>2. IsFiniteSet(N) /\ Cardinality(N) = Cardinality(D) + 1
  BY <1>1, FS_Interval
<1>3. SUFFICES ASSUME \A n \in N : <<name, now, n>> \in D
               PROVE  FALSE
  OBVIOUS
<1>4. f \in Injection(N, D)
  BY <1>3 DEF Injection, IsInjective
<1> HIDE DEF N, f
<1> QED
  BY <1>1, <1>2, <1>4, FS_Injection

\* AllocatePlanID returns an id that no directory has.
LEMMA Free ==
  ASSUME IsFiniteSet(DOMAIN plans), NEW name, NEW now
  PROVE  AllocatePlanID(name, now) \notin DOMAIN plans
<1> DEFINE N == 1..(Cardinality(DOMAIN plans) + 1)
           S == {n \in N : <<name, now, n>> \notin DOMAIN plans}
<1>1. Cardinality(DOMAIN plans) \in Nat
  BY FS_CardinalityType
<1>2. S \in SUBSET Nat /\ S # {}
  BY <1>1, SomeFree
<1>3. PICK n \in S : \A k \in S : n <= k
  BY <1>2, Least
<1>4. n \in N /\ <<name, now, n>> \notin DOMAIN plans
  OBVIOUS
<1>5. \A k \in 1..(n - 1) : <<name, now, k>> \in DOMAIN plans
  BY <1>1, <1>3, <1>4
<1> QED
  BY <1>4, <1>5 DEF AllocatePlanID

-----------------------------------------------------------------------------
(* Files, calls and functions.                                             *)

LEMMA FileSet ==
  /\ Files = {"intent", "selection", "output"}
  /\ Targets[1] = "intent" /\ Targets[2] = "selection" /\ Targets[3] = "output"
  /\ Len(Targets) = 3
  /\ \A i \in 1..3 : Targets[i] \in Files
  /\ \A i, j \in 1..3 : Targets[i] = Targets[j] => i = j
  /\ \A f \in Files : \E i \in 1..3 : f = Targets[i]
<1>1. /\ Targets[1] = "intent" /\ Targets[2] = "selection" /\ Targets[3] = "output"
      /\ Len(Targets) = 3 /\ DOMAIN Targets = 1..3
  BY DEF Targets
<1>2. Files = {Targets[i] : i \in 1..3}
  BY <1>1 DEF Files, ToSet
<1>3. Files = {"intent", "selection", "output"}
  BY <1>1, <1>2
<1> QED
  BY <1>1, <1>2, <1>3

\* One call is set, the others stay.
LEMMA CallSet ==
  ASSUME Shapes, NEW c \in Clients, NEW call, calls' = [calls EXCEPT ![c] = call]
  PROVE  /\ calls'[c] = call
         /\ \A d \in Clients \ {c} : calls'[d] = calls[d]
         /\ calls' = [d \in Clients |-> calls'[d]]
BY DEF Shapes

\* Where a call is tells what it is.
LEMMA KindOf ==
  ASSUME Shapes, NEW c \in Clients
  PROVE  /\ calls[c].pc \in {"allocate", "config", "output", "summary"} => RenderCall(calls[c])
         /\ calls[c].pc \in {"render", "backup", "prepare", "commit", "rollback"}
               => ApplyCall(calls[c])
         /\ c \in Rendering <=> RenderCall(calls[c])
         /\ c \in Applying <=> ApplyCall(calls[c])
         /\ calls[c].pc = "idle" <=> calls[c] = Idle
         /\ RenderCall(calls[c]) => ~ApplyCall(calls[c]) /\ calls[c] # Idle
         /\ ApplyCall(calls[c]) => calls[c] # Idle
<1>1. Idle.pc = "idle"
  BY DEF Idle
<1>2. calls[c] = Idle \/ RenderCall(calls[c]) \/ ApplyCall(calls[c])
  BY DEF Shapes
<1> QED
  BY <1>1, <1>2 DEF RenderCall, ApplyCall, Rendering, Applying

LEMMA ShapesAfter ==
  ASSUME Shapes, NEW c \in Clients, NEW call, calls' = [calls EXCEPT ![c] = call],
         call = Idle \/ RenderCall(call) \/ ApplyCall(call)
  PROVE  /\ calls' = [d \in Clients |-> calls'[d]]
         /\ \A d \in Clients : \/ calls'[d] = Idle \/ RenderCall(calls'[d])
                                \/ ApplyCall(calls'[d])
BY CallSet DEF Shapes

LEMMA InitInv == Init => Inv
<1> SUFFICES ASSUME Init
             PROVE  Inv
  OBVIOUS
<1>1. \A c \in Clients : calls[c] = Idle /\ calls[c].pc = "idle"
  BY DEF Init, Idle
<1>2. Applying = {} /\ Rendering = {}
  BY <1>1 DEF Applying, Rendering
<1>3. DOMAIN plans = {} /\ DOMAIN backups = {} /\ DOMAIN reviewed = {}
  BY DEF Init
<1>4. \A c \in Clients : ~RenderCall(calls[c]) /\ ~ApplyCall(calls[c])
  BY <1>1 DEF RenderCall, ApplyCall
<1>5. IsFiniteSet(DOMAIN plans)
  BY <1>3, FS_EmptySet
<1>6. active = [f \in Files |-> active[f]] /\ artifacts \in Deliveries
  BY WorkspacesAssumption DEF Init
<1>7. Shapes
  BY <1>1, <1>3, <1>5, <1>6 DEF Shapes, Init
<1>8. Links
  BY <1>1, <1>3, <1>4 DEF Links, At
<1>9. Bounds
  BY <1>6, BoundsAssumption DEF Bounds, Init
<1>10. Alone /\ AppliesWhole /\ Reviews
  BY <1>2, <1>3 DEF Alone, AppliesWhole, Reviews, Init
<1> QED
  BY <1>7, <1>8, <1>9, <1>10 DEF Inv

-----------------------------------------------------------------------------
(* What a step of an apply, after its first, leaves alone.                 *)

\* A call goes on with its plan, its backup and its intent.
Continues(r, s) ==
    /\ ApplyCall(s)
    /\ s.plan = r.plan /\ s.key = r.key /\ s.before = r.before
    /\ s.want.intent = r.want.intent

ApplyStep(c) ==
    \/ ApplyRender(c) \/ ApplyBackup(c) \/ ApplyPrepare(c)
    \/ ApplyCommit(c) \/ ApplyRollback(c) \/ ApplyRolledBack(c)

LEMMA ApplyRenderMoves ==
  ASSUME Shapes, NEW c \in Clients, ApplyRender(c)
  PROVE  \E call : /\ calls' = [calls EXCEPT ![c] = call]
                   /\ call = Idle \/ Continues(calls[c], call)
<1>1. ApplyCall(calls[c])
  BY KindOf DEF ApplyRender, At
<1>2. PICK rendered :
         \/ calls' = [calls EXCEPT ![c] = [calls[c] EXCEPT !.pc = "backup",
                                                           !.want.output = rendered]]
         \/ calls' = [calls EXCEPT ![c] = Idle]
  BY DEF ApplyRender, Goto, Return
<1> DEFINE s == [calls[c] EXCEPT !.pc = "backup", !.want.output = rendered]
<1>3. s.want = [calls[c].want EXCEPT !.output = rendered]
  BY <1>1 DEF ApplyCall
<1>4. s.want = [f \in Files |-> s.want[f]] /\ s.want.intent = calls[c].want.intent
  BY <1>1, <1>3, FileSet DEF ApplyCall
<1>5. Continues(calls[c], s)
  BY <1>1, <1>4 DEF ApplyCall, ApplyFields, Continues
<1> QED
  BY <1>2, <1>5

LEMMA ApplyBackupMoves ==
  ASSUME Shapes, NEW c \in Clients, ApplyBackup(c)
  PROVE  \E call : /\ calls' = [calls EXCEPT ![c] = call]
                   /\ call = Idle \/ Continues(calls[c], call)
<1>1. ApplyCall(calls[c])
  BY KindOf DEF ApplyBackup, At
<1> DEFINE r == calls[c]
           f == Targets[r.files]
           next == IF r.files = Len(Targets) THEN [r EXCEPT !.pc = "prepare"]
                                             ELSE [r EXCEPT !.files = @ + 1]
<1>2. \/ calls' = [calls EXCEPT ![c] = next]
      \/ calls' = [calls EXCEPT ![c] = [next EXCEPT !.kept = @ \union {f}]]
      \/ calls' = [calls EXCEPT ![c] = Idle]
  BY DEF ApplyBackup, Goto, Return
<1>3. Continues(r, next)
  BY <1>1 DEF ApplyCall, ApplyFields, Continues
<1>4. Continues(r, [next EXCEPT !.kept = @ \union {f}])
  BY <1>1 DEF ApplyCall, ApplyFields, Continues
<1> QED
  BY <1>2, <1>3, <1>4

LEMMA ApplyPrepareMoves ==
  ASSUME Shapes, NEW c \in Clients, ApplyPrepare(c)
  PROVE  \E call : /\ calls' = [calls EXCEPT ![c] = call]
                   /\ call = Idle \/ Continues(calls[c], call)
<1>1. ApplyCall(calls[c])
  BY KindOf DEF ApplyPrepare, At
<1> DEFINE s == [calls[c] EXCEPT !.pc = "commit", !.files = 1,
                                 !.existed = {f \in Files : active[f] # None}]
<1>2. calls' = [calls EXCEPT ![c] = s] \/ calls' = [calls EXCEPT ![c] = Idle]
  BY DEF ApplyPrepare, Goto, Return
<1>3. Continues(calls[c], s)
  BY <1>1 DEF ApplyCall, ApplyFields, Continues
<1> QED
  BY <1>2, <1>3

LEMMA ApplyCommitMoves ==
  ASSUME Shapes, NEW c \in Clients, ApplyCommit(c)
  PROVE  \E call : /\ calls' = [calls EXCEPT ![c] = call]
                   /\ call = Idle \/ Continues(calls[c], call)
<1>1. ApplyCall(calls[c])
  BY KindOf DEF ApplyCommit, At
<1> DEFINE Go(n) == [calls[c] EXCEPT !.files = n]
           Back(n) == [calls[c] EXCEPT !.pc = "rollback", !.files = n]
<1>2. \E n : \/ calls' = [calls EXCEPT ![c] = Go(n)]
             \/ calls' = [calls EXCEPT ![c] = Back(n)]
             \/ calls' = [calls EXCEPT ![c] = Idle]
  BY DEF ApplyCommit, Goto, Return
<1>3. \A n : Continues(calls[c], Go(n)) /\ Continues(calls[c], Back(n))
  BY <1>1 DEF ApplyCall, ApplyFields, Continues
<1> QED
  BY <1>2, <1>3

LEMMA ApplyRollbackMoves ==
  ASSUME Shapes, NEW c \in Clients, ApplyRollback(c) \/ ApplyRolledBack(c)
  PROVE  \E call : /\ calls' = [calls EXCEPT ![c] = call]
                   /\ call = Idle \/ Continues(calls[c], call)
<1>1. ApplyCall(calls[c])
  BY KindOf DEF ApplyRollback, ApplyRolledBack, At
<1> DEFINE s == [calls[c] EXCEPT !.files = @ - 1]
           e == [calls[c] EXCEPT !.files = @ - 1, !.clean = FALSE]
<1>2. \/ calls' = [calls EXCEPT ![c] = s]
      \/ calls' = [calls EXCEPT ![c] = e]
      \/ calls' = [calls EXCEPT ![c] = Idle]
  BY DEF ApplyRollback, ApplyRolledBack, Goto, Return
<1>3. Continues(calls[c], s) /\ Continues(calls[c], e)
  BY <1>1 DEF ApplyCall, ApplyFields, Continues
<1> QED
  BY <1>2, <1>3

LEMMA ApplyMoves ==
  ASSUME Shapes, NEW c \in Clients, ApplyStep(c)
  PROVE  /\ ApplyCall(calls[c])
         /\ calls'[c] = Idle \/ Continues(calls[c], calls'[c])
         /\ \A d \in Clients \ {c} : calls'[d] = calls[d]
         /\ calls' = [d \in Clients |-> calls'[d]]
         /\ UNCHANGED <<plans, artifacts, second, started, reviewed, rendersRaced, appliesRaced>>
<1>1. ApplyCall(calls[c])
  BY KindOf DEF ApplyStep, ApplyRender, ApplyBackup, ApplyPrepare, ApplyCommit, ApplyRollback,
                ApplyRolledBack, At
<1>2. PICK call : /\ calls' = [calls EXCEPT ![c] = call]
                  /\ call = Idle \/ Continues(calls[c], call)
  BY ApplyRenderMoves, ApplyBackupMoves, ApplyPrepareMoves, ApplyCommitMoves,
     ApplyRollbackMoves DEF ApplyStep
<1>3. UNCHANGED <<plans, artifacts, second, started, reviewed, rendersRaced, appliesRaced>>
  <2>1. CASE ApplyRender(c)
    BY <2>1 DEF ApplyRender, Goto, Return
  <2>2. CASE ApplyBackup(c)
    BY <2>2 DEF ApplyBackup, Goto, Return
  <2>3. CASE ApplyPrepare(c)
    BY <2>3 DEF ApplyPrepare, Goto, Return
  <2>4. CASE ApplyCommit(c)
    BY <2>4 DEF ApplyCommit, Goto, Return
  <2>5. CASE ApplyRollback(c)
    BY <2>5 DEF ApplyRollback, Goto, Return
  <2>6. CASE ApplyRolledBack(c)
    BY <2>6 DEF ApplyRolledBack, Goto, Return
  <2> QED
    BY <2>1, <2>2, <2>3, <2>4, <2>5, <2>6 DEF ApplyStep
<1> QED
  BY <1>1, <1>2, <1>3, CallSet

-----------------------------------------------------------------------------
(* The first step of a call, and the steps of a render.                    *)

LEMMA ConfigResolved ==
  ASSUME NEW config, NEW nodes, Resolve(config, nodes).ok
  PROVE  Resolve(config, nodes).config = ResolvedConfig(config, nodes)
<1>1. Failed.ok = FALSE
  BY DEF Failed
<1> DEFINE good == [ok |-> TRUE, selection |-> Selection(config, nodes),
                    config |-> ResolvedConfig(config, nodes)]
<1>2. Resolve(config, nodes) \in {good, Failed}
  BY DEF Resolve
<1> HIDE DEF good
<1>3. Resolve(config, nodes) = good
  BY <1>1, <1>2
<1> QED
  BY <1>3 DEF good

LEMMA ResolvedOnce ==
  ASSUME NEW config, NEW nodes
  PROVE  Resolved(ResolvedConfig(config, nodes))
<1> DEFINE after == ResolvedConfig(config, nodes)
<1>1. after = [config EXCEPT !.fallback = Fallback(config),
                             !.selected = SelectedNodes(config, nodes)]
  BY DEF ResolvedConfig
<1> HIDE DEF after
<1>2. CASE "fallback" \in DOMAIN config
  <2>1. after.fallback = Fallback(config)
    BY <1>1, <1>2
  <2>2. Fallback(after) = Fallback(config)
    BY <2>1 DEF Fallback
  <2> QED
    BY <1>1, <2>1, <2>2 DEF Resolved, after
<1>3. CASE "fallback" \notin DOMAIN config
  BY <1>1, <1>3 DEF Resolved, after
<1> QED
  BY <1>2, <1>3

LEMMA RenderResolveMoves ==
  ASSUME Shapes, NEW c \in Clients, RenderResolve(c)
  PROVE  /\ calls[c] = Idle
         /\ RenderCall(calls'[c]) /\ calls'[c].pc = "allocate" /\ Resolved(calls'[c].config)
         /\ \A d \in Clients \ {c} : calls'[d] = calls[d]
         /\ calls' = [d \in Clients |-> calls'[d]]
         /\ started < MaxCalls /\ started' = started + 1
         /\ rendersRaced' = (rendersRaced \/ Rendering # {})
         /\ appliesRaced' = appliesRaced
<1>1. calls[c] = Idle
  BY KindOf DEF RenderResolve, Ready, At
<1>2. PICK name \in Names, overlay \in Overlays :
        LET merged == ConfigWithOverlay(active.intent, overlay)
            resolved == Resolve(merged.config, Nodes(artifacts))
        IN /\ resolved.ok
           /\ Start(c, [pc |-> "allocate", kind |-> "render", name |-> name, now |-> second,
                        plan |-> None, config |-> resolved.config,
                        selection |-> resolved.selection,
                        overlay |-> RequestedSummary(overlay, resolved.selection)])
  BY DEF RenderResolve
<1> DEFINE merged == ConfigWithOverlay(active.intent, overlay)
           resolved == Resolve(merged.config, Nodes(artifacts))
           call == [pc |-> "allocate", kind |-> "render", name |-> name, now |-> second,
                    plan |-> None, config |-> resolved.config,
                    selection |-> resolved.selection,
                    overlay |-> RequestedSummary(overlay, resolved.selection)]
<1>3. Resolved(resolved.config)
  <2>1. resolved.config = ResolvedConfig(merged.config, Nodes(artifacts))
    BY <1>2, ConfigResolved
  <2> HIDE DEF merged, resolved
  <2> QED
    BY <2>1, ResolvedOnce
<1> HIDE DEF merged, resolved
<1>4. Start(c, call)
  BY <1>2 DEF merged, resolved
<1>5. call.pc = "allocate" /\ call.kind = "render" /\ call.config = resolved.config
  OBVIOUS
<1>6. call = [x \in RenderFields |-> call[x]]
  BY DEF RenderFields
<1> HIDE DEF call
<1>7. RenderCall(call) /\ Resolved(call.config)
  BY <1>3, <1>5, <1>6 DEF RenderCall
<1>8. calls' = [calls EXCEPT ![c] = call]
  BY <1>4 DEF Start
<1>9. appliesRaced \in BOOLEAN /\ rendersRaced \in BOOLEAN
  BY DEF Shapes
<1>10. /\ started < MaxCalls /\ started' = started + 1
       /\ rendersRaced' = (rendersRaced \/ Rendering # {})
       /\ appliesRaced' = appliesRaced
  BY <1>4, <1>5, <1>9 DEF Start, RenderResolve, Ready
<1> QED
  BY <1>1, <1>5, <1>7, <1>8, <1>10, CallSet

LEMMA ApplyLoadMoves ==
  ASSUME Shapes, NEW c \in Clients, ApplyLoad(c)
  PROVE  /\ calls[c] = Idle
         /\ ApplyCall(calls'[c]) /\ calls'[c].pc = "render"
         /\ calls'[c].before = active /\ calls'[c].files = 1 /\ calls'[c].kept = {}
         /\ calls'[c].plan \in Summarized
         /\ calls'[c].key = <<calls'[c].plan, second>>
         /\ LET plan == plans[calls'[c].plan]
                config == PreserveTemplate(LoadApplyConfig(plan), active.intent)
            IN /\ Resolve(config, Nodes(artifacts)).ok
               /\ calls'[c].want.intent = ResolvedConfig(config, Nodes(artifacts))
         /\ \A d \in Clients \ {c} : calls'[d] = calls[d]
         /\ calls' = [d \in Clients |-> calls'[d]]
         /\ started < MaxCalls /\ started' = started + 1
         /\ appliesRaced' = (appliesRaced \/ Applying # {})
         /\ rendersRaced' = rendersRaced
<1>1. calls[c] = Idle
  BY KindOf DEF ApplyLoad, Ready, At
<1>2. PICK id \in Summarized :
        LET config == PreserveTemplate(LoadApplyConfig(plans[id]), active.intent)
            resolved == Resolve(config, Nodes(artifacts))
        IN /\ resolved.ok
           /\ Start(c, [pc |-> "render", kind |-> "apply", plan |-> id,
                        key |-> <<id, second>>, before |-> active, files |-> 1, kept |-> {},
                        existed |-> {}, clean |-> TRUE,
                        want |-> [intent |-> resolved.config,
                                  selection |-> resolved.selection, output |-> None]])
  BY DEF ApplyLoad
<1> DEFINE config == PreserveTemplate(LoadApplyConfig(plans[id]), active.intent)
           resolved == Resolve(config, Nodes(artifacts))
           want == [intent |-> resolved.config,
                    selection |-> resolved.selection, output |-> None]
           call == [pc |-> "render", kind |-> "apply", plan |-> id,
                    key |-> <<id, second>>, before |-> active, files |-> 1, kept |-> {},
                    existed |-> {}, clean |-> TRUE, want |-> want]
<1>3. resolved.ok /\ resolved.config = ResolvedConfig(config, Nodes(artifacts))
  BY <1>2, ConfigResolved
<1> HIDE DEF config, resolved
<1>4. Start(c, call)
  BY <1>2 DEF config, resolved
<1>5. want = [f \in Files |-> want[f]] /\ want.intent = resolved.config
  BY FileSet
<1> HIDE DEF want
<1>6. /\ call.pc = "render" /\ call.kind = "apply" /\ call.plan = id
      /\ call.key = <<id, second>> /\ call.before = active /\ call.files = 1
      /\ call.kept = {} /\ call.want = want
  OBVIOUS
<1>7. call = [x \in ApplyFields |-> call[x]]
  BY DEF ApplyFields
<1> HIDE DEF call
<1>8. active = [f \in Files |-> active[f]]
  BY DEF Shapes
<1>9. ApplyCall(call)
  BY <1>5, <1>6, <1>7, <1>8 DEF ApplyCall
<1>10. calls' = [calls EXCEPT ![c] = call]
  BY <1>4 DEF Start
<1>11. call.kind # "render"
  BY <1>6
<1>12. appliesRaced \in BOOLEAN /\ rendersRaced \in BOOLEAN
  BY DEF Shapes
<1>13. calls'[c] = call
  BY <1>10, CallSet
<1>14. /\ started < MaxCalls /\ started' = started + 1
       /\ appliesRaced' = (appliesRaced \/ Applying # {})
       /\ rendersRaced' = rendersRaced
  BY <1>4, <1>6, <1>11, <1>12 DEF Start, ApplyLoad, Ready
<1>15. /\ Resolve(config, Nodes(artifacts)).ok
       /\ calls'[c].want.intent = ResolvedConfig(config, Nodes(artifacts))
  BY <1>3, <1>5, <1>6, <1>13 DEF resolved
<1> QED
  BY <1>1, <1>6, <1>9, <1>10, <1>13, <1>14, <1>15, CallSet DEF config

RenderStep(c) ==
    \/ RenderAllocate(c) \/ RenderWriteConfig(c) \/ RenderCandidate(c)
    \/ RenderWriteSummary(c)

LEMMA RenderMoves ==
  ASSUME Shapes, NEW c \in Clients, RenderStep(c)
  PROVE  /\ RenderCall(calls[c])
         /\ \/ calls'[c] = Idle
            \/ RenderCall(calls'[c]) /\ calls'[c].config = calls[c].config
         /\ At(c, "allocate") => /\ calls'[c].pc = "config"
                                 /\ calls'[c].plan = AllocatePlanID(calls[c].name, calls[c].now)
         /\ At(c, "config") => calls'[c].pc = "output" /\ calls'[c].plan = calls[c].plan
         /\ At(c, "output") => \/ calls'[c] = Idle
                               \/ calls'[c].pc = "summary" /\ calls'[c].plan = calls[c].plan
         /\ At(c, "summary") => calls'[c] = Idle
         /\ \A d \in Clients \ {c} : calls'[d] = calls[d]
         /\ calls' = [d \in Clients |-> calls'[d]]
         /\ UNCHANGED <<active, backups, artifacts, second, started, rendersRaced,
                        appliesRaced, mishaps, result>>
<1>1. RenderCall(calls[c])
  BY KindOf DEF RenderStep, RenderAllocate, RenderWriteConfig, RenderCandidate,
                RenderWriteSummary, At
<1> DEFINE r == calls[c]
<1>2. CASE RenderAllocate(c)
  <2> DEFINE s == [r EXCEPT !.pc = "config", !.plan = AllocatePlanID(r.name, r.now)]
  <2>1. calls' = [calls EXCEPT ![c] = s]
    BY <1>2 DEF RenderAllocate, Goto
  <2>2. /\ RenderCall(s) /\ s.config = r.config
        /\ s.pc = "config" /\ s.plan = AllocatePlanID(r.name, r.now)
    BY <1>1 DEF RenderCall, RenderFields
  <2> QED
    BY <1>1, <1>2, <2>1, <2>2, CallSet DEF RenderAllocate, Goto, At
<1>3. CASE RenderWriteConfig(c)
  <2> DEFINE s == [r EXCEPT !.pc = "output"]
  <2>1. calls' = [calls EXCEPT ![c] = s]
    BY <1>3 DEF RenderWriteConfig, Goto, GotoPc
  <2>2. RenderCall(s) /\ s.config = r.config /\ s.pc = "output" /\ s.plan = r.plan
    BY <1>1 DEF RenderCall, RenderFields
  <2> QED
    BY <1>1, <1>3, <2>1, <2>2, CallSet DEF RenderWriteConfig, Goto, GotoPc, At
<1>4. CASE RenderCandidate(c)
  <2> DEFINE s == [r EXCEPT !.pc = "summary"]
  <2>1. calls' = [calls EXCEPT ![c] = s] \/ calls' = [calls EXCEPT ![c] = Idle]
    BY <1>4 DEF RenderCandidate, Goto, GotoPc, Return
  <2>2. RenderCall(s) /\ s.config = r.config /\ s.pc = "summary" /\ s.plan = r.plan
    BY <1>1 DEF RenderCall, RenderFields
  <2>3. UNCHANGED <<started, rendersRaced, appliesRaced>>
    BY <1>4 DEF RenderCandidate, Goto, GotoPc, Return
  <2> QED
    BY <1>1, <1>4, <2>1, <2>2, <2>3, CallSet DEF RenderCandidate, At
<1>5. CASE RenderWriteSummary(c)
  <2>1. calls' = [calls EXCEPT ![c] = Idle]
    BY <1>5 DEF RenderWriteSummary, Goto, Return
  <2> QED
    BY <1>1, <1>5, <2>1, CallSet DEF RenderWriteSummary, Goto, Return, At
<1> QED
  BY <1>2, <1>3, <1>4, <1>5 DEF RenderStep

-----------------------------------------------------------------------------
(* What happens around the calls.                                          *)

Around == Deliver \/ LoseConfig \/ Tick \/ UNCHANGED vars

LEMMA AroundMoves ==
  ASSUME Around
  PROVE  UNCHANGED <<active, backups, callVars, reviewed, result>>
BY DEF Around, Deliver, LoseConfig, Tick, vars, callVars

LEMMA CrashMoves ==
  ASSUME NEW c \in Clients, Crash(c)
  PROVE  /\ \A d \in Clients : calls'[d] = Idle
         /\ calls' = [d \in Clients |-> calls'[d]]
         /\ \A d \in Clients : ~RenderCall(calls'[d]) /\ ~ApplyCall(calls'[d])
         /\ \A d \in Clients : calls'[d].pc = "idle"
         /\ Applying' = {} /\ Rendering' = {}
         /\ UNCHANGED <<backups, plans, artifacts, second, reviewed, started, rendersRaced,
                        appliesRaced>>
<1>1. calls' = [d \in Clients |-> Idle]
  BY DEF Crash
<1>2. \A d \in Clients : calls'[d] = Idle /\ calls'[d].pc = "idle"
  BY <1>1 DEF Idle
<1> QED
  BY <1>1, <1>2 DEF Crash, RenderCall, ApplyCall, Applying, Rendering

-----------------------------------------------------------------------------
(* The types.                                                              *)

LEMMA NextCases ==
  ASSUME [Next]_vars
  PROVE  \/ Around
         \/ \E c \in Clients : \/ RenderResolve(c) \/ RenderStep(c) \/ ApplyLoad(c)
                               \/ ApplyStep(c) \/ Crash(c)
BY DEF Next, Step, Around, RenderStep, ApplyStep

LEMMA PlansStep ==
  ASSUME Shapes, Links, [Next]_vars
  PROVE  /\ IsFiniteSet(DOMAIN plans')
         /\ DOMAIN plans \subseteq DOMAIN plans'
         /\ \A id \in DOMAIN plans' :
               plans'[id] = [config |-> plans'[id].config, summary |-> plans'[id].summary]
         /\ \A id \in DOMAIN plans' :
               plans'[id].summary # None => id \in DOMAIN reviewed'
         /\ DOMAIN reviewed \subseteq DOMAIN reviewed'
         /\ DOMAIN reviewed' \subseteq DOMAIN plans'
<1> DEFINE Goal ==
             /\ IsFiniteSet(DOMAIN plans')
             /\ DOMAIN plans \subseteq DOMAIN plans'
             /\ \A id \in DOMAIN plans' :
                   plans'[id] = [config |-> plans'[id].config, summary |-> plans'[id].summary]
             /\ \A id \in DOMAIN plans' :
                   plans'[id].summary # None => id \in DOMAIN reviewed'
             /\ DOMAIN reviewed \subseteq DOMAIN reviewed'
             /\ DOMAIN reviewed' \subseteq DOMAIN plans'
<1>1. CASE UNCHANGED <<plans, reviewed>>
  BY <1>1 DEF Shapes, Links
<1>2. ASSUME NEW c \in Clients, RenderWriteConfig(c)
      PROVE  Goal
  <2> DEFINE id == calls[c].plan
             dir == IF id \in DOMAIN plans THEN plans[id]
                                           ELSE [config |-> None, summary |-> None]
             new == [dir EXCEPT !.config = calls[c].config]
  <2>1. plans' = Bind(plans, id, new) /\ reviewed' = reviewed
    BY <1>2 DEF RenderWriteConfig
  <2>2. dir = [config |-> dir.config, summary |-> dir.summary]
    BY DEF Shapes
  <2>3. dir.summary # None => id \in DOMAIN reviewed
    BY DEF Links
  <2>4. new = [config |-> new.config, summary |-> dir.summary]
    BY <2>2
  <2>5. new.summary = dir.summary
    BY <2>4
  <2> HIDE DEF new
  <2>6. /\ DOMAIN plans' = DOMAIN plans \union {id} /\ plans'[id] = new
        /\ \A x \in DOMAIN plans : x # id => plans'[x] = plans[x]
    BY <2>1 DEF Bind
  <2>7. IsFiniteSet(DOMAIN plans')
    BY <2>6, FS_AddElement DEF Shapes
  <2>8. \A x \in DOMAIN plans' :
           plans'[x] = [config |-> plans'[x].config, summary |-> plans'[x].summary]
    BY <2>4, <2>5, <2>6 DEF Shapes
  <2> QED
    BY <2>1, <2>3, <2>5, <2>6, <2>7, <2>8 DEF Links
<1>3. ASSUME NEW c \in Clients, RenderWriteSummary(c)
      PROVE  Goal
  <2> DEFINE id == calls[c].plan
  <2>1. PICK summary, value : /\ plans' = [plans EXCEPT ![id].summary = summary]
                              /\ reviewed' = Bind(reviewed, id, value)
    BY <1>3 DEF RenderWriteSummary
  <2>2. id \in DOMAIN plans
    BY <1>3 DEF RenderWriteSummary, Links
  <2>3. DOMAIN reviewed' = DOMAIN reviewed \union {id}
    BY <2>1 DEF Bind
  <2>4. /\ DOMAIN plans' = DOMAIN plans
        /\ plans'[id] = [plans[id] EXCEPT !.summary = summary]
        /\ \A x \in DOMAIN plans : x # id => plans'[x] = plans[x]
    BY <2>1, <2>2
  <2>5. plans'[id] = [config |-> plans'[id].config, summary |-> plans'[id].summary]
    <3>1. plans[id] = [config |-> plans[id].config, summary |-> plans[id].summary]
      BY <2>2 DEF Shapes
    <3> QED
      BY <2>4, <3>1
  <2>6. \A x \in DOMAIN plans' :
           plans'[x] = [config |-> plans'[x].config, summary |-> plans'[x].summary]
    BY <2>4, <2>5 DEF Shapes
  <2> QED
    BY <2>2, <2>3, <2>4, <2>6 DEF Links, Shapes
<1>4. CASE LoseConfig
  <2>1. PICK id \in DOMAIN plans : plans' = [plans EXCEPT ![id].config = None]
    BY <1>4 DEF LoseConfig
  <2>2. /\ DOMAIN plans' = DOMAIN plans
        /\ plans'[id] = [plans[id] EXCEPT !.config = None]
        /\ \A x \in DOMAIN plans : x # id => plans'[x] = plans[x]
    BY <2>1
  <2>3. plans[id] = [config |-> plans[id].config, summary |-> plans[id].summary]
    BY DEF Shapes
  <2>4. /\ plans'[id] = [config |-> plans'[id].config, summary |-> plans'[id].summary]
        /\ plans'[id].summary = plans[id].summary
    BY <2>2, <2>3
  <2>5. \A x \in DOMAIN plans' :
           /\ plans'[x] = [config |-> plans'[x].config, summary |-> plans'[x].summary]
           /\ plans'[x].summary = plans[x].summary
    BY <2>2, <2>4 DEF Shapes
  <2>6. reviewed' = reviewed
    BY <1>4 DEF LoseConfig
  <2> QED
    BY <2>2, <2>5, <2>6 DEF Links, Shapes
<1> HIDE DEF Goal
<1>5. ASSUME NEW c \in Clients, RenderStep(c)
      PROVE  Goal
  <2>1. CASE RenderAllocate(c)
    BY <1>1, <2>1 DEF RenderAllocate, Goal
  <2>2. CASE RenderCandidate(c)
    BY <1>1, <2>2 DEF RenderCandidate, Goal
  <2> QED
    BY <1>2, <1>3, <1>5, <2>1, <2>2 DEF RenderStep
<1>6. ASSUME Around
      PROVE  Goal
  <2>1. CASE LoseConfig
    BY <1>4, <2>1 DEF Goal
  <2>2. CASE Deliver \/ Tick \/ UNCHANGED vars
    BY <1>1, <2>2 DEF Deliver, Tick, vars, Goal
  <2> QED
    BY <1>6, <2>1, <2>2 DEF Around
<1>7. ASSUME NEW c \in Clients, RenderResolve(c) \/ ApplyLoad(c) \/ ApplyStep(c) \/ Crash(c)
      PROVE  Goal
  <2>1. UNCHANGED <<plans, reviewed>>
    BY <1>7, ApplyMoves, CrashMoves DEF RenderResolve, ApplyLoad
  <2> QED
    BY <1>1, <2>1 DEF Goal
<1>8. Goal
  BY <1>5, <1>6, <1>7, NextCases
<1> QED
  BY <1>8 DEF Goal

LEMMA FilesStep ==
  ASSUME Shapes, [Next]_vars
  PROVE  active' = [f \in Files |-> active'[f]]
<1>1. \/ active' = active
      \/ \E f, x : active' = [active EXCEPT ![f] = x]
  <2>1. ASSUME NEW c \in Clients, RenderResolve(c) \/ ApplyLoad(c)
        PROVE  active' = active
    BY <2>1 DEF RenderResolve, ApplyLoad
  <2>2. ASSUME NEW c \in Clients, ApplyStep(c)
        PROVE  \/ active' = active
               \/ \E f, x : active' = [active EXCEPT ![f] = x]
    BY <2>2 DEF ApplyStep, ApplyRender, ApplyBackup, ApplyPrepare, ApplyCommit, ApplyRollback,
                ApplyRolledBack
  <2>3. ASSUME NEW c \in Clients, Crash(c)
        PROVE  \/ active' = active
               \/ \E f, x : active' = [active EXCEPT ![f] = x]
    BY <2>3 DEF Crash
  <2> QED
    BY <2>1, <2>2, <2>3, RenderMoves, AroundMoves, NextCases
<1>2. active = [f \in Files |-> active[f]]
  BY DEF Shapes
<1>3. ASSUME NEW f, NEW x, active' = [active EXCEPT ![f] = x]
      PROVE  active' = [g \in Files |-> active'[g]]
  BY <1>2, <1>3
<1> QED
  BY <1>1, <1>2, <1>3

\* What a step of an apply does to the backups.
LEMMA BackupStep ==
  ASSUME Shapes, NEW c \in Clients, ApplyStep(c)
  PROVE  \/ backups' = backups
         \/ \E x : /\ x # None
                   /\ LET f == Targets[calls[c].files]
                          key == calls[c].key
                          earlier == IF key \in DOMAIN backups THEN backups[key] ELSE NoFiles
                      IN backups' = Bind(backups, key, [earlier EXCEPT ![f] = x])
<1>1. CASE ApplyBackup(c)
  BY <1>1, FilesAssumption DEF ApplyBackup
<1>2. CASE ~ApplyBackup(c)
  BY <1>2 DEF ApplyStep, ApplyRender, ApplyPrepare, ApplyCommit, ApplyRollback, ApplyRolledBack
<1> QED
  BY <1>1, <1>2

LEMMA BackupsStep ==
  ASSUME Shapes, [Next]_vars
  PROVE  \A key \in DOMAIN backups' : backups'[key] = [f \in Files |-> backups'[key][f]]
<1>1. CASE backups' = backups
  BY <1>1 DEF Shapes
<1>2. ASSUME NEW c \in Clients, ApplyStep(c), backups' # backups
      PROVE  \A key \in DOMAIN backups' : backups'[key] = [f \in Files |-> backups'[key][f]]
  <2> DEFINE f == Targets[calls[c].files]
             key == calls[c].key
             earlier == IF key \in DOMAIN backups THEN backups[key] ELSE NoFiles
  <2>1. PICK x : backups' = Bind(backups, key, [earlier EXCEPT ![f] = x])
    BY <1>2, BackupStep
  <2>2. earlier = [g \in Files |-> earlier[g]]
    BY DEF Shapes, NoFiles
  <2> DEFINE new == [earlier EXCEPT ![f] = x]
  <2>3. new = [g \in Files |-> new[g]]
    BY <2>2
  <2> HIDE DEF new
  <2>4. /\ DOMAIN backups' = DOMAIN backups \union {key} /\ backups'[key] = new
        /\ \A k \in DOMAIN backups : k # key => backups'[k] = backups[k]
    BY <2>1 DEF Bind, new
  <2> QED
    BY <2>3, <2>4 DEF Shapes
<1>3. ASSUME NEW c \in Clients,
             RenderResolve(c) \/ RenderStep(c) \/ ApplyLoad(c) \/ Crash(c)
      PROVE  backups' = backups
  BY <1>3, RenderMoves, CrashMoves DEF RenderResolve, ApplyLoad
<1> QED
  BY <1>1, <1>2, <1>3, AroundMoves, NextCases

LEMMA ShapesStep ==
  ASSUME Shapes, Links, [Next]_vars
  PROVE  Shapes'
<1>1. /\ calls' = [d \in Clients |-> calls'[d]]
      /\ \A d \in Clients : calls'[d] = Idle \/ RenderCall(calls'[d]) \/ ApplyCall(calls'[d])
      /\ rendersRaced' \in BOOLEAN /\ appliesRaced' \in BOOLEAN
  <2> DEFINE Goal ==
        /\ calls' = [d \in Clients |-> calls'[d]]
        /\ \A d \in Clients : calls'[d] = Idle \/ RenderCall(calls'[d]) \/ ApplyCall(calls'[d])
        /\ rendersRaced' \in BOOLEAN /\ appliesRaced' \in BOOLEAN
  <2>1. ASSUME NEW c \in Clients, RenderResolve(c)
        PROVE  Goal
    BY <2>1, RenderResolveMoves DEF Shapes
  <2>2. ASSUME NEW c \in Clients, RenderStep(c)
        PROVE  Goal
    BY <2>2, RenderMoves DEF Shapes
  <2>3. ASSUME NEW c \in Clients, ApplyLoad(c)
        PROVE  Goal
    BY <2>3, ApplyLoadMoves DEF Shapes
  <2>4. ASSUME NEW c \in Clients, ApplyStep(c)
        PROVE  Goal
    BY <2>4, ApplyMoves DEF Shapes, Continues
  <2>5. ASSUME NEW c \in Clients, Crash(c)
        PROVE  Goal
    BY <2>5, CrashMoves DEF Shapes
  <2>6. ASSUME Around
        PROVE  Goal
    BY <2>6, AroundMoves DEF Shapes, callVars
  <2> HIDE DEF Goal
  <2>7. Goal
    BY <2>1, <2>2, <2>3, <2>4, <2>5, <2>6, NextCases
  <2> QED
    BY <2>7 DEF Goal
<1> QED
  BY <1>1, PlansStep, FilesStep, BackupsStep DEF Shapes

-----------------------------------------------------------------------------
(* What names a plan, and what is kept.                                    *)

\* What is in a backup is replaced, never taken out.
LEMMA BackupsGrow ==
  ASSUME Shapes, Links, [Next]_vars
  PROVE  \A key \in DOMAIN backups :
            /\ key \in DOMAIN backups'
            /\ \A f \in Files : backups[key][f] # None => backups'[key][f] # None
<1> DEFINE Goal ==
      \A key \in DOMAIN backups :
         /\ key \in DOMAIN backups'
         /\ \A f \in Files : backups[key][f] # None => backups'[key][f] # None
<1>1. CASE backups' = backups
  BY <1>1
<1>2. ASSUME NEW c \in Clients, ApplyStep(c), backups' # backups
      PROVE  Goal
  <2> DEFINE f == Targets[calls[c].files]
             key == calls[c].key
             earlier == IF key \in DOMAIN backups THEN backups[key] ELSE NoFiles
  <2>1. PICK x : x # None /\ backups' = Bind(backups, key, [earlier EXCEPT ![f] = x])
    BY <1>2, BackupStep
  <2> DEFINE new == [earlier EXCEPT ![f] = x]
  <2>2. key \in DOMAIN backups => \A g \in Files : backups[key][g] # None => new[g] # None
    BY <2>1 DEF Shapes
  <2> HIDE DEF new
  <2>3. /\ DOMAIN backups' = DOMAIN backups \union {key} /\ backups'[key] = new
        /\ \A k \in DOMAIN backups : k # key => backups'[k] = backups[k]
    BY <2>1 DEF Bind, new
  <2> QED
    BY <2>2, <2>3
<1>3. ASSUME NEW c \in Clients,
             RenderResolve(c) \/ RenderStep(c) \/ ApplyLoad(c) \/ Crash(c)
      PROVE  backups' = backups
  BY <1>3, RenderMoves, CrashMoves DEF RenderResolve, ApplyLoad
<1> QED
  BY <1>1, <1>2, <1>3, AroundMoves, NextCases

\* Backups are of plans, and of seconds that have passed.
LEMMA KeysStep ==
  ASSUME Shapes, Links, Bounds, [Next]_vars
  PROVE  /\ \A key \in DOMAIN backups' : key[1] \in DOMAIN plans' /\ key[2] \in 1..second'
         /\ second \in Nat /\ second' \in Nat /\ second <= second'
<1>1. second \in Nat /\ second' \in Nat /\ second <= second'
  <2>1. second \in Nat
    BY BoundsAssumption DEF Bounds
  <2>2. second' = second \/ second' = second + 1
    BY RenderMoves, ApplyMoves, CrashMoves, NextCases
       DEF RenderResolve, ApplyLoad, Around, Deliver, LoseConfig, Tick, vars
  <2> QED
    BY <2>1, <2>2
<1>2. \A key \in DOMAIN backups : key[1] \in DOMAIN plans' /\ key[2] \in 1..second'
  BY <1>1, PlansStep DEF Links
<1>3. CASE backups' = backups
  BY <1>1, <1>2, <1>3
<1>4. ASSUME NEW c \in Clients, ApplyStep(c), backups' # backups
      PROVE  \A key \in DOMAIN backups' : key[1] \in DOMAIN plans' /\ key[2] \in 1..second'
  <2> DEFINE key == calls[c].key
  <2>1. PICK new : backups' = Bind(backups, key, new)
    BY <1>4, BackupStep
  <2>2. DOMAIN backups' = DOMAIN backups \union {key}
    BY <2>1 DEF Bind
  <2>3. ApplyCall(calls[c])
    BY <1>4, ApplyMoves
  <2>4. key = <<calls[c].plan, key[2]>> /\ calls[c].plan \in DOMAIN plans /\ key[2] \in 1..second
    BY <2>3 DEF Links
  <2>5. key[1] \in DOMAIN plans' /\ key[2] \in 1..second'
    BY <1>1, <2>4, PlansStep
  <2> QED
    BY <1>2, <2>2, <2>5
<1>5. ASSUME NEW c \in Clients,
             RenderResolve(c) \/ RenderStep(c) \/ ApplyLoad(c) \/ Crash(c)
      PROVE  backups' = backups
  BY <1>5, RenderMoves, CrashMoves DEF RenderResolve, ApplyLoad
<1> QED
  BY <1>1, <1>3, <1>4, <1>5, AroundMoves, NextCases

\* What the call of an apply holds, in any state.
CallLinks(c) ==
    /\ calls[c].plan \in DOMAIN reviewed
    /\ calls[c].key = <<calls[c].plan, calls[c].key[2]>>
    /\ calls[c].key[2] \in 1..second
    /\ calls[c].files \in 0..3 /\ calls[c].kept \subseteq Files
    /\ calls[c].pc # "rollback" => calls[c].files > 0
    /\ \A f \in calls[c].kept :
          calls[c].key \in DOMAIN backups /\ backups[calls[c].key][f] # None

\* The updates of a call while files are replaced, and what each leaves.
Counted(r, n) == [r EXCEPT !.files = n]
TurnedBack(r, n) == [r EXCEPT !.pc = "rollback", !.files = n]
Erred(r, n) == [r EXCEPT !.files = n, !.clean = FALSE]

SameBut(r, s) ==
    /\ s.kept = r.kept /\ s.existed = r.existed /\ s.want = r.want
    /\ s.before = r.before /\ s.key = r.key

LEMMA Counting ==
  ASSUME NEW r, ApplyCall(r), NEW n, NEW s, s = Counted(r, n)
  PROVE  s.files = n /\ s.pc = r.pc /\ s.clean = r.clean /\ SameBut(r, s)
BY DEF ApplyCall, ApplyFields, Counted, SameBut

LEMMA TurningBack ==
  ASSUME NEW r, ApplyCall(r), NEW n, NEW s, s = TurnedBack(r, n)
  PROVE  s.files = n /\ s.pc = "rollback" /\ s.clean = r.clean /\ SameBut(r, s)
BY DEF ApplyCall, ApplyFields, TurnedBack, SameBut

LEMMA Erring ==
  ASSUME NEW r, ApplyCall(r), NEW n, NEW s, s = Erred(r, n)
  PROVE  s.files = n /\ s.pc = r.pc /\ ~s.clean /\ SameBut(r, s)
BY DEF ApplyCall, ApplyFields, Erred, SameBut

\* An apply counts files in their range, and keeps what it has copied.
LEMMA KeptStep ==
  ASSUME Shapes, Links, NEW c \in Clients, ApplyStep(c), calls'[c] # Idle
  PROVE  /\ calls'[c].files \in 0..3 /\ calls'[c].kept \subseteq Files
         /\ calls'[c].pc # "rollback" => calls'[c].files > 0
         /\ \A f \in calls'[c].kept :
               \/ f \in calls[c].kept
               \/ /\ calls[c].key \in DOMAIN backups'
                  /\ backups'[calls[c].key][f] # None
<1>1. ApplyCall(calls[c]) /\ CallLinks(c)
  BY ApplyMoves DEF Links, CallLinks
<1> DEFINE r == calls[c]
           s == calls'[c]
<1>2. Len(Targets) = 3 /\ r.files \in 0..3 /\ r.kept \subseteq Files
      /\ (r.pc # "rollback" => r.files > 0)
  BY <1>1, FileSet DEF CallLinks
<1>3. CASE ApplyRender(c)
  <2>1. PICK rendered : \/ calls' = [calls EXCEPT ![c] = [r EXCEPT !.pc = "backup",
                                                                   !.want.output = rendered]]
                        \/ calls' = [calls EXCEPT ![c] = Idle]
    BY <1>3 DEF ApplyRender, Goto, Return
  <2>2. s = [r EXCEPT !.pc = "backup", !.want.output = rendered]
    BY <2>1, CallSet
  <2>3. s.pc = "backup" /\ s.files = r.files /\ s.kept = r.kept /\ r.pc = "render"
    BY <1>1, <1>3, <2>2 DEF ApplyCall, ApplyFields, ApplyRender, At
  <2> QED
    BY <1>2, <2>3
<1>4. CASE ApplyBackup(c)
  <2> DEFINE f == Targets[r.files]
             next == IF r.files = 3 THEN [r EXCEPT !.pc = "prepare"]
                                    ELSE [r EXCEPT !.files = @ + 1]
             earlier == IF r.key \in DOMAIN backups THEN backups[r.key] ELSE NoFiles
  <2>1. r.pc = "backup" /\ f \in Files
    BY <1>2, <1>4, FileSet DEF ApplyBackup, At
  <2>2. \/ calls' = [calls EXCEPT ![c] = next]
        \/ /\ calls' = [calls EXCEPT ![c] = [next EXCEPT !.kept = @ \union {f}]]
           /\ active[f] # None
           /\ backups' = Bind(backups, r.key, [earlier EXCEPT ![f] = active[f]])
        \/ calls' = [calls EXCEPT ![c] = Idle]
    BY <1>2, <1>4 DEF ApplyBackup, Goto, Return
  <2>3. /\ next.files \in 1..3 /\ next.kept = r.kept /\ next.pc # "rollback"
        /\ next.files = [next EXCEPT !.kept = @ \union {f}].files
        /\ next.pc = [next EXCEPT !.kept = @ \union {f}].pc
        /\ [next EXCEPT !.kept = @ \union {f}].kept = r.kept \union {f}
    BY <1>1, <1>2, <2>1 DEF ApplyCall, ApplyFields
  <2> HIDE DEF next
  <2>4. CASE calls' = [calls EXCEPT ![c] = next]
    BY <1>2, <2>3, <2>4, CallSet
  <2>5. CASE /\ calls' = [calls EXCEPT ![c] = [next EXCEPT !.kept = @ \union {f}]]
             /\ active[f] # None
             /\ backups' = Bind(backups, r.key, [earlier EXCEPT ![f] = active[f]])
    <3>1. s = [next EXCEPT !.kept = @ \union {f}]
      BY <2>5, CallSet
    <3>2. earlier = [g \in Files |-> earlier[g]]
      BY DEF Shapes, NoFiles
    <3>3. [earlier EXCEPT ![f] = active[f]][f] = active[f]
      BY <2>1, <3>2
    <3>4. r.key \in DOMAIN backups' /\ backups'[r.key][f] # None
      BY <2>5, <3>3 DEF Bind
    <3> QED
      BY <1>2, <2>1, <2>3, <3>1, <3>4
  <2> QED
    BY <2>2, <2>4, <2>5, CallSet
<1>5. CASE ApplyPrepare(c)
  <2>1. PICK x : \/ calls' = [calls EXCEPT ![c] = [r EXCEPT !.pc = "commit", !.files = 1,
                                                            !.existed = x]]
                 \/ calls' = [calls EXCEPT ![c] = Idle]
    BY <1>5 DEF ApplyPrepare, Goto, Return
  <2>2. s = [r EXCEPT !.pc = "commit", !.files = 1, !.existed = x]
    BY <2>1, CallSet
  <2>3. s.pc = "commit" /\ s.files = 1 /\ s.kept = r.kept
    BY <1>1, <2>2 DEF ApplyCall, ApplyFields
  <2> QED
    BY <1>2, <2>3
<1>6. CASE ApplyCommit(c)
  <2>1. r.pc = "commit"
    BY <1>6 DEF ApplyCommit, At
  <2>2. \/ r.files # 3 /\ calls' = [calls EXCEPT ![c] = Counted(r, r.files + 1)]
        \/ \E n \in {r.files, r.files - 1} : calls' = [calls EXCEPT ![c] = TurnedBack(r, n)]
        \/ calls' = [calls EXCEPT ![c] = Idle]
    BY <1>2, <1>6 DEF ApplyCommit, Goto, Return, Counted, TurnedBack
  <2>3. \/ r.files # 3 /\ s = Counted(r, r.files + 1)
        \/ \E n \in {r.files, r.files - 1} : s = TurnedBack(r, n)
    BY <2>2, CallSet
  <2>4. /\ s.kept = r.kept
        /\ \/ r.files # 3 /\ s.files = r.files + 1
           \/ s.pc = "rollback" /\ s.files \in {r.files, r.files - 1}
    BY <1>1, <2>3, Counting, TurningBack DEF SameBut
  <2>5. r.files \in 1..3
    BY <1>2, <2>1
  <2>6. s.files \in 0..3 /\ (s.pc # "rollback" => s.files > 0)
    BY <2>4, <2>5
  <2> QED
    BY <1>2, <2>4, <2>6
<1>7. CASE ApplyRollback(c)
  <2>1. r.pc = "rollback" /\ r.files > 0
    BY <1>7 DEF ApplyRollback, At
  <2>2. \/ calls' = [calls EXCEPT ![c] = Counted(r, r.files - 1)]
        \/ calls' = [calls EXCEPT ![c] = Erred(r, r.files - 1)]
    BY <1>7 DEF ApplyRollback, Goto, Counted, Erred
  <2>3. s = Counted(r, r.files - 1) \/ s = Erred(r, r.files - 1)
    BY <2>2, CallSet
  <2>4. s.kept = r.kept /\ s.files = r.files - 1 /\ s.pc = "rollback"
    <3>1. CASE s = Counted(r, r.files - 1)
      BY <1>1, <2>1, <3>1, Counting DEF SameBut
    <3>2. CASE s = Erred(r, r.files - 1)
      BY <1>1, <2>1, <3>2, Erring DEF SameBut
    <3> QED
      BY <2>3, <3>1, <3>2
  <2>5. s.files \in 0..3
    BY <1>2, <2>1, <2>4
  <2> QED
    BY <1>2, <2>4, <2>5
<1>8. CASE ApplyRolledBack(c)
  <2>1. calls' = [calls EXCEPT ![c] = Idle]
    BY <1>8 DEF ApplyRolledBack, Goto, Return
  <2> QED
    BY <2>1, CallSet
<1> QED
  BY <1>3, <1>4, <1>5, <1>6, <1>7, <1>8 DEF ApplyStep

\* The part of Links about one client.
ClientLinks(c) ==
    /\ RenderCall(calls[c]) => Resolved(calls[c].config)
    /\ At(c, "output") \/ At(c, "summary") => calls[c].plan \in DOMAIN plans
    /\ ApplyCall(calls[c]) => CallLinks(c)

LEMMA LinksParts ==
  Links <=>
    /\ \A key \in DOMAIN backups : key[1] \in DOMAIN plans /\ key[2] \in 1..second
    /\ DOMAIN reviewed \subseteq DOMAIN plans
    /\ \A id \in DOMAIN plans : plans[id].summary # None => id \in DOMAIN reviewed
    /\ \A c \in Clients : ClientLinks(c)
BY DEF Links, ClientLinks, CallLinks

\* A call that is not touched keeps its links.
LEMMA OtherLinks ==
  ASSUME Shapes, Links, Bounds, [Next]_vars, NEW d \in Clients, calls'[d] = calls[d]
  PROVE  ClientLinks(d)'
<1>1. ClientLinks(d)
  BY LinksParts
<1>2. RenderCall(calls'[d]) => Resolved(calls'[d].config)
  BY <1>1 DEF ClientLinks
<1>3. At(d, "output")' \/ At(d, "summary")' => calls'[d].plan \in DOMAIN plans'
  BY <1>1, PlansStep DEF ClientLinks, At
<1>4. ASSUME ApplyCall(calls'[d])
      PROVE  CallLinks(d)'
  <2>1. CallLinks(d)
    BY <1>1, <1>4 DEF ClientLinks
  <2>2. calls'[d].plan \in DOMAIN reviewed'
    BY <2>1, PlansStep DEF CallLinks
  <2>3. calls'[d].key[2] \in 1..second'
    BY <2>1, KeysStep DEF CallLinks
  <2>4. \A f \in calls'[d].kept :
           calls'[d].key \in DOMAIN backups' /\ backups'[calls'[d].key][f] # None
    BY <2>1, BackupsGrow DEF CallLinks
  <2> QED
    BY <2>1, <2>2, <2>3, <2>4 DEF CallLinks
<1> QED
  BY <1>2, <1>3, <1>4 DEF ClientLinks

LEMMA LinksStep ==
  ASSUME Shapes, Links, Bounds, [Next]_vars
  PROVE  Links'
<1> DEFINE Goal == \A d \in Clients : ClientLinks(d)'
<1>1. ASSUME NEW c \in Clients, RenderResolve(c)
      PROVE  Goal
  <2>1. RenderCall(calls'[c]) /\ calls'[c].pc = "allocate" /\ Resolved(calls'[c].config)
    BY <1>1, RenderResolveMoves
  <2>2. ClientLinks(c)'
    BY <2>1 DEF ClientLinks, At, RenderCall, ApplyCall
  <2> QED
    BY <1>1, <2>2, RenderResolveMoves, OtherLinks
<1>2. ASSUME NEW c \in Clients, RenderStep(c)
      PROVE  Goal
  <2>1. RenderCall(calls[c]) /\ ClientLinks(c)
    BY <1>2, RenderMoves, LinksParts
  <2>2. ASSUME calls'[c] = Idle
        PROVE  ClientLinks(c)'
    BY <2>2 DEF ClientLinks, At, Idle, RenderCall, ApplyCall
  <2>3. ASSUME RenderCall(calls'[c]), calls'[c].config = calls[c].config
        PROVE  ClientLinks(c)'
    <3>1. Resolved(calls'[c].config)
      BY <2>1, <2>3 DEF ClientLinks
    <3>2. calls'[c].pc \in {"output", "summary"} => calls'[c].plan \in DOMAIN plans'
      <4>1. CASE At(c, "config")
        <5>1. plans' = Bind(plans, calls[c].plan, plans'[calls[c].plan])
          BY <1>2, <4>1 DEF RenderStep, RenderAllocate, RenderWriteConfig, RenderCandidate,
                            RenderWriteSummary, At, Bind
        <5>2. calls[c].plan \in DOMAIN plans'
          BY <5>1 DEF Bind
        <5> QED
          BY <1>2, <4>1, <5>2, RenderMoves
      <4>2. CASE At(c, "output")
        <5>1. calls[c].plan \in DOMAIN plans'
          BY <2>1, <4>2, PlansStep DEF ClientLinks
        <5>2. calls'[c] # Idle
          BY <2>3 DEF RenderCall, Idle
        <5> QED
          BY <1>2, <4>2, <5>1, <5>2, RenderMoves
      <4>3. CASE At(c, "allocate")
        BY <1>2, <4>3, RenderMoves
      <4>4. CASE At(c, "summary")
        BY <1>2, <4>4, RenderMoves DEF Idle
      <4> QED
        BY <2>1, <4>1, <4>2, <4>3, <4>4 DEF RenderCall, At
    <3> QED
      BY <2>3, <3>1, <3>2 DEF ClientLinks, At, RenderCall, ApplyCall
  <2>4. ClientLinks(c)'
    BY <1>2, <2>2, <2>3, RenderMoves
  <2> QED
    BY <1>2, <2>4, RenderMoves, OtherLinks
<1>3. ASSUME NEW c \in Clients, ApplyLoad(c)
      PROVE  Goal
  <2> DEFINE s == calls'[c]
  <2>1. /\ ApplyCall(s) /\ s.pc = "render" /\ s.files = 1 /\ s.kept = {}
        /\ s.plan \in Summarized /\ s.key = <<s.plan, second>>
    BY <1>3, ApplyLoadMoves
  <2>2. s.plan \in DOMAIN reviewed
    BY <2>1 DEF Links, Summarized
  <2>3. reviewed' = reviewed /\ second' = second /\ second \in 1..second
    BY <1>3, BoundsAssumption DEF ApplyLoad, Bounds
  <2>4. CallLinks(c)'
    BY <2>1, <2>2, <2>3 DEF CallLinks
  <2>5. ClientLinks(c)'
    BY <2>1, <2>4 DEF ClientLinks, At, RenderCall
  <2> QED
    BY <1>3, <2>5, ApplyLoadMoves, OtherLinks
<1>4. ASSUME NEW c \in Clients, ApplyStep(c)
      PROVE  Goal
  <2> DEFINE r == calls[c]
             s == calls'[c]
  <2>1. ApplyCall(r) /\ CallLinks(c)
    BY <1>4, ApplyMoves, LinksParts DEF ClientLinks
  <2>2. ASSUME s = Idle
        PROVE  ClientLinks(c)'
    BY <2>2 DEF ClientLinks, At, Idle, RenderCall, ApplyCall
  <2>3. ASSUME Continues(r, s)
        PROVE  ClientLinks(c)'
    <3>1. ApplyCall(s) /\ s.plan = r.plan /\ s.key = r.key /\ s # Idle
      BY <2>3 DEF Continues, ApplyCall, Idle
    <3>2. s.plan \in DOMAIN reviewed' /\ s.key = <<s.plan, s.key[2]>>
      BY <2>1, <3>1, PlansStep DEF CallLinks
    <3>3. s.key[2] \in 1..second'
      BY <2>1, <3>1, KeysStep DEF CallLinks
    <3>4. /\ s.files \in 0..3 /\ s.kept \subseteq Files
          /\ s.pc # "rollback" => s.files > 0
      BY <1>4, <3>1, KeptStep
    <3>5. \A f \in s.kept : s.key \in DOMAIN backups' /\ backups'[s.key][f] # None
      BY <1>4, <2>1, <3>1, KeptStep, BackupsGrow DEF CallLinks
    <3>6. CallLinks(c)'
      BY <3>2, <3>3, <3>4, <3>5 DEF CallLinks
    <3> QED
      BY <3>1, <3>6 DEF ClientLinks, At, RenderCall, ApplyCall
  <2>4. ClientLinks(c)'
    BY <1>4, <2>2, <2>3, ApplyMoves
  <2> QED
    BY <1>4, <2>4, ApplyMoves, OtherLinks
<1>5. ASSUME NEW c \in Clients, Crash(c)
      PROVE  Goal
  BY <1>5, CrashMoves DEF ClientLinks, At
<1>6. ASSUME Around
      PROVE  Goal
  <2>1. calls' = calls
    BY <1>6, AroundMoves DEF callVars
  <2> QED
    BY <2>1, OtherLinks
<1>7. \A d \in Clients : ClientLinks(d)'
  BY <1>1, <1>2, <1>3, <1>4, <1>5, <1>6, NextCases
<1>8. /\ \A key \in DOMAIN backups' : key[1] \in DOMAIN plans' /\ key[2] \in 1..second'
      /\ DOMAIN reviewed' \subseteq DOMAIN plans'
      /\ \A id \in DOMAIN plans' : plans'[id].summary # None => id \in DOMAIN reviewed'
  BY PlansStep, KeysStep
<1> HIDE DEF Goal
<1> QED
  BY <1>7, <1>8 DEF Links, ClientLinks, CallLinks

LEMMA BoundsStep ==
  ASSUME Shapes, Bounds, [Next]_vars
  PROVE  Bounds'
<1> USE BoundsAssumption DEF Bounds
<1>1. ASSUME NEW c \in Clients, RenderResolve(c)
      PROVE  Bounds'
  BY <1>1, RenderResolveMoves DEF RenderResolve
<1>2. ASSUME NEW c \in Clients, RenderStep(c)
      PROVE  Bounds'
  BY <1>2, RenderMoves
<1>3. ASSUME NEW c \in Clients, ApplyLoad(c)
      PROVE  Bounds'
  <2>1. UNCHANGED <<artifacts, second>>
    BY <1>3 DEF ApplyLoad
  <2>2. started < MaxCalls /\ started' = started + 1
    BY <1>3, ApplyLoadMoves
  <2> QED
    BY <2>1, <2>2
<1>4. ASSUME NEW c \in Clients, ApplyStep(c)
      PROVE  Bounds'
  BY <1>4, ApplyMoves
<1>5. ASSUME NEW c \in Clients, Crash(c)
      PROVE  Bounds'
  BY <1>5, CrashMoves
<1>6. ASSUME Around
      PROVE  Bounds'
  BY <1>6 DEF Around, Deliver, LoseConfig, Tick, callVars, vars
<1> QED
  BY <1>1, <1>2, <1>3, <1>4, <1>5, <1>6, NextCases

-----------------------------------------------------------------------------
(* Applies that have the files to themselves.                              *)

\* A step that no apply takes part in.
LEMMA AloneFrame ==
  ASSUME Shapes, Shapes', Alone, AppliesWhole,
         UNCHANGED <<active, backups, result, appliesRaced>>,
         \A d \in Clients : \/ calls'[d] = calls[d]
                            \/ ~ApplyCall(calls[d]) /\ ~ApplyCall(calls'[d])
  PROVE  Alone' /\ AppliesWhole'
<1>1. \A d \in Clients : d \in Applying' <=> d \in Applying
  <2> TAKE d \in Clients
  <2>1. d \in Applying <=> ApplyCall(calls[d])
    BY KindOf
  <2>2. d \in Applying' <=> ApplyCall(calls'[d])
    BY DEF Applying, Shapes, ApplyCall, RenderCall, Idle
  <2> QED
    BY <2>1, <2>2
<1>2. Applying' = Applying
  BY <1>1 DEF Applying
<1>3. \A d \in Applying : calls'[d] = calls[d]
  BY KindOf DEF Applying
<1>4. Alone'
  <2>1. SUFFICES ASSUME ~appliesRaced
                 PROVE  /\ \A c, d \in Applying : c = d
                        /\ \A c \in Applying : Progress(c)'
    BY <1>2 DEF Alone
  <2>2. \A c, d \in Applying : c = d
    BY <2>1 DEF Alone
  <2>3. ASSUME NEW c \in Applying
        PROVE  Progress(c)'
    <3>1. Progress(c) /\ calls'[c] = calls[c]
      BY <1>3, <2>1 DEF Alone
    <3> QED
      BY <3>1 DEF Progress, Copies, BackingUp, Committing, RollingBack
  <2> QED
    BY <2>2, <2>3
<1>5. AppliesWhole'
  <2>1. SUFFICES ASSUME ~appliesRaced, Applying = {}, result # None
                 PROVE  LeftWhole'
    BY <1>2 DEF AppliesWhole
  <2>2. LeftWhole
    BY <2>1 DEF AppliesWhole
  <2> QED
    BY <2>2 DEF LeftWhole
<1> QED
  BY <1>4, <1>5

\* One apply goes on.
LEMMA AloneGoes ==
  ASSUME Shapes, Alone, NEW c \in Clients, ApplyCall(calls[c]), ApplyCall(calls'[c]),
         \A d \in Clients \ {c} : calls'[d] = calls[d],
         appliesRaced' = appliesRaced,
         ~appliesRaced /\ Progress(c) => Progress(c)'
  PROVE  Alone' /\ AppliesWhole'
<1>1. c \in Applying /\ c \in Applying'
  BY DEF Applying, ApplyCall
<1>2. \A d \in Applying' : d = c \/ d \in Applying
  BY DEF Applying
<1>3. ASSUME ~appliesRaced
      PROVE  /\ \A d, e \in Applying' : d = e
             /\ \A d \in Applying' : Progress(d)'
  <2>1. \A d \in Applying' : d = c
    BY <1>1, <1>2, <1>3 DEF Alone
  <2>2. Progress(c)'
    BY <1>1, <1>3 DEF Alone
  <2> QED
    BY <2>1, <2>2
<1>4. Alone'
  BY <1>3 DEF Alone
<1>5. AppliesWhole'
  BY <1>1 DEF AppliesWhole
<1> QED
  BY <1>4, <1>5

\* One apply ends.
LEMMA AloneEnds ==
  ASSUME Shapes, Alone, NEW c \in Clients, ApplyCall(calls[c]), calls'[c] = Idle,
         \A d \in Clients \ {c} : calls'[d] = calls[d],
         appliesRaced' = appliesRaced,
         ~appliesRaced /\ Progress(c) => LeftWhole'
  PROVE  Alone' /\ AppliesWhole'
<1>1. c \in Applying /\ c \notin Applying'
  BY DEF Applying, ApplyCall, Idle
<1>2. \A d \in Applying' : d \in Applying /\ d # c
  BY <1>1 DEF Applying
<1>3. ~appliesRaced => Applying' = {}
  BY <1>1, <1>2 DEF Alone
<1>4. Alone'
  BY <1>3 DEF Alone
<1>5. ~appliesRaced => LeftWhole'
  BY <1>1 DEF Alone
<1> QED
  BY <1>4, <1>5 DEF AppliesWhole

\* An apply that replaced nothing, and one that died or erred.
LEMMA Untouched ==
  ASSUME NEW c \in Clients, End(c, "unchanged"), active' = calls[c].before
  PROVE  LeftWhole'
BY DEF LeftWhole, End

LEMMA Died ==
  ASSUME NEW c \in Clients, End(c, "failed"),
         \A f \in Files :
            \/ active'[f] = calls[c].before[f]
            \/ /\ active'[f] \in {calls[c].want[f], Torn}
               /\ \/ calls[c].before[f] = None
                  \/ backups'[calls[c].key][f] = calls[c].before[f]
  PROVE  LeftWhole'
BY DEF LeftWhole, End

LEMMA AloneLoad ==
  ASSUME Shapes, NEW c \in Clients, ApplyLoad(c)
  PROVE  Alone' /\ AppliesWhole'
<1> DEFINE s == calls'[c]
<1>1. /\ ApplyCall(s) /\ s.pc = "render" /\ s.before = active /\ s.files = 1 /\ s.kept = {}
      /\ \A d \in Clients \ {c} : calls'[d] = calls[d]
      /\ appliesRaced' = (appliesRaced \/ Applying # {})
  BY ApplyLoadMoves
<1>2. c \in Applying'
  BY <1>1 DEF Applying, ApplyCall
<1>3. AppliesWhole'
  BY <1>2 DEF AppliesWhole
<1>4. ASSUME ~appliesRaced'
      PROVE  \A d \in Applying' : d = c
  <2>1. Applying = {}
    BY <1>1, <1>4 DEF Shapes
  <2> QED
    BY <1>1, <2>1 DEF Applying
<1>5. active' = active
  BY DEF ApplyLoad
<1>6. Progress(c)'
  BY <1>1, <1>5 DEF Progress, BackingUp
<1>7. Alone'
  BY <1>4, <1>6 DEF Alone
<1> QED
  BY <1>3, <1>7

LEMMA AloneRender ==
  ASSUME Shapes, Links, Alone, NEW c \in Clients, ApplyRender(c)
  PROVE  Alone' /\ AppliesWhole'
<1> DEFINE r == calls[c]
           s == calls'[c]
<1>1. /\ ApplyCall(r) /\ r.pc = "render" /\ appliesRaced' = appliesRaced
      /\ \A d \in Clients \ {c} : calls'[d] = calls[d]
  BY ApplyMoves DEF ApplyStep, ApplyRender, At
<1>2. active' = active
  BY DEF ApplyRender
<1>3. PICK rendered :
         \/ calls' = [calls EXCEPT ![c] = [r EXCEPT !.pc = "backup", !.want.output = rendered]]
         \/ calls' = [calls EXCEPT ![c] = Idle] /\ End(c, "unchanged")
  BY DEF ApplyRender, Goto, Return
<1>4. CASE calls' = [calls EXCEPT ![c] = [r EXCEPT !.pc = "backup", !.want.output = rendered]]
  <2>1. s = [r EXCEPT !.pc = "backup", !.want.output = rendered]
    BY <1>4, CallSet
  <2>2. /\ s.pc = "backup" /\ s.files = r.files /\ s.kept = r.kept /\ s.before = r.before
    BY <1>1, <2>1 DEF ApplyCall, ApplyFields
  <2>3. ApplyCall(s)
    BY <1>1, <2>2, ApplyMoves DEF ApplyStep, Continues, Idle
  <2>4. Progress(c) => Progress(c)'
    <3>1. SUFFICES ASSUME Progress(c)
                   PROVE  Progress(c)'
      OBVIOUS
    <3>2. active = r.before /\ r.files = 1 /\ r.kept = {}
      BY <1>1, <3>1 DEF Progress, BackingUp
    <3>3. s.kept = {Targets[i] : i \in 1..(s.files - 1)} \intersect Found(s)
      BY <2>2, <3>2
    <3> QED
      BY <1>2, <2>2, <3>2, <3>3 DEF Progress, BackingUp, Copies
  <2> QED
    BY <1>1, <2>3, <2>4, AloneGoes
<1>5. CASE calls' = [calls EXCEPT ![c] = Idle] /\ End(c, "unchanged")
  <2>1. Progress(c) => LeftWhole'
    BY <1>1, <1>2, <1>5, Untouched DEF Progress, BackingUp
  <2> QED
    BY <1>1, <1>5, <2>1, CallSet, AloneEnds
<1> QED
  BY <1>3, <1>4, <1>5

LEMMA FirstFiles ==
  ASSUME NEW i \in 1..3
  PROVE  /\ \A f : f \in {Targets[j] : j \in 1..i} <=>
                      f = Targets[i] \/ f \in {Targets[j] : j \in 1..(i - 1)}
         /\ \A f \in Files : f \in {Targets[j] : j \in 1..3}
<1>1. \A j : j \in 1..i <=> j = i \/ j \in 1..(i - 1)
  OBVIOUS
<1>2. \A f \in Files : f \in {Targets[j] : j \in 1..3}
  BY FileSet
<1> QED
  BY <1>1, <1>2

LEMMA AloneBackup ==
  ASSUME Shapes, Links, Alone, NEW c \in Clients, ApplyBackup(c)
  PROVE  Alone' /\ AppliesWhole'
<1> DEFINE r == calls[c]
           s == calls'[c]
           i == calls[c].files
           f == Targets[i]
           next == IF i = 3 THEN [r EXCEPT !.pc = "prepare"] ELSE [r EXCEPT !.files = @ + 1]
           earlier == IF r.key \in DOMAIN backups THEN backups[r.key] ELSE NoFiles
<1>1. /\ ApplyCall(r) /\ r.pc = "backup" /\ appliesRaced' = appliesRaced
      /\ \A d \in Clients \ {c} : calls'[d] = calls[d]
  BY ApplyMoves DEF ApplyStep, ApplyBackup, At
<1>2. active' = active
  BY DEF ApplyBackup
<1>3. i \in 1..3 /\ f \in Files /\ Len(Targets) = 3
  BY <1>1, FileSet DEF Links
<1>4. \/ calls' = [calls EXCEPT ![c] = next] /\ active[f] = None /\ backups' = backups
      \/ /\ calls' = [calls EXCEPT ![c] = [next EXCEPT !.kept = @ \union {f}]]
         /\ active[f] # None
         /\ backups' = Bind(backups, r.key, [earlier EXCEPT ![f] = active[f]])
      \/ calls' = [calls EXCEPT ![c] = Idle] /\ End(c, "unchanged")
  BY <1>3 DEF ApplyBackup, Goto, Return
<1>5. /\ i = 3 => next.pc = "prepare"
      /\ i # 3 => next.pc = "backup" /\ next.files = i + 1
      /\ next.kept = r.kept /\ next.before = r.before /\ next.key = r.key
  BY <1>1, <1>3 DEF ApplyCall, ApplyFields
<1>6. /\ [next EXCEPT !.kept = @ \union {f}].pc = next.pc
      /\ [next EXCEPT !.kept = @ \union {f}].files = next.files
      /\ [next EXCEPT !.kept = @ \union {f}].before = next.before
      /\ [next EXCEPT !.kept = @ \union {f}].key = next.key
      /\ [next EXCEPT !.kept = @ \union {f}].kept = r.kept \union {f}
  BY <1>1, <1>3 DEF ApplyCall, ApplyFields
<1>7. CASE calls' = [calls EXCEPT ![c] = Idle] /\ End(c, "unchanged")
  <2>1. Progress(c) => LeftWhole'
    BY <1>1, <1>2, <1>7, Untouched DEF Progress, BackingUp
  <2> QED
    BY <1>1, <1>7, <2>1, CallSet, AloneEnds
<1>8. ASSUME Progress(c)
      PROVE  /\ active = r.before /\ Copies(r)
             /\ r.kept = {Targets[j] : j \in 1..(i - 1)} \intersect Found(r)
  BY <1>1, <1>8 DEF Progress, BackingUp
\* It is enough that what is kept has grown by this file, if it was there.
<1>9. ASSUME s.pc = next.pc, s.files = next.files, s.before = r.before, s.key = r.key,
             Progress(c), Copies(calls[c])',
             \A g : g \in s.kept <=> g \in r.kept \/ (g = f /\ active[f] # None)
      PROVE  Progress(c)'
  <2>1. \A g : g \in s.kept <=> g \in Found(r) /\ g \in {Targets[j] : j \in 1..i}
    BY <1>3, <1>8, <1>9, FirstFiles DEF Found
  <2>2. CASE i = 3
    <3>1. s.kept = Found(s)
      BY <1>9, <2>1, <2>2, FirstFiles DEF Found
    <3> QED
      BY <1>2, <1>5, <1>8, <1>9, <2>2, <3>1 DEF Progress, BackingUp, Copies
  <2>3. CASE i # 3
    <3>1. s.kept = {Targets[j] : j \in 1..(s.files - 1)} \intersect Found(s)
      <4>1. s.files = i + 1 /\ s.files - 1 = i
        BY <1>3, <1>5, <1>9, <2>3
      <4> QED
        BY <1>9, <2>1, <4>1 DEF Found
    <3> QED
      BY <1>2, <1>5, <1>8, <1>9, <2>3, <3>1 DEF Progress, BackingUp, Copies
  <2> QED
    BY <2>2, <2>3
<1> HIDE DEF next
<1>10. CASE calls' = [calls EXCEPT ![c] = next] /\ active[f] = None /\ backups' = backups
  <2>1. s = next
    BY <1>10, CallSet
  <2>2. Progress(c) => Copies(calls[c])'
    BY <1>5, <1>8, <1>10, <2>1 DEF Copies
  <2>3. Progress(c) => Progress(c)'
    BY <1>5, <1>9, <1>10, <2>1, <2>2
  <2>4. ApplyCall(s)
    <3>1. s.pc # "idle"
      BY <1>3, <1>5, <2>1
    <3> QED
      BY <3>1, ApplyMoves DEF ApplyStep, Continues, Idle
  <2> QED
    BY <1>1, <2>3, <2>4, AloneGoes
<1>11. CASE /\ calls' = [calls EXCEPT ![c] = [next EXCEPT !.kept = @ \union {f}]]
            /\ active[f] # None
            /\ backups' = Bind(backups, r.key, [earlier EXCEPT ![f] = active[f]])
  <2>1. s = [next EXCEPT !.kept = @ \union {f}]
    BY <1>11, CallSet
  <2>2. earlier = [g \in Files |-> earlier[g]]
    BY DEF Shapes, NoFiles
  <2>3. /\ r.key \in DOMAIN backups'
        /\ backups'[r.key][f] = active[f]
        /\ \A g \in Files : g # f => backups'[r.key][g] = earlier[g]
    BY <1>3, <1>11, <2>2 DEF Bind
  <2>4. /\ s.pc = next.pc /\ s.files = next.files /\ s.before = r.before /\ s.key = r.key
        /\ s.kept = r.kept \union {f}
    BY <1>5, <1>6, <2>1
  <2>5. ASSUME Progress(c)
        PROVE  Copies(calls[c])'
    <3>1. SUFFICES ASSUME NEW g \in s.kept
                   PROVE  backups'[r.key][g] = r.before[g]
      BY <2>3, <2>4 DEF Copies
    <3>2. CASE g = f
      BY <1>8, <2>3, <2>5, <3>2
    <3>3. CASE g # f
      <4>1. g \in r.kept /\ g \in Files
        BY <1>8, <2>4, <2>5, <3>3 DEF Found
      <4>2. r.key \in DOMAIN backups /\ backups[r.key][g] = r.before[g]
        BY <1>8, <2>5, <4>1 DEF Copies
      <4> QED
        BY <2>3, <3>3, <4>1, <4>2
    <3> QED
      BY <3>2, <3>3
  <2>6. Progress(c) => Progress(c)'
    BY <1>9, <1>11, <2>4, <2>5
  <2>7. ApplyCall(s)
    <3>1. s.pc # "idle"
      BY <1>3, <1>5, <2>4
    <3> QED
      BY <3>1, ApplyMoves DEF ApplyStep, Continues, Idle
  <2> QED
    BY <1>1, <2>6, <2>7, AloneGoes
<1> QED
  BY <1>4, <1>7, <1>10, <1>11

LEMMA AlonePrepare ==
  ASSUME Shapes, Links, Alone, NEW c \in Clients, ApplyPrepare(c)
  PROVE  Alone' /\ AppliesWhole'
<1> DEFINE r == calls[c]
           s == calls'[c]
           found == {f \in Files : active[f] # None}
<1>1. /\ ApplyCall(r) /\ r.pc = "prepare" /\ appliesRaced' = appliesRaced
      /\ \A d \in Clients \ {c} : calls'[d] = calls[d]
  BY ApplyMoves DEF ApplyStep, ApplyPrepare, At
<1>2. active' = active /\ backups' = backups
  BY DEF ApplyPrepare
<1>3. \/ calls' = [calls EXCEPT ![c] = [r EXCEPT !.pc = "commit", !.files = 1,
                                                 !.existed = found]]
      \/ calls' = [calls EXCEPT ![c] = Idle] /\ End(c, "unchanged")
  BY DEF ApplyPrepare, Goto, Return
<1>4. Progress(c) => active = r.before /\ Copies(r) /\ r.kept = Found(r)
  BY <1>1 DEF Progress, BackingUp
<1>5. CASE calls' = [calls EXCEPT ![c] = [r EXCEPT !.pc = "commit", !.files = 1,
                                                   !.existed = found]]
  <2>1. s = [r EXCEPT !.pc = "commit", !.files = 1, !.existed = found]
    BY <1>5, CallSet
  <2>2. /\ s.pc = "commit" /\ s.files = 1 /\ s.existed = found
        /\ s.kept = r.kept /\ s.before = r.before /\ s.key = r.key
    BY <1>1, <2>1 DEF ApplyCall, ApplyFields
  <2>3. ApplyCall(s)
    BY <2>2, ApplyMoves DEF ApplyStep, Continues, Idle
  <2>4. ASSUME Progress(c)
        PROVE  Progress(c)'
    <3>1. found = Found(r) /\ Found(s) = Found(r)
      BY <1>4, <2>2, <2>4 DEF Found
    <3>2. Copies(calls[c])'
      BY <1>2, <1>4, <2>2, <2>4 DEF Copies
    <3>3. Committing(calls[c])'
      BY <1>2, <1>4, <2>2, <2>4, <3>1 DEF Committing
    <3> QED
      BY <2>2, <3>2, <3>3 DEF Progress
  <2> QED
    BY <1>1, <2>3, <2>4, AloneGoes
<1>6. CASE calls' = [calls EXCEPT ![c] = Idle] /\ End(c, "unchanged")
  <2>1. Progress(c) => LeftWhole'
    BY <1>2, <1>4, <1>6, Untouched
  <2> QED
    BY <1>1, <1>6, <2>1, CallSet, AloneEnds
<1> QED
  BY <1>3, <1>5, <1>6

LEMMA AloneCommit ==
  ASSUME Shapes, Links, Alone, NEW c \in Clients, ApplyCommit(c)
  PROVE  Alone' /\ AppliesWhole'
<1> DEFINE r == calls[c]
           s == calls'[c]
           i == calls[c].files
           f == Targets[i]
           changed == [active EXCEPT ![f] = r.want[f]]
<1>1. /\ ApplyCall(r) /\ r.pc = "commit" /\ appliesRaced' = appliesRaced
      /\ \A d \in Clients \ {c} : calls'[d] = calls[d]
  BY ApplyMoves DEF ApplyStep, ApplyCommit, At
<1>2. i \in 1..3 /\ f \in Files /\ Len(Targets) = 3
  BY <1>1, FileSet DEF Links
<1>3. /\ backups' = backups
      /\ \/ i # 3 /\ active' = changed /\ calls' = [calls EXCEPT ![c] = Counted(r, i + 1)]
         \/ i = 3 /\ active' = changed /\ calls' = [calls EXCEPT ![c] = Idle] /\ End(c, "applied")
         \/ active' = changed /\ calls' = [calls EXCEPT ![c] = TurnedBack(r, i)]
         \/ active' = active /\ calls' = [calls EXCEPT ![c] = TurnedBack(r, i - 1)]
  BY <1>2 DEF ApplyCommit, Goto, Return, Counted, TurnedBack
<1>4. /\ \A j \in 1..3 : j # i => changed[Targets[j]] = active[Targets[j]]
      /\ changed[f] = r.want[f] /\ changed = [g \in Files |-> changed[g]]
  BY <1>2, FileSet DEF Shapes
<1> HIDE DEF changed
<1>5. Progress(c) => Copies(r) /\ Committing(r)
  BY <1>1 DEF Progress
<1>6. ASSUME Progress(c)
      PROVE  /\ r.kept = Found(r) /\ r.existed = r.kept
             /\ \A j \in 1..3 : active[Targets[j]] = IF j < i THEN r.want[Targets[j]]
                                                     ELSE r.before[Targets[j]]
             /\ \A j \in 1..3 : changed[Targets[j]] = IF j < i + 1 THEN r.want[Targets[j]]
                                                      ELSE r.before[Targets[j]]
  <2>1. /\ r.kept = Found(r) /\ r.existed = r.kept
        /\ \A j \in 1..3 : active[Targets[j]] = IF j < i THEN r.want[Targets[j]]
                                                ELSE r.before[Targets[j]]
    BY <1>5, <1>6 DEF Committing
  <2>2. ASSUME NEW j \in 1..3
        PROVE  changed[Targets[j]] = IF j < i + 1 THEN r.want[Targets[j]]
                                     ELSE r.before[Targets[j]]
    <3>1. CASE j = i
      BY <1>2, <1>4, <3>1
    <3>2. CASE j # i
      BY <1>2, <1>4, <2>1, <3>2
    <3> QED
      BY <3>1, <3>2
  <2> QED
    BY <2>1, <2>2
<1>7. ASSUME SameBut(r, s), Progress(c)
      PROVE  Copies(calls[c])' /\ Found(s) = Found(r)
  BY <1>3, <1>5, <1>7 DEF SameBut, Copies, Found
<1>8. ASSUME i # 3, active' = changed, calls' = [calls EXCEPT ![c] = Counted(r, i + 1)]
      PROVE  Alone' /\ AppliesWhole'
  <2>1. s = Counted(r, i + 1)
    BY <1>8, CallSet
  <2>2. s.files = i + 1 /\ s.pc = "commit" /\ SameBut(r, s)
    BY <1>1, <2>1, Counting
  <2>3. ApplyCall(s)
    BY <2>2, ApplyMoves DEF ApplyStep, Continues, Idle
  <2>4. ASSUME Progress(c)
        PROVE  Progress(c)'
    <3>1. Committing(calls[c])'
      BY <1>6, <1>7, <1>8, <2>2, <2>4 DEF Committing, SameBut
    <3> QED
      BY <1>7, <2>2, <2>4, <3>1 DEF Progress
  <2> QED
    BY <1>1, <2>3, <2>4, AloneGoes
<1>9. ASSUME i = 3, active' = changed, calls' = [calls EXCEPT ![c] = Idle], End(c, "applied")
      PROVE  Alone' /\ AppliesWhole'
  <2>1. ASSUME Progress(c)
        PROVE  active' = r.want
    <3>1. \A g \in Files : changed[g] = r.want[g]
      BY <1>6, <1>9, <2>1, FileSet
    <3>2. r.want = [g \in Files |-> r.want[g]]
      BY <1>1 DEF ApplyCall
    <3> QED
      BY <1>4, <1>9, <3>1, <3>2
  <2>2. Progress(c) => LeftWhole'
    BY <1>9, <2>1 DEF LeftWhole, End
  <2> QED
    BY <1>1, <1>9, <2>2, CallSet, AloneEnds
<1>10. ASSUME NEW n \in {i, i - 1}, active' = IF n = i THEN changed ELSE active,
              calls' = [calls EXCEPT ![c] = TurnedBack(r, n)]
       PROVE  Alone' /\ AppliesWhole'
  <2>1. s = TurnedBack(r, n)
    BY <1>10, CallSet
  <2>2. s.files = n /\ s.pc = "rollback" /\ SameBut(r, s)
    BY <1>1, <2>1, TurningBack
  <2>3. ApplyCall(s)
    BY <2>2, ApplyMoves DEF ApplyStep, Continues, Idle
  <2>4. ASSUME Progress(c)
        PROVE  Progress(c)'
    <3>1. \A j \in 1..3 : active'[Targets[j]] = IF j <= n THEN r.want[Targets[j]]
                                                ELSE r.before[Targets[j]]
      <4>1. CASE n = i
        BY <1>2, <1>6, <1>10, <2>4, <4>1
      <4>2. CASE n = i - 1
        BY <1>2, <1>6, <1>10, <2>4, <4>2
      <4> QED
        BY <4>1, <4>2
    <3>2. RollingBack(calls[c])'
      BY <1>6, <1>7, <2>2, <2>4, <3>1 DEF RollingBack, SameBut
    <3> QED
      BY <1>7, <2>2, <2>4, <3>2 DEF Progress
  <2> QED
    BY <1>1, <2>3, <2>4, AloneGoes
<1> QED
  BY <1>2, <1>3, <1>8, <1>9, <1>10

LEMMA AloneRollback ==
  ASSUME Shapes, Links, Alone, NEW c \in Clients, ApplyRollback(c)
  PROVE  Alone' /\ AppliesWhole'
<1> DEFINE r == calls[c]
           s == calls'[c]
           i == calls[c].files
           f == Targets[i]
<1>1. /\ ApplyCall(r) /\ r.pc = "rollback" /\ appliesRaced' = appliesRaced
      /\ \A d \in Clients \ {c} : calls'[d] = calls[d]
  BY ApplyMoves DEF ApplyStep, ApplyRollback, At
<1>2. i \in 1..3 /\ f \in Files /\ backups' = backups
  BY <1>1, FileSet DEF Links, ApplyRollback
<1>3. ASSUME Progress(c)
      PROVE  /\ Copies(r) /\ r.kept = Found(r) /\ r.existed = r.kept
             /\ \A j \in 1..3 :
                   \/ active[Targets[j]] = IF j <= i THEN r.want[Targets[j]]
                                           ELSE r.before[Targets[j]]
                   \/ j > i /\ ~r.clean /\ active[Targets[j]] \in {r.want[Targets[j]], Torn}
  BY <1>1, <1>3 DEF Progress, RollingBack
\* One file, and the call that goes on without or with an error.
<1>4. \/ /\ calls' = [calls EXCEPT ![c] = Counted(r, i - 1)]
         /\ \/ /\ f \in r.existed \intersect r.kept
               /\ active' = [active EXCEPT ![f] = backups[r.key][f]]
            \/ f \notin r.existed /\ active' = [active EXCEPT ![f] = None]
      \/ /\ calls' = [calls EXCEPT ![c] = Erred(r, i - 1)]
         /\ \/ active' = active \/ active' = [active EXCEPT ![f] = Torn]
            \/ /\ f \in r.existed \intersect r.kept
               /\ active' = [active EXCEPT ![f] = backups[r.key][f]]
            \/ f \notin r.existed /\ active' = [active EXCEPT ![f] = None]
  <2>1. CASE f \in r.existed \intersect r.kept
    BY <2>1 DEF ApplyRollback, Goto, Counted, Erred
  <2>2. CASE f \in r.existed \ r.kept
    BY <2>2 DEF ApplyRollback, Goto, Counted, Erred
  <2>3. CASE f \notin r.existed
    BY <2>3 DEF ApplyRollback, Goto, Counted, Erred
  <2> QED
    BY <2>1, <2>2, <2>3
<1>5. \A x : [active EXCEPT ![f] = x][f] = x
  BY <1>2, FileSet DEF Shapes
<1>6. ASSUME SameBut(r, s), s.pc = "rollback", s.files = i - 1, Progress(c),
             \A j \in 1..3 :
                \/ active'[Targets[j]] = IF j <= i - 1 THEN r.want[Targets[j]]
                                         ELSE r.before[Targets[j]]
                \/ j > i - 1 /\ ~s.clean /\ active'[Targets[j]] \in {r.want[Targets[j]], Torn}
      PROVE  Progress(c)'
  <2>1. Copies(calls[c])' /\ Found(s) = Found(r)
    BY <1>2, <1>3, <1>6 DEF SameBut, Copies, Found
  <2>2. RollingBack(calls[c])'
    BY <1>3, <1>6, <2>1 DEF RollingBack, SameBut
  <2> QED
    BY <1>6, <2>1, <2>2 DEF Progress
<1>7. ASSUME calls' = [calls EXCEPT ![c] = Counted(r, i - 1)],
             \/ /\ f \in r.existed \intersect r.kept
                /\ active' = [active EXCEPT ![f] = backups[r.key][f]]
             \/ f \notin r.existed /\ active' = [active EXCEPT ![f] = None]
      PROVE  Alone' /\ AppliesWhole'
  <2>1. s = Counted(r, i - 1)
    BY <1>7, CallSet
  <2>2. s.files = i - 1 /\ s.pc = "rollback" /\ s.clean = r.clean /\ SameBut(r, s)
    BY <1>1, <2>1, Counting
  <2>3. ApplyCall(s)
    BY <2>2, ApplyMoves DEF ApplyStep, Continues, Idle
  <2>4. ASSUME Progress(c)
        PROVE  Progress(c)'
    <3>1. active'[f] = r.before[f]
      <4>1. CASE f \in r.kept /\ active' = [active EXCEPT ![f] = backups[r.key][f]]
        BY <1>3, <1>5, <2>4, <4>1 DEF Copies
      <4>2. CASE f \notin r.existed /\ active' = [active EXCEPT ![f] = None]
        BY <1>2, <1>3, <1>5, <2>4, <4>2 DEF Found
      <4> QED
        BY <1>7, <4>1, <4>2
    <3>2. \A j \in 1..3 : j # i => active'[Targets[j]] = active[Targets[j]]
      BY <1>2, <1>7, FileSet DEF Shapes
    <3>3. ASSUME NEW j \in 1..3
          PROVE  \/ active'[Targets[j]] = IF j <= i - 1 THEN r.want[Targets[j]]
                                          ELSE r.before[Targets[j]]
                 \/ j > i - 1 /\ ~s.clean /\ active'[Targets[j]] \in {r.want[Targets[j]], Torn}
      <4>1. CASE j = i
        BY <1>2, <3>1, <4>1
      <4>2. CASE j # i
        BY <1>2, <1>3, <2>2, <2>4, <3>2, <4>2
      <4> QED
        BY <4>1, <4>2
    <3> QED
      BY <1>6, <2>2, <2>4, <3>3
  <2> QED
    BY <1>1, <2>3, <2>4, AloneGoes
<1>8. ASSUME calls' = [calls EXCEPT ![c] = Erred(r, i - 1)],
             \/ active' = active \/ active' = [active EXCEPT ![f] = Torn]
             \/ /\ f \in r.existed \intersect r.kept
                /\ active' = [active EXCEPT ![f] = backups[r.key][f]]
             \/ f \notin r.existed /\ active' = [active EXCEPT ![f] = None]
      PROVE  Alone' /\ AppliesWhole'
  <2>1. s = Erred(r, i - 1)
    BY <1>8, CallSet
  <2>2. s.files = i - 1 /\ s.pc = "rollback" /\ ~s.clean /\ SameBut(r, s)
    BY <1>1, <2>1, Erring
  <2>3. ApplyCall(s)
    BY <2>2, ApplyMoves DEF ApplyStep, Continues, Idle
  <2>4. ASSUME Progress(c)
        PROVE  Progress(c)'
    <3>1. active'[f] \in {active[f], Torn, r.before[f]}
      <4>1. CASE f \in r.kept /\ active' = [active EXCEPT ![f] = backups[r.key][f]]
        BY <1>3, <1>5, <2>4, <4>1 DEF Copies
      <4>2. CASE f \notin r.existed /\ active' = [active EXCEPT ![f] = None]
        BY <1>2, <1>3, <1>5, <2>4, <4>2 DEF Found
      <4>3. CASE active' = active \/ active' = [active EXCEPT ![f] = Torn]
        BY <1>5, <4>3
      <4> QED
        BY <1>8, <4>1, <4>2, <4>3
    <3>2. \A j \in 1..3 : j # i => active'[Targets[j]] = active[Targets[j]]
      BY <1>2, <1>8, FileSet DEF Shapes
    <3>3. ASSUME NEW j \in 1..3
          PROVE  \/ active'[Targets[j]] = IF j <= i - 1 THEN r.want[Targets[j]]
                                          ELSE r.before[Targets[j]]
                 \/ j > i - 1 /\ ~s.clean /\ active'[Targets[j]] \in {r.want[Targets[j]], Torn}
      <4>1. CASE j = i
        BY <1>2, <1>3, <2>2, <2>4, <3>1, <4>1
      <4>2. CASE j # i
        BY <1>2, <1>3, <2>2, <2>4, <3>2, <4>2
      <4> QED
        BY <4>1, <4>2
    <3> QED
      BY <1>6, <2>2, <2>4, <3>3
  <2> QED
    BY <1>1, <2>3, <2>4, AloneGoes
<1> QED
  BY <1>4, <1>7, <1>8

\* What the files are while one is rolled back to.
LEMMA Restorable ==
  ASSUME Shapes, Links, NEW c \in Clients, ApplyCall(calls[c]), Progress(c)
  PROVE  \A f \in Files : \/ active[f] = calls[c].before[f]
                          \/ /\ active[f] \in {calls[c].want[f], Torn}
                             /\ \/ calls[c].before[f] = None
                                \/ backups[calls[c].key][f] = calls[c].before[f]
<1> DEFINE r == calls[c]
<1>1. r.pc \in {"render", "backup", "prepare", "commit", "rollback"} /\ r.files \in 0..3
  BY DEF ApplyCall, Links
<1>2. CASE r.pc \in {"render", "backup", "prepare"}
  BY <1>2 DEF Progress, BackingUp
<1>3. CASE r.pc \in {"commit", "rollback"}
  <2>1. Copies(r) /\ r.kept = Found(r)
    BY <1>3 DEF Progress, Committing, RollingBack
  <2>2. \A j \in 1..3 : \/ active[Targets[j]] = r.before[Targets[j]]
                        \/ active[Targets[j]] \in {r.want[Targets[j]], Torn}
    BY <1>1, <1>3 DEF Progress, Committing, RollingBack
  <2> QED
    BY <2>1, <2>2, FileSet DEF Copies, Found
<1> QED
  BY <1>1, <1>2, <1>3

LEMMA AloneRolledBack ==
  ASSUME Shapes, Links, Alone, NEW c \in Clients, ApplyRolledBack(c)
  PROVE  Alone' /\ AppliesWhole'
<1> DEFINE r == calls[c]
<1>1. /\ ApplyCall(r) /\ r.pc = "rollback" /\ appliesRaced' = appliesRaced
      /\ \A d \in Clients \ {c} : calls'[d] = calls[d]
  BY ApplyMoves DEF ApplyStep, ApplyRolledBack, At
<1>2. /\ r.files = 0 /\ active' = active /\ backups' = backups
      /\ calls' = [calls EXCEPT ![c] = Idle]
      /\ End(c, IF r.clean THEN "rolled back" ELSE "failed")
  BY DEF ApplyRolledBack, Goto, Return
<1>3. ASSUME Progress(c)
      PROVE  LeftWhole'
  <2>1. CASE r.clean
    <3>1. \A j \in 1..3 : active[Targets[j]] = r.before[Targets[j]]
      <4>1. RollingBack(r)
        BY <1>1, <1>3 DEF Progress
      <4>2. \A j \in 1..3 : j > 0 /\ ~(j <= 0)
        OBVIOUS
      <4> QED
        BY <1>2, <2>1, <4>1, <4>2 DEF RollingBack
    <3>2. \A f \in Files : active[f] = r.before[f]
      BY <3>1, FileSet
    <3>3. active = [f \in Files |-> active[f]] /\ r.before = [f \in Files |-> r.before[f]]
      BY <1>1 DEF Shapes, ApplyCall
    <3>4. active' = r.before
      BY <1>2, <3>2, <3>3
    <3> QED
      BY <1>2, <2>1, <3>4 DEF LeftWhole, End
  <2>2. CASE ~r.clean
    BY <1>1, <1>2, <1>3, <2>2, Restorable, Died
  <2> QED
    BY <2>1, <2>2
<1> QED
  BY <1>1, <1>2, <1>3, CallSet, AloneEnds

LEMMA AloneCrash ==
  ASSUME Shapes, Links, Alone, AppliesWhole, NEW c \in Clients, Crash(c)
  PROVE  Alone' /\ AppliesWhole'
<1>1. Applying' = {} /\ appliesRaced' = appliesRaced /\ backups' = backups
  BY CrashMoves
<1>2. Alone'
  BY <1>1 DEF Alone
<1>3. active' # active =>
        /\ c \in Applying /\ calls[c].pc = "rollback" /\ calls[c].files > 0
        /\ Targets[calls[c].files] \in calls[c].existed \intersect calls[c].kept
        /\ active' = [active EXCEPT ![Targets[calls[c].files]] = Torn]
  BY KindOf DEF Crash, At
<1>4. CASE Applying = {}
  <2>1. active' = active /\ result' = result
    BY <1>3, <1>4 DEF Crash
  <2>2. ~appliesRaced /\ result # None => LeftWhole
    BY <1>4 DEF AppliesWhole
  <2> QED
    BY <1>1, <1>2, <2>1, <2>2 DEF AppliesWhole, LeftWhole
<1>5. CASE Applying # {} /\ ~appliesRaced
  <2>1. PICK d \in Applying : End(d, "failed")
    BY <1>5 DEF Crash
  <2>2. d \in Clients /\ ApplyCall(calls[d]) /\ Progress(d) /\ (c \in Applying => c = d)
    BY <1>5, <2>1, KindOf DEF Alone, Applying
  <2> DEFINE Goal(f) == \/ active'[f] = calls[d].before[f]
                        \/ /\ active'[f] \in {calls[d].want[f], Torn}
                           /\ \/ calls[d].before[f] = None
                              \/ backups'[calls[d].key][f] = calls[d].before[f]
  <2>3. CASE active' = active
    <3>1. \A f \in Files : Goal(f)
      BY <1>1, <2>2, <2>3, Restorable
    <3>2. LeftWhole'
      BY <2>1, <2>2, <3>1, Died
    <3> QED
      BY <1>2, <3>2 DEF AppliesWhole
  <2>4. CASE active' # active
    <3>1. c = d /\ calls[d].pc = "rollback"
      BY <1>3, <2>2, <2>4
    <3>2. Copies(calls[d])
      BY <2>2, <3>1 DEF Progress
    <3>3. ASSUME NEW f \in Files
          PROVE  Goal(f)
      <4>1. CASE f = Targets[calls[d].files]
        <5>1. f \in calls[d].kept /\ active'[f] = Torn
          BY <1>3, <2>4, <3>1, <4>1 DEF Shapes
        <5> QED
          BY <1>1, <3>2, <5>1 DEF Copies
      <4>2. CASE f # Targets[calls[d].files]
        <5>1. active'[f] = active[f]
          BY <1>3, <2>4, <3>1, <4>2 DEF Shapes
        <5> QED
          BY <1>1, <2>2, <5>1, Restorable
      <4> QED
        BY <4>1, <4>2
    <3>4. LeftWhole'
      BY <2>1, <2>2, <3>3, Died
    <3> QED
      BY <1>2, <3>4 DEF AppliesWhole
  <2> QED
    BY <2>3, <2>4
<1>6. CASE appliesRaced
  BY <1>1, <1>2, <1>6 DEF AppliesWhole
<1> QED
  BY <1>4, <1>5, <1>6

LEMMA Distinct ==
  /\ ~ApplyCall(Idle) /\ ~RenderCall(Idle)
  /\ \A r : ~(RenderCall(r) /\ ApplyCall(r))
BY DEF ApplyCall, RenderCall, Idle

LEMMA AloneStep ==
  ASSUME Shapes, Links, Shapes', Alone, AppliesWhole, [Next]_vars
  PROVE  Alone' /\ AppliesWhole'
<1>1. ASSUME NEW c \in Clients, RenderResolve(c)
      PROVE  Alone' /\ AppliesWhole'
  <2>1. ~ApplyCall(calls[c]) /\ ~ApplyCall(calls'[c])
    BY <1>1, RenderResolveMoves, Distinct
  <2>2. UNCHANGED <<active, backups, result>>
    BY <1>1 DEF RenderResolve
  <2> QED
    BY <1>1, <2>1, <2>2, RenderResolveMoves, AloneFrame
<1>2. ASSUME NEW c \in Clients, RenderStep(c)
      PROVE  Alone' /\ AppliesWhole'
  <2>1. ~ApplyCall(calls[c]) /\ ~ApplyCall(calls'[c])
    BY <1>2, RenderMoves, Distinct
  <2> QED
    BY <1>2, <2>1, RenderMoves, AloneFrame
<1>3. ASSUME NEW c \in Clients, ApplyStep(c)
      PROVE  Alone' /\ AppliesWhole'
  BY <1>3, AloneRender, AloneBackup, AlonePrepare, AloneCommit, AloneRollback, AloneRolledBack
     DEF ApplyStep
<1>4. ASSUME Around
      PROVE  Alone' /\ AppliesWhole'
  BY <1>4, AroundMoves, AloneFrame DEF callVars
<1> QED
  BY <1>1, <1>2, <1>3, <1>4, AloneLoad, AloneCrash, NextCases

-----------------------------------------------------------------------------
(* Reviews: which config an id stands for.                                 *)

\* What an apply of a plan that still has its config means to write.
Wants(c) ==
    plans[calls[c].plan].config # None =>
        \A config \in reviewed[calls[c].plan] : IsOf(calls[c].want.intent, config)

\* A step that leaves the plans alone, but for one that is lost.
LEMMA ReviewsFrame ==
  ASSUME Shapes, Links, Shapes', Reviews,
         UNCHANGED <<reviewed, rendersRaced>>, DOMAIN plans' = DOMAIN plans,
         \A id \in DOMAIN plans :
            \/ plans'[id] = plans[id]
            \/ id \in DOMAIN reviewed /\ plans'[id].config = None,
         \A d \in Clients :
            \/ calls'[d] = calls[d]
            \/ calls'[d] = Idle
            \/ /\ RenderCall(calls[d]) /\ RenderCall(calls'[d])
               /\ calls[d].pc = "output" /\ calls'[d].pc = "summary"
               /\ calls'[d].plan = calls[d].plan /\ calls'[d].config = calls[d].config
            \/ ApplyCall(calls[d]) /\ Continues(calls[d], calls'[d])
  PROVE  Reviews'
<1> SUFFICES ASSUME ~rendersRaced
             PROVE  Reviews'
  BY DEF Reviews
<1>1. \A d \in Clients : d \in Rendering' => d \in Rendering
  <2> TAKE d \in Clients
  <2>1. d \in Rendering' => RenderCall(calls'[d])
    <3>1. calls'[d] = Idle \/ RenderCall(calls'[d]) \/ ApplyCall(calls'[d])
      BY DEF Shapes
    <3>2. d \in Rendering' => calls'[d].pc # "idle" /\ calls'[d].kind = "render"
      BY DEF Rendering
    <3> QED
      BY <3>1, <3>2 DEF ApplyCall, Idle
  <2>2. RenderCall(calls'[d]) => RenderCall(calls[d])
    BY Distinct DEF Continues
  <2> QED
    BY <2>1, <2>2, KindOf
<1>2. \A d \in Clients : d \in Applying' => d \in Applying
  <2> TAKE d \in Clients
  <2>1. d \in Applying' => ApplyCall(calls'[d])
    BY DEF Shapes, Applying, RenderCall, ApplyCall, Idle
  <2>2. ApplyCall(calls'[d]) => ApplyCall(calls[d])
    BY Distinct
  <2> QED
    BY <2>1, <2>2, KindOf
<1>3. \A c, d \in Rendering' : c = d
  BY <1>1 DEF Reviews, Rendering
<1>4. ASSUME NEW d \in Rendering'
      PROVE  RenderProgress(d)'
  <2>1. d \in Clients /\ d \in Rendering /\ RenderCall(calls[d]) /\ RenderProgress(d)
    BY <1>1, <1>4, KindOf DEF Reviews, Rendering
  <2>2. calls'[d] # Idle /\ ~ApplyCall(calls[d])
    BY <1>4, <2>1, Distinct DEF Rendering, Idle
  <2>3. CASE calls'[d] = calls[d]
    BY <2>1, <2>3 DEF RenderProgress
  <2>4. CASE /\ calls[d].pc = "output" /\ calls'[d].pc = "summary"
             /\ calls'[d].plan = calls[d].plan /\ calls'[d].config = calls[d].config
    BY <2>1, <2>4 DEF RenderProgress
  <2> QED
    BY <2>1, <2>2, <2>3, <2>4
<1>5. ASSUME NEW id \in DOMAIN reviewed
      PROVE  Answered(id)'
  <2>1. Answered(id) /\ id \in DOMAIN plans
    BY DEF Reviews, Links
  <2> QED
    BY <2>1 DEF Answered
<1>6. ASSUME NEW d \in Applying'
      PROVE  Wants(d)'
  <2>1. d \in Clients /\ d \in Applying /\ ApplyCall(calls[d]) /\ Wants(d)
    BY <1>2, <1>6, KindOf DEF Reviews, Applying, Wants
  <2>2. calls'[d].plan = calls[d].plan /\ calls'[d].want.intent = calls[d].want.intent
    <3>1. calls'[d] # Idle /\ ~RenderCall(calls[d])
      BY <1>6, <2>1, Distinct DEF Applying, Idle
    <3> QED
      BY <2>1, <3>1 DEF Continues
  <2>3. calls[d].plan \in DOMAIN plans
    BY <2>1 DEF Links
  <2> QED
    BY <2>1, <2>2, <2>3 DEF Wants
<1> QED
  BY <1>3, <1>4, <1>5, <1>6 DEF Reviews, Wants

\* A render goes on or starts, and the plans that are answered stay.
LEMMA ReviewsGrow ==
  ASSUME Shapes, Links, Shapes', Reviews, NEW c \in Clients,
         \A d \in Clients \ {c} : calls'[d] = calls[d],
         ~ApplyCall(calls'[c]),
         reviewed' = reviewed, \A id \in DOMAIN reviewed : plans'[id] = plans[id],
         rendersRaced' = rendersRaced \/ rendersRaced' = (rendersRaced \/ Rendering # {}),
         ~rendersRaced' => /\ c \in Rendering \/ Rendering = {}
                           /\ RenderProgress(c)'
  PROVE  Reviews'
<1> SUFFICES ASSUME ~rendersRaced'
             PROVE  Reviews'
  BY DEF Reviews
<1>0. ~rendersRaced
  BY DEF Shapes
<1>1. \A d \in Rendering' : d = c
  BY <1>0 DEF Reviews, Rendering
<1>2. \A d \in Rendering' : RenderProgress(d)'
  BY <1>1
<1>3. ASSUME NEW id \in DOMAIN reviewed
      PROVE  Answered(id)'
  <2>1. Answered(id)
    BY <1>0 DEF Reviews
  <2> QED
    BY <2>1 DEF Answered
<1>4. ASSUME NEW d \in Applying'
      PROVE  Wants(d)'
  <2>1. d # c /\ d \in Clients
    <3>1. d \in Clients /\ (d = c => ApplyCall(calls'[c]))
      BY <1>4 DEF Shapes, Applying, RenderCall, ApplyCall, Idle
    <3> QED
      BY <3>1
  <2>2. d \in Applying /\ calls'[d] = calls[d]
    BY <1>4, <2>1 DEF Applying
  <2>3. calls[d].plan \in DOMAIN reviewed
    BY <2>1, <2>2, KindOf DEF Links
  <2>4. Wants(d)
    BY <1>0, <2>2 DEF Reviews, Wants
  <2> QED
    BY <2>2, <2>3, <2>4 DEF Wants
<1> QED
  BY <1>1, <1>2, <1>3, <1>4 DEF Reviews, Wants

LEMMA ReviewsResolve ==
  ASSUME Shapes, Links, Shapes', Reviews, NEW c \in Clients, RenderResolve(c)
  PROVE  Reviews'
<1>1. /\ RenderCall(calls'[c]) /\ calls'[c].pc = "allocate"
      /\ \A d \in Clients \ {c} : calls'[d] = calls[d]
      /\ rendersRaced' = (rendersRaced \/ Rendering # {})
  BY RenderResolveMoves
<1>2. ~ApplyCall(calls'[c])
  BY <1>1, Distinct
<1>3. RenderProgress(c)'
  BY <1>1 DEF RenderProgress
<1>4. ~rendersRaced' => Rendering = {}
  BY <1>1 DEF Shapes
<1>5. plans' = plans /\ reviewed' = reviewed
  BY DEF RenderResolve
<1> QED
  BY <1>1, <1>2, <1>3, <1>4, <1>5, ReviewsGrow

\* The id is one that no directory has.
LEMMA ReviewsAllocate ==
  ASSUME Shapes, Links, Shapes', Reviews, NEW c \in Clients, RenderAllocate(c)
  PROVE  Reviews'
<1>1. /\ At(c, "allocate") /\ RenderCall(calls[c]) /\ calls'[c].pc = "config"
      /\ calls'[c].plan = AllocatePlanID(calls[c].name, calls[c].now)
      /\ \A d \in Clients \ {c} : calls'[d] = calls[d]
      /\ rendersRaced' = rendersRaced
  BY RenderMoves DEF RenderStep, RenderAllocate
<1>2. plans' = plans /\ reviewed' = reviewed
  BY DEF RenderAllocate
<1>3. RenderProgress(c)'
  BY <1>1, <1>2, Free DEF RenderProgress, Shapes
<1>4. c \in Rendering
  BY <1>1, KindOf
<1>5. ~ApplyCall(calls'[c])
  BY <1>1 DEF ApplyCall
<1> QED
  BY <1>1, <1>2, <1>3, <1>4, <1>5, ReviewsGrow

LEMMA ReviewsWriteConfig ==
  ASSUME Shapes, Links, Shapes', Reviews, NEW c \in Clients, RenderWriteConfig(c)
  PROVE  Reviews'
<1> DEFINE id == calls[c].plan
           dir == IF id \in DOMAIN plans THEN plans[id] ELSE [config |-> None, summary |-> None]
           new == [dir EXCEPT !.config = calls[c].config]
<1>1. /\ At(c, "config") /\ RenderCall(calls[c]) /\ calls'[c].pc = "output"
      /\ RenderCall(calls'[c]) /\ calls'[c].config = calls[c].config
      /\ calls'[c].plan = calls[c].plan
      /\ \A d \in Clients \ {c} : calls'[d] = calls[d]
      /\ rendersRaced' = rendersRaced
  BY RenderMoves DEF RenderStep, RenderWriteConfig, Idle
<1>2. plans' = Bind(plans, id, new) /\ reviewed' = reviewed
  BY DEF RenderWriteConfig
<1>3. c \in Rendering /\ ~ApplyCall(calls'[c])
  BY <1>1, KindOf, Distinct
<1>4. ASSUME ~rendersRaced
      PROVE  /\ RenderProgress(c)'
             /\ \A x \in DOMAIN reviewed : plans'[x] = plans[x]
  <2>1. id \notin DOMAIN plans
    BY <1>1, <1>3, <1>4 DEF Reviews, RenderProgress, At
  <2>2. new.config = calls[c].config
    BY <2>1
  <2> HIDE DEF new
  <2>3. /\ DOMAIN plans' = DOMAIN plans \union {id} /\ plans'[id] = new
        /\ \A x \in DOMAIN plans : x # id => plans'[x] = plans[x]
    BY <1>2 DEF Bind
  <2>4. DOMAIN reviewed \subseteq DOMAIN plans
    BY DEF Links
  <2>5. RenderProgress(c)'
    BY <1>1, <1>2, <2>1, <2>2, <2>3, <2>4 DEF RenderProgress
  <2> QED
    BY <2>1, <2>3, <2>4, <2>5
<1>5. CASE rendersRaced
  BY <1>1, <1>5 DEF Reviews
<1>6. CASE ~rendersRaced
  BY <1>1, <1>2, <1>3, <1>4, <1>6, ReviewsGrow
<1> QED
  BY <1>5, <1>6 DEF Shapes

LEMMA ReviewsWriteSummary ==
  ASSUME Shapes, Links, Shapes', Reviews, NEW c \in Clients, RenderWriteSummary(c)
  PROVE  Reviews'
<1> DEFINE id == calls[c].plan
           r == calls[c]
<1>1. /\ At(c, "summary") /\ RenderCall(r) /\ calls'[c] = Idle
      /\ \A d \in Clients \ {c} : calls'[d] = calls[d]
      /\ rendersRaced' = rendersRaced
  BY RenderMoves DEF RenderStep, RenderWriteSummary
<1> SUFFICES ASSUME ~rendersRaced
             PROVE  Reviews'
  BY <1>1 DEF Reviews
<1>2. c \in Rendering
  BY <1>1, KindOf
<1>3. id \in DOMAIN plans \ DOMAIN reviewed /\ plans[id].config = r.config
  BY <1>1, <1>2 DEF Reviews, RenderProgress, At
<1>4. PICK summary : plans' = [plans EXCEPT ![id].summary = summary]
  BY DEF RenderWriteSummary
<1>5. reviewed' = Bind(reviewed, id, {r.config})
  BY <1>3 DEF RenderWriteSummary
<1>6. /\ DOMAIN reviewed' = DOMAIN reviewed \union {id} /\ reviewed'[id] = {r.config}
      /\ \A x \in DOMAIN reviewed : reviewed'[x] = reviewed[x]
  BY <1>3, <1>5 DEF Bind
<1>7. /\ plans'[id].config = r.config
      /\ \A x \in DOMAIN plans : x # id => plans'[x] = plans[x]
  <2>1. plans[id] = [config |-> plans[id].config, summary |-> plans[id].summary]
    BY <1>3 DEF Shapes
  <2>2. plans'[id] = [plans[id] EXCEPT !.summary = summary]
    BY <1>3, <1>4
  <2>3. plans'[id].config = plans[id].config
    BY <2>1, <2>2
  <2> QED
    BY <1>3, <1>4, <2>3
<1>8. Resolved(r.config)
  BY <1>1 DEF Links
<1>9. Rendering' = {}
  <2>1. c \notin Rendering'
    BY <1>1 DEF Rendering, Idle
  <2>2. \A d \in Rendering' : d \in Rendering /\ d # c
    BY <1>1, <2>1 DEF Rendering
  <2> QED
    BY <1>2, <2>2 DEF Reviews
<1>10. ASSUME NEW x \in DOMAIN reviewed'
       PROVE  Answered(x)'
  <2>1. CASE x = id
    BY <1>6, <1>7, <1>8, <2>1 DEF Answered
  <2>2. CASE x # id
    <3>1. x \in DOMAIN reviewed /\ Answered(x) /\ x \in DOMAIN plans
      BY <1>6, <2>2 DEF Reviews, Links
    <3>2. plans'[x] = plans[x] /\ reviewed'[x] = reviewed[x]
      BY <1>6, <1>7, <2>2, <3>1
    <3> QED
      BY <3>1, <3>2 DEF Answered
  <2> QED
    BY <2>1, <2>2
<1>11. ASSUME NEW d \in Applying'
       PROVE  Wants(d)'
  <2>1. d # c /\ d \in Clients /\ d \in Applying
    BY <1>1, <1>11 DEF Applying, Idle
  <2>2. calls'[d] = calls[d] /\ calls[d].plan \in DOMAIN reviewed
    BY <1>1, <2>1, KindOf DEF Links
  <2>3. Wants(d) /\ calls[d].plan \in DOMAIN plans /\ calls[d].plan # id
    BY <1>3, <2>1, <2>2 DEF Reviews, Wants, Links
  <2> QED
    BY <1>6, <1>7, <2>2, <2>3 DEF Wants
<1> QED
  BY <1>9, <1>10, <1>11 DEF Reviews, Wants

\* What an apply makes of a config that is still there.
LEMMA Preserved ==
  ASSUME NEW config, Resolved(config), NEW intent, NEW delivery \in Deliveries,
         Resolve(PreserveTemplate(config, intent), Nodes(delivery)).ok
  PROVE  IsOf(ResolvedConfig(PreserveTemplate(config, intent), Nodes(delivery)), config)
<1> DEFINE kept == PreserveTemplate(config, intent)
           nodes == Nodes(delivery)
           want == ResolvedConfig(kept, nodes)
<1>1. config = [x \in DOMAIN config |-> config[x]]
  BY DEF Resolved
<1>2. "fallback" \in DOMAIN config => config.fallback = Fallback(config)
  BY DEF Resolved
<1>3. kept = config \/ kept = [config EXCEPT !.template = intent.template]
  BY DEF PreserveTemplate
<1>4. Resolve(kept, nodes).ok
  OBVIOUS
<1>5. want = [kept EXCEPT !.fallback = Fallback(kept), !.selected = SelectedNodes(kept, nodes)]
  BY DEF ResolvedConfig
<1> HIDE DEF kept, nodes, want
<1>6. /\ DOMAIN kept = DOMAIN config /\ kept = [x \in DOMAIN config |-> kept[x]]
      /\ \A x \in DOMAIN config : x # "template" => kept[x] = config[x]
  BY <1>1, <1>3
<1>7. "fallback" \in DOMAIN config => Fallback(kept) = kept.fallback
  BY <1>2, <1>6 DEF Fallback
<1>8. want = [kept EXCEPT !.selected = SelectedNodes(kept, nodes)]
  BY <1>5, <1>6, <1>7
<1>9. kept = [config EXCEPT !.template = want.template]
  <2>1. DOMAIN want = DOMAIN config
    BY <1>6, <1>8
  <2>2. "template" \in DOMAIN config => want.template = kept.template
    BY <1>6, <1>8
  <2> QED
    BY <1>1, <1>6, <2>1, <2>2
<1> QED
  BY <1>4, <1>8, <1>9 DEF IsOf, want, nodes, kept

LEMMA ReviewsLoad ==
  ASSUME Shapes, Links, Bounds, Shapes', Reviews, NEW c \in Clients, ApplyLoad(c)
  PROVE  Reviews'
<1> DEFINE s == calls'[c]
           config == PreserveTemplate(LoadApplyConfig(plans[s.plan]), active.intent)
<1>1. /\ ApplyCall(s) /\ s.plan \in Summarized
      /\ Resolve(config, Nodes(artifacts)).ok
      /\ s.want.intent = ResolvedConfig(config, Nodes(artifacts))
      /\ \A d \in Clients \ {c} : calls'[d] = calls[d]
      /\ rendersRaced' = rendersRaced
      /\ calls[c] = Idle
  BY ApplyLoadMoves
<1>2. plans' = plans /\ reviewed' = reviewed
  BY DEF ApplyLoad
<1> SUFFICES ASSUME ~rendersRaced
             PROVE  Reviews'
  BY <1>1 DEF Reviews
<1>3. \A d \in Rendering' : d \in Rendering /\ d # c
  BY <1>1 DEF Rendering, ApplyCall
<1>4. \A d \in Rendering' : RenderProgress(d)'
  BY <1>1, <1>2, <1>3 DEF Reviews, RenderProgress, Rendering
<1>5. \A id \in DOMAIN reviewed' : Answered(id)'
  BY <1>2 DEF Reviews, Answered
<1>6. ASSUME plans[s.plan].config # None
      PROVE  \A x \in reviewed[s.plan] : IsOf(s.want.intent, x)
  <2>1. s.plan \in DOMAIN reviewed
    BY <1>1 DEF Links, Summarized
  <2>2. PICK x : reviewed[s.plan] = {x} /\ Resolved(x) /\ plans[s.plan].config = x
    BY <1>6, <2>1 DEF Reviews, Answered
  <2>3. config = PreserveTemplate(x, active.intent)
    BY <1>6, <2>2 DEF LoadApplyConfig
  <2> HIDE DEF config
  <2>4. IsOf(s.want.intent, x)
    BY <1>1, <2>2, <2>3, Preserved DEF config, Bounds
  <2> QED
    BY <2>2, <2>4
<1>7. ASSUME NEW d \in Applying'
      PROVE  Wants(d)'
  <2>1. CASE d = c
    BY <1>2, <1>6, <2>1 DEF Wants
  <2>2. CASE d # c
    <3>1. d \in Applying /\ calls'[d] = calls[d]
      BY <1>1, <1>7, <2>2 DEF Applying
    <3> QED
      BY <1>2, <3>1 DEF Reviews, Wants
  <2> QED
    BY <2>1, <2>2
<1> QED
  BY <1>3, <1>4, <1>5, <1>7 DEF Reviews, Wants, Rendering

LEMMA ReviewsStep ==
  ASSUME Shapes, Links, Bounds, Shapes', Reviews, [Next]_vars
  PROVE  Reviews'
<1>1. ASSUME NEW c \in Clients, RenderStep(c)
      PROVE  Reviews'
  <2>1. CASE RenderCandidate(c)
    <3>1. plans' = plans /\ reviewed' = reviewed /\ At(c, "output")
      BY <2>1 DEF RenderCandidate
    <3> QED
      BY <1>1, <3>1, RenderMoves, ReviewsFrame DEF At
  <2> QED
    BY <1>1, <2>1, ReviewsAllocate, ReviewsWriteConfig, ReviewsWriteSummary DEF RenderStep
<1>2. ASSUME NEW c \in Clients, ApplyStep(c)
      PROVE  Reviews'
  BY <1>2, ApplyMoves, ReviewsFrame
<1>3. ASSUME NEW c \in Clients, Crash(c)
      PROVE  Reviews'
  BY <1>3, CrashMoves, ReviewsFrame
<1>4. ASSUME Around
      PROVE  Reviews'
  <2>1. calls' = calls /\ reviewed' = reviewed /\ rendersRaced' = rendersRaced
    BY <1>4, AroundMoves DEF callVars
  <2>2. CASE LoseConfig
    <3>1. PICK id \in DOMAIN plans : /\ plans[id].summary # None
                                     /\ plans' = [plans EXCEPT ![id].config = None]
      BY <2>2 DEF LoseConfig
    <3>2. id \in DOMAIN reviewed
      BY <3>1 DEF Links
    <3>3. plans[id] = [config |-> plans[id].config, summary |-> plans[id].summary]
      BY DEF Shapes
    <3>4. plans'[id] = [plans[id] EXCEPT !.config = None]
      BY <3>1
    <3>5. plans'[id].config = None
      BY <3>3, <3>4
    <3>6. DOMAIN plans' = DOMAIN plans /\ \A x \in DOMAIN plans : x # id => plans'[x] = plans[x]
      BY <3>1
    <3> QED
      BY <2>1, <3>2, <3>5, <3>6, ReviewsFrame
  <2>3. CASE Deliver \/ Tick \/ UNCHANGED vars
    <3>1. plans' = plans
      BY <2>3 DEF Deliver, Tick, vars
    <3> QED
      BY <2>1, <3>1, ReviewsFrame
  <2> QED
    BY <1>4, <2>2, <2>3 DEF Around
<1> QED
  BY <1>1, <1>2, <1>3, <1>4, ReviewsResolve, ReviewsLoad, NextCases

-----------------------------------------------------------------------------

LEMMA NextInv == Inv /\ [Next]_vars => Inv'
<1> SUFFICES ASSUME Inv, [Next]_vars
             PROVE  Inv'
  OBVIOUS
<1>1. Shapes /\ Links /\ Bounds /\ Alone /\ AppliesWhole /\ Reviews
  BY DEF Inv
<1>2. Shapes' /\ Links' /\ Bounds'
  BY <1>1, ShapesStep, LinksStep, BoundsStep
<1>3. Alone' /\ AppliesWhole'
  BY <1>1, <1>2, AloneStep
<1>4. Reviews'
  BY <1>1, <1>2, ReviewsStep
<1> QED
  BY <1>2, <1>3, <1>4 DEF Inv

\* The directories of plans, what each apply has copied and replaced, and what
\* each answered plan was reviewed with, agree in every state.
THEOREM Invariance == Spec => []Inv
BY InitInv, NextInv, PTL DEF Spec

\* Every plan that was answered has a directory, every backup is of a plan,
\* and what an apply would restore is what it has copied.
THEOREM TypeInvariant == Spec => []TypeOK
<1>1. Inv => TypeOK
  <2> SUFFICES ASSUME Inv
               PROVE  TypeOK
    OBVIOUS
  <2>1. DOMAIN active = Files
    BY DEF Inv, Shapes
  <2>2. ASSUME NEW c \in Clients
        PROVE  /\ calls[c].pc \in Pcs
               /\ calls[c].pc \in {"commit", "rollback"} =>
                     \A f \in calls[c].kept : backups[calls[c].key][f] # None
    <3>1. calls[c].pc \in Pcs
      <4>1. calls[c] = Idle \/ RenderCall(calls[c]) \/ ApplyCall(calls[c])
        BY DEF Inv, Shapes
      <4>2. Idle.pc = "idle"
        BY DEF Idle
      <4> QED
        BY <4>1, <4>2 DEF RenderCall, ApplyCall, Pcs
    <3> QED
      BY <3>1, KindOf DEF Inv, Links
  <2> QED
    BY <2>1, <2>2 DEF Inv, Links, Bounds, TypeOK
<1> QED
  BY <1>1, Invariance, PTL

\* Applies that run one at a time replace the three files or none, whichever
\* writes fail and wherever the process dies.
THEOREM AllOrNothing == Spec => []AppliesWhole
<1>1. Inv => AppliesWhole
  BY DEF Inv
<1> QED
  BY <1>1, Invariance, PTL

\* Only the call itself, committing, can change a file and go on.
LEMMA CommitOnly ==
  ASSUME Inv, [Next]_vars, NEW c \in Clients, At(c, "commit"), active' # active,
         calls'[c] \notin {calls[c], Idle}
  PROVE  ApplyCommit(c)
<1>1. Shapes
  BY DEF Inv
<1>2. ASSUME NEW d \in Clients,
             RenderResolve(d) \/ RenderStep(d) \/ ApplyLoad(d)
      PROVE  FALSE
  BY <1>1, <1>2, RenderMoves DEF RenderResolve, ApplyLoad
<1>3. ~Around
  BY AroundMoves
<1>4. ASSUME NEW d \in Clients, Crash(d)
      PROVE  FALSE
  BY <1>4, CrashMoves
<1>5. ASSUME NEW d \in Clients, ApplyStep(d)
      PROVE  ApplyCommit(c)
  <2>1. d = c
    BY <1>1, <1>5, ApplyMoves
  <2> QED
    BY <1>5, <2>1 DEF ApplyStep, ApplyRender, ApplyBackup, ApplyPrepare, ApplyCommit,
                      ApplyRollback, ApplyRolledBack, At
<1> QED
  BY <1>2, <1>3, <1>4, <1>5, NextCases

\* The intent that an apply writes is the one that its plan was answered
\* with, but for the template and for the nodes of its groups, which are
\* those of the subscriptions, as long as the plan still has its config and
\* ids were looked for by one render at a time.
THEOREM ReviewedApplied == Spec => ReviewedIsApplied
<1> DEFINE Same(c) ==
             (/\ At(c, "commit") /\ calls[c].files = 1 /\ active' # active
              /\ calls'[c] \notin {calls[c], Idle} /\ ~rendersRaced
              /\ plans[calls[c].plan].config # None)
             => \E config \in reviewed[calls[c].plan], delivery \in Deliveries :
                   LET kept == [config EXCEPT !.template = active'.intent.template]
                   IN /\ reviewed[calls[c].plan] = {config}
                      /\ Resolve(kept, Nodes(delivery)).ok
                      /\ active'.intent =
                            [kept EXCEPT !.selected = SelectedNodes(kept, Nodes(delivery))]
<1>1. ASSUME Inv, [Next]_vars, NEW c \in Clients
      PROVE  Same(c)
  <2> SUFFICES ASSUME At(c, "commit"), calls[c].files = 1, active' # active,
                      calls'[c] \notin {calls[c], Idle}, ~rendersRaced,
                      plans[calls[c].plan].config # None
               PROVE  \E config \in reviewed[calls[c].plan], delivery \in Deliveries :
                         LET kept == [config EXCEPT !.template = active'.intent.template]
                         IN /\ reviewed[calls[c].plan] = {config}
                            /\ Resolve(kept, Nodes(delivery)).ok
                            /\ active'.intent =
                                  [kept EXCEPT !.selected = SelectedNodes(kept, Nodes(delivery))]
    OBVIOUS
  <2> DEFINE r == calls[c]
  <2>1. ApplyCommit(c)
    BY <1>1, CommitOnly
  <2>2. active' = [active EXCEPT !["intent"] = r.want["intent"]]
    BY <2>1, FileSet DEF ApplyCommit
  <2>3. active'.intent = r.want.intent
    BY <1>1, <2>2, FileSet DEF Inv, Shapes
  <2>4. ApplyCall(r) /\ c \in Applying
    BY <1>1, KindOf DEF Inv, At
  <2>5. r.plan \in DOMAIN reviewed
    BY <1>1, <2>4 DEF Inv, Links
  <2>6. PICK config : reviewed[r.plan] = {config}
    BY <1>1, <2>5 DEF Inv, Reviews, Answered
  <2>7. IsOf(r.want.intent, config)
    BY <1>1, <2>4, <2>6 DEF Inv, Reviews
  <2> QED
    BY <2>3, <2>6, <2>7 DEF IsOf
<1>2. Inv /\ [Next]_vars => [\A c \in Clients : Same(c)]_vars
  BY <1>1
<1> QED
  BY <1>2, Invariance, PTL DEF Spec, ReviewedIsApplied

=============================================================================
