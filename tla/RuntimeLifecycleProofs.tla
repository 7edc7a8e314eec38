----------------------- MODULE RuntimeLifecycleProofs -----------------------
(***************************************************************************)
(* What TLAPS proves of RuntimeLifecycle, for any callers, any kinds of    *)
(* calls and any bounds.                                                   *)
(***************************************************************************)
EXTENDS RuntimeLifecycle, FiniteSetTheorems, TLAPS

(* A call that is about to test has taken a hash.                          *)
HashTaken == \A c \in Callers : At(c, "exec") => call[c].sha \in Configs

Types == TypeOK /\ HashTaken

(* The fields of the assumption on the constants.                          *)
LEMMA Bounds ==
    ASSUME RuntimeAssumption
    PROVE  /\ MaxPids \in Nat /\ MaxCalls \in Nat /\ MaxEdits \in Nat
           /\ \A c \in Callers : Kinds[c] \subseteq AllKinds
           /\ \A f \in Forcing : f \in BOOLEAN
           /\ Valid \subseteq Configs
           /\ NoConfig \notin Configs
           /\ \A p \in Pids : p \notin Callers
  BY DEF RuntimeAssumption

(* Reset of a returned call, and the other ways a step changes a call.     *)
LEMMA ReturnType ==
    ASSUME RuntimeAssumption, TypeOK, NEW c \in Callers, NEW result \in Results,
           Return(c, result)
    PROVE  call' \in [Callers -> Call]
  <1>1. call[c] \in Call
    BY DEF TypeOK
  <1>2. 0 \in 0 .. MaxEdits /\ "idle" \in Stages
    BY Bounds DEF Stages
  <1>3. (call[c].failed \/ result = "error") \in BOOLEAN
    OBVIOUS
  <1>4. [call[c] EXCEPT !.at = "idle", !.out = result, !.fresh = FALSE, !.stamp = 0,
                        !.version = TRUE, !.sha = NoConfig,
                        !.failed = call[c].failed \/ result = "error"] \in Call
    BY <1>1, <1>2, <1>3 DEF Call
  <1> QED
    BY <1>4 DEF TypeOK, Return

LEMMA GotoType ==
    ASSUME TypeOK, NEW c \in Callers, NEW stage \in Stages, Goto(c, stage)
    PROVE  call' \in [Callers -> Call]
  BY DEF TypeOK, Goto, Call

LEMMA SendType ==
    ASSUME TypeOK, NEW pids, SendTo(pids)
    PROVE  /\ state' \in [Pids -> {"free", "up", "dying", "gone"}]
           /\ probes' \subseteq Callers
           /\ loaded' = loaded
  BY DEF TypeOK, SendTo

LEMMA StoppedType ==
    ASSUME RuntimeAssumption, TypeOK, NEW c \in Callers, NEW result \in Results,
           Stopped(c, result)
    PROVE  call' \in [Callers -> Call]
  <1>1. "scan" \in Stages
    BY DEF Stages
  <1> QED
    BY <1>1, ReturnType, GotoType DEF Stopped

LEMMA FoundType ==
    ASSUME TypeOK
    PROVE  Found \in SUBSET (Pids \cup Callers)
  BY DEF TypeOK, Found, Alive

LEMMA InitType ==
    ASSUME RuntimeAssumption, Init
    PROVE  Types
  <1>1. PICK v \in Valid :
          /\ disk = [bytes |-> v, stamp |-> 0]
          /\ tested = {v}
          /\ state \in [Pids -> {"free", "up"}]
          /\ loaded \in [Pids -> {v, NoConfig}]
    BY DEF Init
  <1>2. v \in Configs /\ 0 \in 0 .. MaxEdits /\ 0 \in 0 .. MaxCalls
    BY Bounds
  <1>3. [kind |-> "none", force |-> FALSE, fresh |-> FALSE, at |-> "idle",
         stamp |-> 0, version |-> TRUE, sha |-> NoConfig, found |-> {},
         out |-> "none", failed |-> FALSE] \in Call
    BY <1>2 DEF Call, Stages, Results
  <1>4. call \in [Callers -> Call] /\ \A c \in Callers : call[c].at = "idle"
    BY <1>3 DEF Init
  <1>5. state \in [Pids -> {"free", "up", "dying", "gone"}]
        /\ loaded \in [Pids -> Configs \cup {NoConfig}]
    BY <1>1, <1>2
  <1> QED
    BY <1>1, <1>2, <1>4, <1>5 DEF Init, Types, TypeOK, HashTaken, At

(* What a step does to the calls: it moves its own and no other.           *)
LEMMA OthersKept ==
    ASSUME TypeOK, NEW c \in Callers, Begin(c) \/ Step(c)
    PROVE  \A d \in Callers \ {c} : call'[d] = call[d]
  <1>1. \A stage : Goto(c, stage) => \A d \in Callers \ {c} : call'[d] = call[d]
    BY DEF Goto, TypeOK
  <1>2. \A result : Return(c, result) => \A d \in Callers \ {c} : call'[d] = call[d]
    BY DEF Return, TypeOK
  <1>3. \A result : Stopped(c, result) => \A d \in Callers \ {c} : call'[d] = call[d]
    BY <1>1, <1>2 DEF Stopped
  <1>4. Begin(c) => \A d \in Callers \ {c} : call'[d] = call[d]
    BY DEF Begin, TypeOK
  <1>5. Stat(c) \/ ProbeEnd(c) \/ Lookup(c) \/ Exec(c) \/ Attest(c)
          => \A d \in Callers \ {c} : call'[d] = call[d]
    BY <1>1, <1>2 DEF Stat, ProbeEnd, Lookup, Exec, Attest, TypeOK
  <1>6. Scan(c) \/ Spawn(c) \/ Guard(c) \/ Find(c) \/ Signal(c) \/ Wait(c) \/ Timeout(c)
          => \A d \in Callers \ {c} : call'[d] = call[d]
    BY <1>1, <1>2, <1>3 DEF Scan, Spawn, Guard, Find, Signal, Wait, Timeout, TypeOK
  <1>7. HashCheck(c) \/ LiveCheck(c) \/ Put(c) \/ Check(c) \/ Clear(c) \/ Install(c) \/ Verify(c)
          \/ Remove(c) => \A d \in Callers \ {c} : call'[d] = call[d]
    BY <1>1, <1>2 DEF HashCheck, LiveCheck, Put, Check, Clear, Install, Verify, Remove, TypeOK
  <1> QED
    BY <1>4, <1>5, <1>6, <1>7 DEF Step

(* The control flow: which stages a step leads to, by the kind of call.    *)
Leads(c) ==
    \/ At(c, "stat") /\ call'[c].at \in {"probe", "lookup"}
    \/ At(c, "probe") /\ call'[c].at = "lookup"
    \/ At(c, "lookup") /\ call'[c].at \in {"exec", AfterValidation(call[c].kind)}
    \/ At(c, "exec") /\ call'[c].at = AfterValidation(call[c].kind)
    \/ At(c, "scan") /\ call'[c].at = IF call[c].kind = "run" THEN "stat" ELSE "spawn"
    \/ At(c, "guard") /\ call'[c].at = "find"
    \/ At(c, "find") /\ call'[c].at = "signal"
    \/ At(c, "signal") /\ call'[c].at = "wait"
    \/ At(c, "wait") /\ call'[c].at = "killed"
    \/ /\ At(c, "find") \/ At(c, "wait") \/ At(c, "killed")
       /\ call[c].kind # "stop" /\ call'[c].at = "scan"
    \/ At(c, "hash") /\ call'[c].at = "live"
    \/ At(c, "live") /\ call'[c].at = "put"
    \/ At(c, "check") /\ call'[c].at = "clear"
    \/ At(c, "clear") /\ call'[c].at = "install"
    \/ At(c, "install") /\ call'[c].at = "verify"
    \/ call'[c].at = "idle"

LEMMA Moved ==
    ASSUME TypeOK, NEW c \in Callers, Step(c)
    PROVE  call'[c].kind = call[c].kind /\ Leads(c)
  <1> DEFINE Same == call'[c].kind = call[c].kind
  <1>1. \A stage : Goto(c, stage) => Same /\ call'[c].at = stage
    BY DEF Goto, TypeOK, Call
  <1>2. \A result : Return(c, result) => Same /\ call'[c].at = "idle"
    BY DEF Return, TypeOK, Call
  <1>3. \A result : Stopped(c, result)
          => Same /\ \/ call'[c].at = "idle"
                     \/ call[c].kind # "stop" /\ call'[c].at = "scan"
    BY <1>1, <1>2 DEF Stopped
  <1> HIDE DEF Same
  <1>4. Stat(c) \/ ProbeEnd(c) => Same /\ Leads(c)
    BY DEF Stat, ProbeEnd, TypeOK, Call, Leads, Same
  <1>5. Lookup(c) => Same /\ Leads(c)
    <2>1. call' = [call EXCEPT ![c].sha = disk.bytes, ![c].at = "exec"]
            => Same /\ call'[c].at = "exec"
      BY DEF TypeOK, Call, Same
    <2> QED
      BY <1>1, <2>1 DEF Lookup, Leads
  <1>6. Exec(c) \/ Attest(c) => Same /\ Leads(c)
    BY <1>1, <1>2 DEF Exec, Attest, Leads
  <1>7. Scan(c) \/ Spawn(c) \/ Guard(c) => Same /\ Leads(c)
    BY <1>1, <1>2 DEF Scan, Spawn, Guard, Leads
  <1>8. Find(c) => Same /\ Leads(c)
    <2>1. call' = [call EXCEPT ![c].found = Found, ![c].at = "signal"]
            => Same /\ call'[c].at = "signal"
      BY DEF TypeOK, Call, Same
    <2> QED
      BY <1>3, <2>1 DEF Find, Leads
  <1>9. Signal(c) \/ Wait(c) \/ Timeout(c) => Same /\ Leads(c)
    BY <1>1, <1>2, <1>3 DEF Signal, Wait, Timeout, Leads
  <1>10. HashCheck(c) => Same /\ Leads(c)
    <2>1. call' = [call EXCEPT ![c].sha = disk.bytes, ![c].at = "live"]
            => Same /\ call'[c].at = "live"
      BY DEF TypeOK, Call, Same
    <2> QED
      BY <1>2, <2>1 DEF HashCheck, Leads
  <1>11. LiveCheck(c) \/ Put(c) \/ Check(c) \/ Clear(c) \/ Install(c) \/ Verify(c) \/ Remove(c)
           => Same /\ Leads(c)
    BY <1>1, <1>2 DEF LiveCheck, Put, Check, Clear, Install, Verify, Remove, Leads
  <1> QED
    BY <1>4, <1>5, <1>6, <1>7, <1>8, <1>9, <1>10, <1>11 DEF Step, Same

(* Type correctness, with what keeps the hash of a cached verdict a hash.  *)
THEOREM TypeCorrect == Spec => []Types
  <1> USE RuntimeAssumption
  <1>1. Init => Types
    BY InitType
  <1>2. Types /\ [Next]_vars => TypeOK'
    <2> SUFFICES ASSUME TypeOK, HashTaken, [Next]_vars
                 PROVE  TypeOK'
      BY DEF Types
    <2>1. ASSUME NEW c \in Callers, Begin(c)
          PROVE  TypeOK'
      <3>1. PICK kind \in Kinds[c], force \in Forcing, fresh \in Forcing :
               call' = [call EXCEPT ![c] =
                     [kind |-> kind, force |-> force, fresh |-> fresh \/ kind = "test",
                      at |-> Entrance(kind, force), stamp |-> 0, version |-> TRUE,
                      sha |-> NoConfig, found |-> {}, out |-> "none",
                      failed |-> call[c].failed]]
        BY <2>1 DEF Begin
      <3>2. kind \in AllKinds /\ force \in BOOLEAN /\ fresh \in BOOLEAN
        BY Bounds
      <3>3. Entrance(kind, force) \in Stages
        BY <3>2 DEF Entrance, AllKinds, Stages
      <3>4. (fresh \/ kind = "test") \in BOOLEAN
        OBVIOUS
      <3>5. [kind |-> kind, force |-> force, fresh |-> fresh \/ kind = "test",
             at |-> Entrance(kind, force), stamp |-> 0, version |-> TRUE,
             sha |-> NoConfig, found |-> {}, out |-> "none",
             failed |-> call[c].failed] \in Call
        BY <3>2, <3>3, <3>4, Bounds DEF TypeOK, Call, Results
      <3>6. call' \in [Callers -> Call]
        BY <3>1, <3>5 DEF TypeOK
      <3>7. calls' \in 0 .. MaxCalls
        BY <2>1, Bounds DEF Begin, TypeOK
      <3> QED
        BY <2>1, <3>6, <3>7 DEF Begin, TypeOK, takeoverVars, configVars, processVars
    <2>2. ASSUME NEW c \in Callers, Stat(c)
          PROVE  TypeOK'
      <3>1. call' \in [Callers -> Call]
        <4>1. PICK stage \in {"probe", "lookup"} :
                call' = [call EXCEPT ![c].stamp = disk.stamp, ![c].at = stage]
          BY <2>2 DEF Stat
        <4>2. call[c] \in Call /\ disk.stamp \in 0 .. MaxEdits /\ stage \in Stages
          BY DEF TypeOK, Stages
        <4>3. [call[c] EXCEPT !.stamp = disk.stamp, !.at = stage] \in Call
          BY <4>2 DEF Call
        <4> QED
          BY <4>1, <4>3 DEF TypeOK
      <3> QED
        BY <2>2, <3>1 DEF Stat, TypeOK, takeoverVars, configVars, processVars
    <2>3. ASSUME NEW c \in Callers, ProbeEnd(c)
          PROVE  TypeOK'
      <3>1. call' \in [Callers -> Call]
        <4>1. (c \in probes) \in BOOLEAN
          OBVIOUS
        <4>2. [call[c] EXCEPT !.version = (c \in probes), !.at = "lookup"] \in Call
          <5>1. call[c] \in Call /\ "lookup" \in Stages
            BY DEF TypeOK, Stages
          <5> QED
            BY <4>1, <5>1 DEF Call
        <4> QED
          BY <2>3, <4>2 DEF ProbeEnd, TypeOK
      <3> QED
        BY <2>3, <3>1 DEF ProbeEnd, TypeOK, takeoverVars, configVars, processVars
    <2>4. ASSUME NEW c \in Callers, Lookup(c)
          PROVE  TypeOK'
      <3>1. AfterValidation(call[c].kind) \in Stages
        BY DEF AfterValidation, Stages
      <3>2. call' \in [Callers -> Call]
        <4>1. CASE Goto(c, AfterValidation(call[c].kind))
          BY <3>1, <4>1, GotoType
        <4>2. CASE call' = [call EXCEPT ![c].sha = disk.bytes, ![c].at = "exec"]
          <5>1. call[c] \in Call /\ disk.bytes \in Configs /\ "exec" \in Stages
            BY DEF TypeOK, Stages
          <5>2. [call[c] EXCEPT !.sha = disk.bytes, !.at = "exec"] \in Call
            BY <5>1 DEF Call
          <5> QED
            BY <4>2, <5>2 DEF TypeOK
        <4> QED
          BY <2>4, <4>1, <4>2 DEF Lookup
      <3>3. UNCHANGED <<disk, cache, attested, tested, state, loaded, probes, rules,
                        unguarded, calls>>
        BY <2>4 DEF Lookup, takeoverVars, configVars, processVars
      <3> QED
        BY <3>2, <3>3 DEF TypeOK
    <2>5. ASSUME NEW c \in Callers, Attest(c)
          PROVE  TypeOK'
      <3>1. call' \in [Callers -> Call]
        BY <2>5, ReturnType DEF Attest, Results
      <3>2. call[c].sha \in Configs \cup {NoConfig}
        BY DEF TypeOK, Call
      <3> QED
        BY <2>5, <3>1, <3>2 DEF Attest, TypeOK, takeoverVars, processVars
    <2>6. ASSUME NEW c \in Callers, Scan(c)
          PROVE  TypeOK'
      <3>1. call' \in [Callers -> Call]
        BY <2>6, ReturnType, GotoType DEF Scan, Results, Stages
      <3> QED
        BY <2>6, <3>1 DEF Scan, TypeOK, takeoverVars, configVars, processVars
    <2>7. ASSUME NEW c \in Callers, Spawn(c)
          PROVE  TypeOK'
      <3>1. call' \in [Callers -> Call]
        BY <2>7, ReturnType DEF Spawn, Results
      <3>2. /\ state' \in [Pids -> {"free", "up", "dying", "gone"}]
            /\ loaded' \in [Pids -> Configs \cup {NoConfig}]
        BY <2>7 DEF Spawn, TypeOK, takeoverVars, processVars
      <3> QED
        BY <2>7, <3>1, <3>2 DEF Spawn, TypeOK, takeoverVars, configVars
    <2>8. ASSUME NEW c \in Callers, Guard(c)
          PROVE  TypeOK'
      <3>1. call' \in [Callers -> Call]
        BY <2>8, ReturnType, GotoType DEF Guard, Results, Stages
      <3> QED
        BY <2>8, <3>1 DEF Guard, TypeOK, takeoverVars, configVars, processVars
    <2>9. ASSUME NEW c \in Callers, Find(c)
          PROVE  TypeOK'
      <3>1. CASE Stopped(c, "nothing")
        BY <2>9, <3>1, StoppedType DEF Find, Results, TypeOK, takeoverVars, configVars, processVars
      <3>2. CASE call' = [call EXCEPT ![c].found = Found, ![c].at = "signal"]
        <4>1. call' \in [Callers -> Call]
          <5>1. [call[c] EXCEPT !.found = Found, !.at = "signal"] \in Call
            <6>1. call[c] \in Call /\ "signal" \in Stages
              BY DEF TypeOK, Stages
            <6> QED
              BY <6>1, FoundType DEF Call
          <5> QED
            BY <3>2, <5>1 DEF TypeOK
        <4> QED
          BY <2>9, <4>1 DEF Find, TypeOK, takeoverVars, configVars, processVars
      <3> QED
        BY <2>9, <3>1, <3>2 DEF Find
    <2>10. ASSUME NEW c \in Callers, Signal(c)
           PROVE  TypeOK'
      <3>1. call' \in [Callers -> Call]
        BY <2>10, ReturnType, GotoType DEF Signal, Results, Stages
      <3>2. PICK pids : SendTo(pids)
        BY <2>10 DEF Signal
      <3> QED
        BY <2>10, <3>1, <3>2, SendType DEF Signal, TypeOK, takeoverVars, configVars
    <2>11. ASSUME NEW c \in Callers, Wait(c)
           PROVE  TypeOK'
      <3>1. call' \in [Callers -> Call]
        BY <2>11, StoppedType DEF Wait, Results
      <3> QED
        BY <2>11, <3>1 DEF Wait, TypeOK, takeoverVars, configVars, processVars
    <2>12. ASSUME NEW c \in Callers, Timeout(c)
           PROVE  TypeOK'
      <3>1. call' \in [Callers -> Call]
        BY <2>12, ReturnType, GotoType DEF Timeout, Results, Stages
      <3>2. /\ state' \in [Pids -> {"free", "up", "dying", "gone"}]
            /\ probes' \subseteq Callers
            /\ loaded' = loaded
        BY <2>12, SendType DEF Timeout, TypeOK, takeoverVars, processVars
      <3> QED
        BY <2>12, <3>1, <3>2 DEF Timeout, TypeOK, takeoverVars, configVars
    <2>13. ASSUME NEW c \in Callers, HashCheck(c)
           PROVE  TypeOK'
      <3>1. call' \in [Callers -> Call]
        BY <2>13, ReturnType DEF HashCheck, Results, TypeOK, Call, Stages
      <3> QED
        BY <2>13, <3>1 DEF HashCheck, TypeOK, takeoverVars, configVars, processVars
    <2>14. ASSUME NEW c \in Callers, LiveCheck(c)
           PROVE  TypeOK'
      <3>1. call' \in [Callers -> Call]
        BY <2>14, ReturnType, GotoType DEF LiveCheck, Results, Stages
      <3> QED
        BY <2>14, <3>1 DEF LiveCheck, TypeOK, takeoverVars, configVars, processVars
    <2>15. ASSUME NEW c \in Callers, Put(c)
           PROVE  TypeOK'
      <3>1. call' \in [Callers -> Call]
        BY <2>15, ReturnType DEF Put, Results
      <3>2. loaded' \in [Pids -> Configs \cup {NoConfig}]
        BY <2>15 DEF Put, TypeOK
      <3> QED
        BY <2>15, <3>1, <3>2 DEF Put, TypeOK, takeoverVars, configVars
    <2>16. ASSUME NEW c \in Callers,
                  Check(c) \/ Clear(c) \/ Install(c) \/ Verify(c) \/ Remove(c)
           PROVE  TypeOK'
      <3>1. call' \in [Callers -> Call]
        <4>1. CASE Check(c)
          BY <4>1, ReturnType, GotoType DEF Check, Results, Stages
        <4>2. CASE Install(c)
          BY <4>2, ReturnType, GotoType DEF Install, Results, Stages
        <4>3. CASE Verify(c)
          BY <4>3, ReturnType DEF Verify, Results
        <4>4. CASE Remove(c)
          BY <4>4, ReturnType DEF Remove, Results
        <4>5. CASE Clear(c)
          BY <4>5, GotoType DEF Clear, Stages
        <4> QED
          BY <2>16, <4>1, <4>2, <4>3, <4>4, <4>5
      <3>2. rules' \in {"none", "part", "whole"} /\ unguarded' \subseteq Callers
        BY <2>16 DEF Check, Clear, Install, Extents, Verify, Remove, TypeOK, takeoverVars
      <3> QED
        BY <2>16, <3>1, <3>2
        DEF Check, Clear, Install, Verify, Remove, TypeOK, takeoverVars, configVars, processVars
    <2>17. ASSUME NEW c \in Callers, Exec(c)
           PROVE  TypeOK'
      <3> DEFINE entry(passed) == [stamp |-> call[c].stamp, sha |-> call[c].sha,
                                   version |-> call[c].version, passed |-> passed]
      <3>a. ({disk.bytes \in Valid} \cup (IF Faults THEN {FALSE} ELSE {})) \subseteq BOOLEAN
        <4>1. (disk.bytes \in Valid) \in BOOLEAN
          OBVIOUS
        <4>2. (IF Faults THEN {FALSE} ELSE {}) \subseteq BOOLEAN
          BY Zenon
        <4> QED
          BY <4>1, <4>2, Zenon
      <3>1. PICK passed \in BOOLEAN :
               /\ cache' = {e \in cache : e.sha # entry(passed).sha
                                          \/ e.version # entry(passed).version}
                           \cup {entry(passed)}
               /\ tested' = IF passed THEN tested \cup {disk.bytes} ELSE tested
               /\ IF passed THEN Goto(c, AfterValidation(call[c].kind))
                  ELSE Return(c, "invalid")
        BY <2>17, <3>a, Zenon DEF Exec, Recorded
      <3>2. entry(passed) \in Entry
        BY <2>17 DEF Exec, HashTaken, TypeOK, Call, Entry
      <3>3. cache' \subseteq Entry /\ tested' \subseteq Configs
        BY <3>1, <3>2 DEF TypeOK
      <3>4. AfterValidation(call[c].kind) \in Stages /\ "invalid" \in Results
        BY DEF AfterValidation, Stages, Results
      <3>5. call' \in [Callers -> Call]
        BY <3>1, <3>4, ReturnType, GotoType
      <3> QED
        BY <2>17, <3>3, <3>5 DEF Exec, TypeOK, takeoverVars, processVars
    <2>18. ASSUME NEW p \in Pids, Exit(p)
           PROVE  TypeOK'
      BY <2>18 DEF Exit, TypeOK, takeoverVars, configVars
    <2>19. CASE Edit
      BY <2>19 DEF Edit, TypeOK, takeoverVars, RuntimeAssumption, processVars
    <2>20. CASE UNCHANGED vars
      BY <2>20 DEF vars, TypeOK
    <2> QED
      BY <2>1, <2>2, <2>3, <2>4, <2>5, <2>6, <2>7, <2>8, <2>9, <2>10, <2>11, <2>12,
         <2>13, <2>14, <2>15, <2>16, <2>17, <2>18, <2>19, <2>20 DEF Next, Step
  <1>3. Types /\ [Next]_vars => HashTaken'
    <2> SUFFICES ASSUME TypeOK, HashTaken, [Next]_vars,
                        NEW d \in Callers, call'[d].at = "exec"
                 PROVE  call'[d].sha \in Configs
      BY DEF Types, HashTaken, At
    <2>1. ASSUME NEW c \in Callers, Begin(c) \/ Step(c)
          PROVE  call'[d].sha \in Configs
      <3>1. CASE d # c
        BY <2>1, <3>1, OthersKept DEF HashTaken, At
      <3>2. CASE d = c /\ Begin(c)
        <4>1. \A kind \in AllKinds, force \in BOOLEAN : Entrance(kind, force) # "exec"
          BY DEF Entrance, AllKinds
        <4> QED
          BY <3>2, <4>1, Bounds DEF Begin, TypeOK
      <3>3. CASE d = c /\ Step(c)
        <4>1. Leads(c)
          BY <3>3, Moved
        <4>2. At(c, "lookup")
          BY <4>1, <3>3 DEF Leads, At, AfterValidation
        <4>3. Lookup(c)
          BY <3>3, <4>2 DEF Step, At, Stat, ProbeEnd, Exec, Attest, Scan, Spawn, Guard, Find,
             Signal, Wait, Timeout, HashCheck, LiveCheck, Put, Check, Clear, Install, Verify, Remove
        <4>4. call' = [call EXCEPT ![c].sha = disk.bytes, ![c].at = "exec"]
          BY <4>3, <3>3 DEF Lookup, Goto, AfterValidation, TypeOK, Call
        <4> QED
          BY <3>3, <4>4 DEF TypeOK
      <3> QED
        BY <2>1, <3>1, <3>2, <3>3
    <2>2. CASE UNCHANGED call
      BY <2>2 DEF HashTaken, At
    <2> QED
      BY <2>1, <2>2 DEF Next, Exit, Edit, vars
  <1> QED
    BY <1>1, <1>2, <1>3, PTL DEF Spec, Types

(* Every variable keeps its type, whatever the callers, kinds and bounds.  *)
THEOREM TypeInvariant == Spec => []TypeOK
  <1>1. Types => TypeOK
    BY DEF Types
  <1> QED
    BY <1>1, TypeCorrect, PTL

-----------------------------------------------------------------------------
(* Processes.                                                              *)

(* A process is started, may be signalled, is gone, and never comes back.  *)
Lives(p) ==
    \/ state'[p] = state[p]
    \/ state[p] = "free" /\ state'[p] = "up"
    \/ state[p] \in {"up", "dying"} /\ state'[p] \in {"dying", "gone"}

(* Only a Spawn starts one.                                                *)
LEMMA Signalled ==
    ASSUME RuntimeAssumption, TypeOK, NEW pids, SendTo(pids), pids \subseteq Found,
           NEW p \in Pids
    PROVE  Lives(p) /\ (state[p] = "free" => state'[p] = "free")
  <1>1. CASE p \in pids
    <2>1. state'[p] = "dying"
      BY <1>1 DEF SendTo
    <2>2. state[p] \in {"up", "dying"}
      BY <1>1, Bounds DEF Found, Alive, TypeOK
    <2> QED
      BY <2>1, <2>2 DEF Lives
  <1>2. CASE p \notin pids
    BY <1>2 DEF SendTo, Lives
  <1> QED
    BY <1>1, <1>2

LEMMA Living ==
    ASSUME RuntimeAssumption, TypeOK, NEW c \in Callers, Begin(c) \/ Step(c),
           NEW p \in Pids
    PROVE  Lives(p) /\ (state[p] = "free" /\ state'[p] # "free" => At(c, "spawn"))
  <1>1. CASE Signal(c)
    <2>1. PICK pids : SendTo(pids) /\ pids \subseteq Found
      BY <1>1 DEF Signal
    <2> QED
      BY <2>1, Signalled DEF Lives
  <1>2. CASE Timeout(c)
    <2>1. CASE UNCHANGED state
      BY <2>1 DEF Lives
    <2>2. CASE SendTo(call[c].found \cap Found)
      BY <2>2, Signalled DEF Lives
    <2> QED
      BY <1>2, <2>1, <2>2 DEF Timeout, processVars
  <1>3. CASE Spawn(c)
    BY <1>3 DEF Spawn, Lives, processVars, TypeOK
  <1>4. CASE UNCHANGED state
    BY <1>4 DEF Lives
  <1> QED
    BY <1>1, <1>2, <1>3, <1>4 DEF Step, Begin, Stat, ProbeEnd, Lookup, Exec, Attest, Scan,
       Guard, Find, Wait, HashCheck, LiveCheck, Put, Check, Clear, Install, Verify, Remove,
       processVars

LEMMA Exiting ==
    ASSUME TypeOK, NEW p \in Pids, Exit(p), NEW q \in Pids
    PROVE  Lives(q) /\ (state[q] = "free" => state'[q] = "free")
  BY DEF Exit, Lives, TypeOK

(* A call is at the stages of its kind.                                    *)
Fits(c) ==
    /\ At(c, "stat") \/ At(c, "probe") \/ At(c, "lookup") \/ At(c, "exec")
         => call[c].kind \in {"run", "restart", "test"}
    /\ At(c, "attest") => call[c].kind = "test"
    /\ At(c, "find") \/ At(c, "signal") \/ At(c, "wait") \/ At(c, "killed")
         => call[c].kind \in {"stop", "restart"}
    /\ At(c, "scan") \/ At(c, "spawn") => call[c].kind \in {"run", "restart"}
    /\ At(c, "guard") => call[c].kind = "stop"
    /\ ~At(c, "idle") => call[c].kind \in Kinds[c]

KindsFit == \A c \in Callers : Fits(c)

LEMMA FitsKept ==
    ASSUME RuntimeAssumption, TypeOK, KindsFit, [Next]_vars
    PROVE  KindsFit'
  <1>1. ASSUME NEW c \in Callers, Begin(c) \/ Step(c)
        PROVE  KindsFit'
    <2> SUFFICES ASSUME NEW d \in Callers
                 PROVE  Fits(d)'
      BY DEF KindsFit
    <2>1. CASE d # c
      BY <1>1, <2>1, OthersKept DEF KindsFit, Fits, At
    <2>2. CASE d = c /\ Begin(c)
      <3>1. PICK kind \in Kinds[c], force \in Forcing :
               call'[c].kind = kind /\ call'[c].at = Entrance(kind, force)
        BY <2>2 DEF Begin, TypeOK
      <3>2. kind \in AllKinds
        BY Bounds
      <3> QED
        BY <2>2, <3>1, <3>2 DEF Fits, At, Entrance, AllKinds
    <2>3. CASE d = c /\ Step(c)
      <3>1. call'[c].kind = call[c].kind /\ Leads(c) /\ Fits(c)
        BY <2>3, Moved DEF KindsFit
      <3>2. ~At(c, "idle")
        BY <2>3 DEF Step, At, Stat, ProbeEnd, Lookup, Exec, Attest, Scan, Spawn, Guard, Find,
           Signal, Wait, Timeout, HashCheck, LiveCheck, Put, Check, Clear, Install, Verify, Remove
      <3> QED
        BY <2>3, <3>1, <3>2 DEF Fits, Leads, At, AfterValidation
    <2> QED
      BY <1>1, <2>1, <2>2, <2>3
  <1>2. CASE UNCHANGED call
    BY <1>2 DEF KindsFit, Fits, At
  <1> QED
    BY <1>1, <1>2 DEF Next, Exit, Edit, vars

-----------------------------------------------------------------------------
(* What was stopped is dead.                                               *)

(* Once a call's wait is over every process of its scan is gone; the ones  *)
(* of a scan are never processes yet to start.                             *)
Buried(c) ==
    /\ \A p \in Pids : p \in call[c].found => state[p] # "free"
    /\ \/ At(c, "signal") \/ At(c, "wait") \/ At(c, "killed")
       \/ At(c, "idle") /\ call[c].out \notin {"stopped", "restarted"}
       \/ call[c].found \cap Alive = {}

AllBuried == \A c \in Callers : Buried(c)

LEMMA BuriedKept ==
    ASSUME TypeOK, NEW c \in Callers, Buried(c), call'[c] = call[c],
           \A p \in Pids : Lives(p)
    PROVE  Buried(c)'
  BY DEF Buried, Lives, Alive, At, TypeOK

(* The found of a step is the old one unless the call begins or scans.     *)
LEMMA FoundKept ==
    ASSUME TypeOK, NEW c \in Callers, Step(c), ~At(c, "find")
    PROVE  call'[c].found = call[c].found
  <1>1. \A stage : Goto(c, stage) => call'[c].found = call[c].found
    BY DEF Goto, TypeOK, Call
  <1>2. \A result : Return(c, result) => call'[c].found = call[c].found
    BY DEF Return, TypeOK, Call
  <1>3. Stat(c) \/ ProbeEnd(c) \/ Lookup(c) => call'[c].found = call[c].found
    BY <1>1 DEF Stat, ProbeEnd, Lookup, TypeOK, Call
  <1>4. HashCheck(c) => call'[c].found = call[c].found
    BY <1>2 DEF HashCheck, TypeOK, Call
  <1>5. Exec(c) \/ Attest(c) \/ Scan(c) \/ Spawn(c) \/ Guard(c)
          => call'[c].found = call[c].found
    BY <1>1, <1>2 DEF Exec, Attest, Scan, Spawn, Guard
  <1>6. Signal(c) \/ Wait(c) \/ Timeout(c) => call'[c].found = call[c].found
    BY <1>1, <1>2 DEF Signal, Wait, Timeout, Stopped
  <1>7. LiveCheck(c) \/ Put(c) \/ Check(c) \/ Clear(c) \/ Install(c) \/ Verify(c) \/ Remove(c)
          => call'[c].found = call[c].found
    BY <1>1, <1>2 DEF LiveCheck, Put, Check, Clear, Install, Verify, Remove
  <1> QED
    BY <1>3, <1>4, <1>5, <1>6, <1>7 DEF Step, Find

(* Which steps end a call with each verdict the properties ask about.      *)
LEMMA Verdicts ==
    ASSUME TypeOK, NEW c \in Callers, Step(c), At(c, "idle")'
    PROVE  /\ call'[c].out = "stopped" => Wait(c)
           /\ call'[c].out = "restarted" => Spawn(c)
  <1>1. \A stage : Goto(c, stage) => call'[c].at = stage
    BY DEF Goto, TypeOK, Call
  <1>2. \A result : Return(c, result) => call'[c].out = result
    BY DEF Return, TypeOK, Call
  <1>3. Stat(c) => FALSE
    BY DEF Stat, TypeOK, Call, At
  <1>4. ProbeEnd(c) => FALSE
    BY DEF ProbeEnd, TypeOK, Call, At
  <1>5. Lookup(c) => FALSE
    <2>1. call' = [call EXCEPT ![c].sha = disk.bytes, ![c].at = "exec"] => call'[c].at = "exec"
      BY DEF TypeOK, Call
    <2> QED
      BY <1>1, <2>1 DEF Lookup, At, AfterValidation
  <1>6. HashCheck(c) => call'[c].out = "error"
    BY <1>2 DEF HashCheck, TypeOK, Call, At
  <1>7. Exec(c) \/ Attest(c) \/ Scan(c) \/ Guard(c) \/ Signal(c) \/ Timeout(c)
          => call'[c].out \notin {"stopped", "restarted"}
    BY <1>1, <1>2 DEF Exec, Attest, Scan, Guard, Signal, Timeout, At, AfterValidation
  <1>8. LiveCheck(c) \/ Put(c) \/ Check(c) \/ Clear(c) \/ Install(c) \/ Verify(c) \/ Remove(c)
          => call'[c].out \notin {"stopped", "restarted"}
    BY <1>1, <1>2 DEF LiveCheck, Put, Check, Clear, Install, Verify, Remove, At
  <1>9. Find(c) => call'[c].out = "nothing"
    <2>1. call' = [call EXCEPT ![c].found = Found, ![c].at = "signal"]
            => call'[c].at = "signal"
      BY DEF TypeOK, Call
    <2> QED
      BY <1>1, <1>2, <2>1 DEF Find, Stopped, At
  <1>10. Spawn(c) => call'[c].out # "stopped"
    BY <1>2 DEF Spawn
  <1>11. Wait(c) => call'[c].out # "restarted"
    BY <1>1, <1>2 DEF Wait, Stopped, At
  <1> QED
    BY <1>3, <1>4, <1>5, <1>6, <1>7, <1>8, <1>9, <1>10, <1>11 DEF Step

LEMMA BuriedStep ==
    ASSUME RuntimeAssumption, TypeOK, NEW c \in Callers, Step(c), Buried(c)
    PROVE  Buried(c)'
  <1>1. \A p \in Pids : Lives(p)
    BY Living
  <1>2. CASE At(c, "find")
    <2>1. Find(c)
      BY <1>2 DEF Step, At, Stat, ProbeEnd, Lookup, Exec, Attest, Scan, Spawn, Guard,
         Signal, Wait, Timeout, HashCheck, LiveCheck, Put, Check, Clear, Install, Verify, Remove
    <2>2. CASE call' = [call EXCEPT ![c].found = Found, ![c].at = "signal"]
      <3>1. call'[c].found = Found /\ call'[c].at = "signal" /\ UNCHANGED state
        BY <2>1, <2>2 DEF Find, TypeOK, Call, processVars
      <3> QED
        BY <3>1, Bounds DEF Buried, Found, Alive, At, TypeOK
    <2>3. CASE Stopped(c, "nothing")
      <3>1. call'[c].found = call[c].found /\ UNCHANGED state
        <4>1. \A stage : Goto(c, stage) => call'[c].found = call[c].found
          BY DEF Goto, TypeOK, Call
        <4>2. \A result : Return(c, result) => call'[c].found = call[c].found
          BY DEF Return, TypeOK, Call
        <4> QED
          BY <2>1, <2>3, <4>1, <4>2 DEF Find, Stopped, processVars
      <3> QED
        BY <3>1, <1>2 DEF Buried, Alive, At
    <2> QED
      BY <2>1, <2>2, <2>3 DEF Find
  <1>3. CASE ~At(c, "find")
    <2>1. call'[c].found = call[c].found
      BY <1>3, FoundKept
    <2>2. \A p \in Pids : p \in call[c].found => state'[p] # "free"
      BY <1>1 DEF Buried, Lives
    <2>3. CASE Wait(c)
      <3>1. call[c].found \cap Alive = {} /\ UNCHANGED state
        BY <2>3 DEF Wait, Found, processVars
      <3> QED
        BY <2>1, <2>2, <3>1 DEF Buried, Alive
    <2>4. CASE At(c, "signal") \/ At(c, "wait") \/ At(c, "killed")
      <3>1. \/ Wait(c) \/ At(c, "signal")' \/ At(c, "wait")' \/ At(c, "killed")'
            \/ At(c, "idle")' /\ call'[c].out \notin {"stopped", "restarted"}
        <4>1. Signal(c) \/ Wait(c) \/ Timeout(c)
          BY <2>4 DEF Step, At, Stat, ProbeEnd, Lookup, Exec, Attest, Scan, Spawn, Guard,
             Find, HashCheck, LiveCheck, Put, Check, Clear, Install, Verify, Remove
        <4> QED
          <5>1. \A stage : Goto(c, stage) => call'[c].at = stage
            BY DEF Goto, TypeOK, Call
          <5>2. \A result : Return(c, result) => call'[c].at = "idle" /\ call'[c].out = result
            BY DEF Return, TypeOK, Call
          <5> QED
            BY <4>1, <5>1, <5>2 DEF Signal, Timeout, At
      <3> QED
        BY <2>1, <2>2, <2>3, <3>1 DEF Buried
    <2>5. CASE ~(At(c, "signal") \/ At(c, "wait") \/ At(c, "killed"))
      <3>1. ~At(c, "idle")
        BY DEF Step, At, Stat, ProbeEnd, Lookup, Exec, Attest, Scan, Spawn, Guard, Find,
           Signal, Wait, Timeout, HashCheck, LiveCheck, Put, Check, Clear, Install, Verify, Remove
      <3>2. call[c].found \cap Alive = {}
        BY <2>5, <3>1 DEF Buried
      <3>3. call[c].found \cap Alive' = {}
        BY <1>1, <3>2 DEF Buried, Lives, Alive
      <3> QED
        BY <2>1, <2>2, <3>3 DEF Buried
    <2> QED
      BY <2>4, <2>5
  <1> QED
    BY <1>2, <1>3

LEMMA BuriedInvariant ==
    ASSUME RuntimeAssumption, TypeOK, AllBuried, [Next]_vars
    PROVE  AllBuried'
  <1> SUFFICES ASSUME NEW d \in Callers
               PROVE  Buried(d)'
    BY DEF AllBuried
  <1>1. ASSUME NEW c \in Callers, Begin(c) \/ Step(c)
        PROVE  Buried(d)'
    <2>1. CASE d # c
      BY <1>1, <2>1, OthersKept, Living, BuriedKept DEF AllBuried
    <2>2. CASE d = c /\ Begin(c)
      <3>1. call'[c].found = {}
        BY <2>2 DEF Begin, TypeOK
      <3> QED
        BY <2>2, <3>1 DEF Buried
    <2>3. CASE d = c /\ Step(c)
      BY <2>3, BuriedStep DEF AllBuried
    <2> QED
      BY <1>1, <2>1, <2>2, <2>3
  <1>2. ASSUME NEW q \in Pids, Exit(q)
        PROVE  Buried(d)'
    BY <1>2, Exiting, BuriedKept DEF AllBuried, Exit
  <1>3. CASE UNCHANGED <<state, call>>
    BY <1>3 DEF AllBuried, Buried, Alive, At
  <1> QED
    BY <1>1, <1>2, <1>3 DEF Next, Edit, vars, processVars

(* A stop or a restart that reports success leaves none of the processes   *)
(* it found, with any number of calls signalling and starting around it.   *)
THEOREM StoppedStaysDead == Spec => []StoppedIsDead
  <1> USE RuntimeAssumption
  <1>1. Init => AllBuried
    BY DEF Init, AllBuried, Buried, At
  <1>2. Types /\ AllBuried /\ [Next]_vars => AllBuried'
    BY BuriedInvariant DEF Types
  <1>3. Types /\ AllBuried => StoppedIsDead
    BY DEF AllBuried, Buried, StoppedIsDead, At
  <1> QED
    BY <1>1, <1>2, <1>3, TypeCorrect, PTL DEF Spec
-----------------------------------------------------------------------------
(* One runtime.                                                            *)

(* At most one caller starts runtimes: no agent beside the CLI, and no two *)
(* start calls in flight.                                                  *)
OneStarter ==
    \A c, d \in {k \in Callers : Kinds[k] \cap {"run", "restart"} # {}} : c = d

(* Between the scan that found nothing and the start.                      *)
Starting(c) ==
    \/ At(c, "spawn")
    \/ /\ call[c].kind = "run"
       /\ At(c, "stat") \/ At(c, "probe") \/ At(c, "lookup") \/ At(c, "exec")

NothingYet == \A c \in Callers : Starting(c) => Alive = {}

Single == \A p, q \in Alive : p = q

(* A caller that is starting a runtime is the one that may.                *)
LEMMA StarterKind ==
    ASSUME KindsFit, NEW c \in Callers, Starting(c)
    PROVE  Kinds[c] \cap {"run", "restart"} # {}
  BY DEF KindsFit, Fits, Starting, At

(* A call comes to that interval from a scan that found nothing.           *)
LEMMA StartingKept ==
    ASSUME TypeOK, KindsFit, NEW c \in Callers, Begin(c) \/ Step(c), Starting(c)'
    PROVE  Starting(c) \/ Alive = {}
  <1>1. CASE Begin(c)
    <2>1. PICK kind \in Kinds[c], force \in Forcing :
             call'[c].kind = kind /\ call'[c].at = Entrance(kind, force)
      BY <1>1 DEF Begin, TypeOK
    <2>2. kind \in AllKinds
      BY Bounds, RuntimeAssumption
    <2> QED
      BY <2>1, <2>2 DEF Starting, At, Entrance, AllKinds
  <1>2. CASE Step(c)
    <2>1. call'[c].kind = call[c].kind /\ Leads(c) /\ Fits(c)
      BY <1>2, Moved DEF KindsFit
    <2>2. CASE At(c, "scan")
      <3>1. Scan(c)
        BY <1>2, <2>2 DEF Step, At, Stat, ProbeEnd, Lookup, Exec, Attest, Spawn, Guard,
           Find, Signal, Wait, Timeout, HashCheck, LiveCheck, Put, Check, Clear, Install,
           Verify, Remove
      <3>2. Return(c, "already") => call'[c].at = "idle"
        BY DEF Return, TypeOK, Call
      <3>3. Found = {}
        BY <3>1, <3>2 DEF Scan, Starting, At
      <3> QED
        BY <3>3 DEF Found
    <2>3. CASE ~At(c, "scan")
      BY <2>1, <2>3 DEF Leads, Starting, Fits, At, AfterValidation
    <2> QED
      BY <2>2, <2>3
  <1> QED
    BY <1>1, <1>2

LEMMA OneStep ==
    ASSUME RuntimeAssumption, OneStarter, TypeOK, KindsFit, NothingYet, Single,
           [Next]_vars
    PROVE  NothingYet' /\ Single'
  <1>1. ASSUME NEW c \in Callers, Begin(c) \/ Step(c), ~At(c, "spawn")
        PROVE  NothingYet' /\ Single'
    <2>1. Alive' \subseteq Alive
      <3>1. \A p \in Pids : Lives(p) /\ ~(state[p] = "free" /\ state'[p] # "free")
        BY <1>1, Living
      <3> QED
        BY <3>1 DEF Lives, Alive
    <2>2. ASSUME NEW d \in Callers, Starting(d)'
          PROVE  Alive = {}
      <3>1. CASE d = c
        BY <1>1, <2>2, <3>1, StartingKept DEF NothingYet
      <3>2. CASE d # c
        <4>1. call'[d] = call[d]
          BY <1>1, <3>2, OthersKept
        <4> QED
          BY <2>2, <4>1 DEF NothingYet, Starting, At
      <3> QED
        BY <3>1, <3>2
    <2> QED
      BY <2>1, <2>2 DEF NothingYet, Single
  <1>2. ASSUME NEW c \in Callers, Begin(c) \/ Step(c), At(c, "spawn")
        PROVE  NothingYet' /\ Single'
    <2>1. Spawn(c)
      BY <1>2 DEF Begin, Step, At, Stat, ProbeEnd, Lookup, Exec, Attest, Scan, Guard,
         Find, Signal, Wait, Timeout, HashCheck, LiveCheck, Put, Check, Clear, Install,
         Verify, Remove
    <2>2. Alive = {}
      BY <1>2 DEF NothingYet, Starting
    <2>3. Single'
      <3>1. CASE UNCHANGED processVars
        BY <2>2, <3>1 DEF Single, Alive, processVars
      <3>2. ASSUME NEW p \in Pids, state' = [state EXCEPT ![p] = "up"]
            PROVE  Single'
        <4>1. Alive' \subseteq {p}
          BY <2>2, <3>2 DEF Alive, TypeOK
        <4> QED
          BY <4>1 DEF Single
      <3> QED
        BY <2>1, <3>1, <3>2 DEF Spawn
    <2>4. ASSUME NEW d \in Callers, Starting(d)'
          PROVE  FALSE
      <3>1. d # c
        <4>1. \A result : Return(c, result) => call'[c].at = "idle"
          BY DEF Return, TypeOK, Call
        <4>2. call'[c].at = "idle"
          BY <2>1, <4>1 DEF Spawn
        <4> QED
          BY <2>4, <4>2 DEF Starting, At
      <3>2. call'[d] = call[d]
        BY <1>2, <3>1, OthersKept
      <3>3. Starting(d) /\ Starting(c)
        BY <1>2, <2>4, <3>2 DEF Starting, At
      <3> QED
        BY <3>1, <3>3, StarterKind DEF OneStarter
    <2> QED
      BY <2>3, <2>4 DEF NothingYet
  <1>3. ASSUME NEW q \in Pids, Exit(q)
        PROVE  NothingYet' /\ Single'
    <2>1. Alive' \subseteq Alive
      BY <1>3, Exiting DEF Lives, Alive
    <2>2. UNCHANGED call
      BY <1>3 DEF Exit
    <2> QED
      BY <2>1, <2>2 DEF NothingYet, Single, Starting, At
  <1>4. CASE UNCHANGED <<state, call>>
    BY <1>4 DEF NothingYet, Single, Starting, Alive, At
  <1> QED
    BY <1>1, <1>2, <1>3, <1>4 DEF Next, Edit, vars, processVars

(* With one caller that starts runtimes, whatever stops, tests, reloads    *)
(* and crashes there are around it, no two cores ever run.                 *)
THEOREM SingleRuntime ==
    ASSUME OneStarter
    PROVE  Spec => []OneRuntime
  <1> USE RuntimeAssumption
  <1>1. Init => KindsFit /\ NothingYet
    BY DEF Init, KindsFit, Fits, NothingYet, Starting, At
  <1>2. Init => Single
    BY DEF Init, Single, Alive, Pids
  <1>3. Types /\ KindsFit /\ NothingYet /\ Single /\ [Next]_vars
          => KindsFit' /\ NothingYet' /\ Single'
    BY FitsKept, OneStep DEF Types
  <1>4. Single => OneRuntime
    <2> SUFFICES ASSUME Single
                 PROVE  Cardinality(Alive) <= 1
      BY DEF OneRuntime
    <2>1. CASE Alive = {}
      BY <2>1, FS_EmptySet
    <2>2. ASSUME NEW p \in Alive
          PROVE  Cardinality(Alive) <= 1
      <3>1. Alive = {p}
        BY DEF Single
      <3>2. Cardinality({p}) = 1
        BY FS_Singleton, Zenon
      <3> QED
        BY <3>1, <3>2
    <2> QED
      BY <2>1, <2>2
  <1> QED
    BY <1>1, <1>2, <1>3, <1>4, TypeCorrect, PTL DEF Spec
-----------------------------------------------------------------------------
(* Tested configs.                                                         *)

(* Nothing rewrites the config while a call is running.                    *)
QuietConfig == BusyEdits = FALSE

(* Where a call relies on the config having passed.                        *)
Vetted(c) ==
    \/ At(c, "attest") \/ At(c, "spawn") \/ At(c, "live") \/ At(c, "put")
    \/ /\ call[c].kind = "restart"
       /\ \/ At(c, "find") \/ At(c, "signal") \/ At(c, "wait") \/ At(c, "killed")
          \/ At(c, "scan")

(* What a call knows of the config is about the config there is.           *)
Knows(c) ==
    /\ At(c, "probe") \/ At(c, "lookup") \/ At(c, "exec") => call[c].stamp = disk.stamp
    /\ At(c, "exec") \/ At(c, "attest") => call[c].sha = disk.bytes
    /\ At(c, "stat") \/ At(c, "probe") \/ At(c, "lookup") \/ At(c, "exec")
         => (call[c].kind = "test" => call[c].fresh)
    /\ Vetted(c) => disk.bytes \in tested

AllKnow == \A c \in Callers : Knows(c)

(* A stamp names the bytes that had it, and a pass is a pass.              *)
CacheTrue ==
    \A e \in cache :
        /\ e.stamp <= disk.stamp
        /\ e.stamp = disk.stamp => e.sha = disk.bytes
        /\ e.passed => e.sha \in tested

AttestationTrue == attested \in tested \cup {NoConfig}

Trust == AllKnow /\ CacheTrue /\ AttestationTrue /\ RunsTestedConfig

LEMMA CallsKeepConfig ==
    ASSUME NEW c \in Callers, Begin(c) \/ Step(c)
    PROVE  disk' = disk /\ tested \subseteq tested'
  BY Zenon DEF Begin, Step, Stat, ProbeEnd, Lookup, Exec, Attest, Scan, Spawn, Guard, Find,
     Signal, Wait, Timeout, HashCheck, LiveCheck, Put, Check, Clear, Install, Verify, Remove,
     configVars

(* The fields a step leaves alone.                                         *)
LEMMA Kept ==
    ASSUME TypeOK, NEW c \in Callers
    PROVE  /\ \A stage : Goto(c, stage)
                => call'[c] = [call[c] EXCEPT !.at = stage]
           /\ \A result : Return(c, result) => call'[c].at = "idle"
  <1>1. \A stage : Goto(c, stage) => call'[c] = [call[c] EXCEPT !.at = stage]
    BY Zenon DEF Goto, TypeOK
  <1>2. \A result : Return(c, result) => call'[c].at = "idle"
    BY DEF Return, TypeOK, Call
  <1> QED
    BY <1>1, <1>2

LEMMA IdleKnows ==
    ASSUME NEW c \in Callers, call'[c].at = "idle"
    PROVE  Knows(c)'
  BY DEF Knows, Vetted, At

LEMMA TestingKnows ==
    ASSUME RuntimeAssumption, TypeOK, KindsFit, Trust, NEW c \in Callers,
           Stat(c) \/ ProbeEnd(c) \/ Lookup(c) \/ Exec(c) \/ Attest(c)
    PROVE  Knows(c)'
  <1>1. Knows(c) /\ Fits(c)
    BY DEF Trust, AllKnow, KindsFit
  <1>2. CASE Stat(c)
    BY <1>1, <1>2 DEF Stat, Knows, Vetted, At, TypeOK, Call, configVars, Fits
  <1>3. CASE ProbeEnd(c)
    BY <1>1, <1>3 DEF ProbeEnd, Knows, Vetted, At, TypeOK, Call, configVars, Fits
  <1>4. CASE Lookup(c)
    <2>1. UNCHANGED <<disk, tested>> /\ At(c, "lookup")
      BY <1>4 DEF Lookup, configVars
    <2>2. CASE call' = [call EXCEPT ![c].sha = disk.bytes, ![c].at = "exec"]
      BY <1>1, <2>1, <2>2 DEF Knows, Vetted, At, TypeOK, Call, Fits
    <2>3. CASE /\ ~call[c].fresh
               /\ Hit(SameStamp(c)) \/ Hit(SameHash(c))
               /\ Goto(c, AfterValidation(call[c].kind))
      <3>1. PICK e \in cache : e.passed /\ (e.stamp = call[c].stamp \/ e.sha = disk.bytes)
        BY <2>3 DEF Hit, SameStamp, SameHash
      <3>2. disk.bytes \in tested
        BY <1>1, <2>1, <3>1 DEF Trust, CacheTrue, Knows
      <3>3. call[c].kind \in {"run", "restart"}
        BY <1>1, <2>1, <2>3 DEF Knows, Fits
      <3>4. call'[c] = [call[c] EXCEPT !.at = AfterValidation(call[c].kind)]
        BY <2>3, Kept
      <3>5. call'[c].at \in {"spawn", "find"}
        BY <3>3, <3>4 DEF AfterValidation, TypeOK, Call
      <3> QED
        BY <2>1, <3>2, <3>5 DEF Knows, Vetted, At
    <2> QED
      BY <1>4, <2>2, <2>3 DEF Lookup
  <1>5. CASE Exec(c)
    <2>1. CASE Return(c, "invalid")
      BY <2>1, Kept, IdleKnows
    <2>2. CASE /\ tested' = tested \cup {disk.bytes}
               /\ Goto(c, AfterValidation(call[c].kind))
      <3>1. At(c, "exec") /\ disk' = disk
        BY <1>5 DEF Exec
      <3>2. call'[c] = [call[c] EXCEPT !.at = AfterValidation(call[c].kind)]
        BY <2>2, Kept
      <3>3. /\ call'[c].at \in {"spawn", "find", "attest"}
            /\ call'[c].sha = call[c].sha
        BY <3>2 DEF AfterValidation, TypeOK, Call
      <3> QED
        BY <1>1, <2>2, <3>1, <3>3 DEF Knows, Vetted, At
    <2> QED
      BY <1>5, <2>1, <2>2 DEF Exec
  <1>6. CASE Attest(c)
    BY <1>6, Kept, IdleKnows DEF Attest
  <1> QED
    BY <1>2, <1>3, <1>4, <1>5, <1>6

LEMMA RestKnows ==
    ASSUME RuntimeAssumption, TypeOK, KindsFit, Trust, NEW c \in Callers, Step(c),
           ~(Stat(c) \/ ProbeEnd(c) \/ Lookup(c) \/ Exec(c) \/ Attest(c))
    PROVE  Knows(c)'
  <1>1. Knows(c) /\ Fits(c) /\ call'[c].kind = call[c].kind /\ Leads(c)
    BY Moved DEF Trust, AllKnow, KindsFit
  <1>2. disk' = disk /\ tested \subseteq tested'
    BY CallsKeepConfig
  <1>3. /\ ~At(c, "stat") /\ ~At(c, "probe") /\ ~At(c, "lookup") /\ ~At(c, "exec")
        /\ ~At(c, "attest") /\ ~At(c, "idle")
    BY DEF Step, At, Scan, Spawn, Guard, Find, Signal, Wait, Timeout, HashCheck,
       LiveCheck, Put, Check, Clear, Install, Verify, Remove
  <1>4. CASE At(c, "hash")
    <2>1. HashCheck(c)
      BY <1>4 DEF Step, At, Scan, Spawn, Guard, Find, Signal, Wait, Timeout, LiveCheck,
         Put, Check, Clear, Install, Verify, Remove
    <2>2. CASE Return(c, "error")
      BY <2>2, Kept, IdleKnows
    <2>3. CASE /\ disk.bytes = attested
               /\ call' = [call EXCEPT ![c].sha = disk.bytes, ![c].at = "live"]
      <3>1. disk.bytes \in tested
        BY <2>3, Bounds DEF Trust, AttestationTrue, TypeOK
      <3>2. call'[c].at = "live"
        BY <2>3 DEF TypeOK, Call
      <3> QED
        BY <1>2, <3>1, <3>2 DEF Knows, Vetted, At
    <2> QED
      BY <2>1, <2>2, <2>3 DEF HashCheck
  <1>5. CASE At(c, "scan") /\ call[c].kind = "run"
    <2>1. call'[c].at \in {"stat", "idle"}
      BY <1>1, <1>5 DEF Leads, At
    <2> QED
      BY <1>1, <1>5, <2>1 DEF Knows, Vetted, At
  <1>6. CASE ~At(c, "hash") /\ ~(At(c, "scan") /\ call[c].kind = "run")
    <2>1. Vetted(c)' => Vetted(c)
      BY <1>1, <1>3, <1>6 DEF Leads, Vetted, Fits, At
    <2>2. call'[c].at \notin {"stat", "probe", "lookup", "exec", "attest"}
      BY <1>1, <1>3, <1>6 DEF Leads, Fits, At
    <2> QED
      BY <1>1, <1>2, <2>1, <2>2 DEF Knows, At
  <1> QED
    BY <1>4, <1>5, <1>6

LEMMA CallersKnow ==
    ASSUME RuntimeAssumption, TypeOK, KindsFit, Trust, NEW c \in Callers,
           Begin(c) \/ Step(c)
    PROVE  AllKnow'
  <1> SUFFICES ASSUME NEW d \in Callers
               PROVE  Knows(d)'
    BY DEF AllKnow
  <1>1. disk' = disk /\ tested \subseteq tested'
    BY CallsKeepConfig
  <1>2. CASE d # c
    <2>1. call'[d] = call[d]
      BY <1>2, OthersKept
    <2> QED
      BY <1>1, <2>1 DEF Trust, AllKnow, Knows, Vetted, At
  <1>3. CASE d = c /\ Begin(c)
    <2>1. PICK kind \in Kinds[c], force \in Forcing, fresh \in Forcing :
             /\ call'[c].kind = kind
             /\ call'[c].at = Entrance(kind, force)
             /\ call'[c].fresh = (fresh \/ kind = "test")
      BY <1>3 DEF Begin, TypeOK
    <2>2. kind \in AllKinds
      BY Bounds
    <2> QED
      BY <1>3, <2>1, <2>2 DEF Knows, Vetted, At, Entrance, AllKinds
  <1>4. CASE d = c /\ Step(c)
    BY <1>4, TestingKnows, RestKnows
  <1> QED
    BY <1>2, <1>3, <1>4

LEMMA CacheKept ==
    ASSUME RuntimeAssumption, TypeOK, Trust, NEW c \in Callers, Begin(c) \/ Step(c)
    PROVE  CacheTrue'
  <1>1. disk' = disk /\ tested \subseteq tested'
    BY CallsKeepConfig
  <1>2. CASE Exec(c)
    <2>1. PICK passed \in {disk.bytes \in Valid} \cup (IF Faults THEN {FALSE} ELSE {}) :
            /\ cache' = Recorded([stamp |-> call[c].stamp, sha |-> call[c].sha,
                                  version |-> call[c].version, passed |-> passed])
            /\ tested' = IF passed THEN tested \cup {disk.bytes} ELSE tested
      BY <1>2, Zenon DEF Exec
    <2> DEFINE new == [stamp |-> call[c].stamp, sha |-> call[c].sha,
                       version |-> call[c].version, passed |-> passed]
    <2>2. \A e \in cache' : e \in cache \/ e = new
      BY <2>1 DEF Recorded
    <2>3. /\ new.stamp = disk.stamp
          /\ new.sha = disk.bytes
          /\ new.passed => disk.bytes \in tested'
      BY <1>2, <2>1 DEF Exec, Trust, AllKnow, Knows
    <2>4. disk.stamp \in Nat
      BY Bounds DEF TypeOK
    <2> HIDE DEF new
    <2> QED
      BY <1>1, <2>2, <2>3, <2>4 DEF Trust, CacheTrue
  <1>3. CASE UNCHANGED cache
    BY <1>1, <1>3 DEF Trust, CacheTrue
  <1> QED
    BY <1>2, <1>3 DEF Begin, Step, Stat, ProbeEnd, Lookup, Attest, Scan, Spawn, Guard, Find,
       Signal, Wait, Timeout, HashCheck, LiveCheck, Put, Check, Clear, Install, Verify, Remove,
       configVars

LEMMA AttestationKept ==
    ASSUME TypeOK, Trust, NEW c \in Callers, Begin(c) \/ Step(c)
    PROVE  AttestationTrue'
  <1>1. tested \subseteq tested'
    BY CallsKeepConfig
  <1>2. CASE Attest(c)
    BY <1>1, <1>2 DEF Attest, Trust, AllKnow, Knows, Vetted, AttestationTrue
  <1>3. CASE UNCHANGED attested
    BY <1>1, <1>3 DEF Trust, AttestationTrue
  <1> QED
    BY <1>2, <1>3 DEF Begin, Step, Stat, ProbeEnd, Lookup, Exec, Scan, Spawn, Guard, Find,
       Signal, Wait, Timeout, HashCheck, LiveCheck, Put, Check, Clear, Install, Verify, Remove,
       configVars

LEMMA RuntimesKept ==
    ASSUME RuntimeAssumption, TypeOK, Trust, NEW c \in Callers, Begin(c) \/ Step(c)
    PROVE  RunsTestedConfig'
  <1>1. tested \subseteq tested'
    BY CallsKeepConfig
  <1>2. CASE Spawn(c)
    <2>1. disk.bytes \in tested
      BY <1>2 DEF Spawn, Trust, AllKnow, Knows, Vetted
    <2> QED
      BY <1>1, <1>2, <2>1
         DEF Spawn, Trust, RunsTestedConfig, Alive, TypeOK, processVars
  <1>3. CASE Put(c)
    <2>1. disk.bytes \in tested
      BY <1>3 DEF Put, Trust, AllKnow, Knows, Vetted
    <2> QED
      BY <1>1, <1>3, <2>1 DEF Put, Trust, RunsTestedConfig, Alive, Up, TypeOK
  <1>4. CASE ~Spawn(c) /\ ~Put(c)
    <2>1. loaded' = loaded
      BY <1>4 DEF Begin, Step, Stat, ProbeEnd, Lookup, Exec, Attest, Scan, Guard, Find,
         Signal, SendTo, Wait, Timeout, HashCheck, LiveCheck, Check, Clear, Install, Verify, Remove,
         processVars
    <2>2. Alive' \subseteq Alive
      <3>1. ~(Step(c) /\ At(c, "spawn"))
        BY <1>4 DEF Step, At, Stat, ProbeEnd, Lookup, Exec, Attest, Scan, Guard, Find,
           Signal, Wait, Timeout, HashCheck, LiveCheck, Check, Clear, Install, Verify, Remove
      <3>2. Begin(c) => ~At(c, "spawn")
        BY DEF Begin, At
      <3> QED
        BY <3>1, <3>2, Living DEF Lives, Alive
    <2> QED
      BY <1>1, <2>1, <2>2 DEF Trust, RunsTestedConfig
  <1> QED
    BY <1>2, <1>3, <1>4

LEMMA TrustStep ==
    ASSUME RuntimeAssumption, QuietConfig, TypeOK, KindsFit, Trust, [Next]_vars
    PROVE  Trust'
  <1>1. ASSUME NEW c \in Callers, Begin(c) \/ Step(c)
        PROVE  Trust'
    BY <1>1, CallersKnow, CacheKept, AttestationKept, RuntimesKept DEF Trust
  <1>2. ASSUME NEW q \in Pids, Exit(q)
        PROVE  Trust'
    <2>1. Alive' \subseteq Alive
      BY <1>2, Exiting DEF Lives, Alive
    <2>2. UNCHANGED <<configVars, loaded, call>>
      BY <1>2 DEF Exit
    <2> QED
      BY <2>1, <2>2 DEF Trust, AllKnow, Knows, Vetted, At, CacheTrue, AttestationTrue,
         RunsTestedConfig, configVars
  <1>3. CASE Edit
    <2>1. AllKnow'
      <3>1. \A c \in Callers : call'[c].at = "idle"
        BY <1>3 DEF Edit, QuietConfig, Busy, At
      <3> QED
        BY <3>1, IdleKnows DEF AllKnow
    <2>2. CacheTrue'
      <3>1. disk'.stamp = disk.stamp + 1 /\ UNCHANGED <<cache, tested>>
        BY <1>3 DEF Edit
      <3>2. disk.stamp \in Nat /\ \A e \in cache : e.stamp \in Nat
        BY Bounds DEF TypeOK, Entry
      <3> QED
        BY <3>1, <3>2 DEF Trust, CacheTrue
    <2>3. AttestationTrue' /\ RunsTestedConfig'
      BY <1>3 DEF Edit, Trust, AttestationTrue, RunsTestedConfig, Alive, processVars
    <2> QED
      BY <2>1, <2>2, <2>3 DEF Trust
  <1>4. CASE UNCHANGED vars
    BY <1>4 DEF vars, Trust, AllKnow, Knows, Vetted, At, CacheTrue, AttestationTrue,
       RunsTestedConfig, Alive
  <1> QED
    BY <1>1, <1>2, <1>3, <1>4 DEF Next

LEMMA TrustInit ==
    ASSUME RuntimeAssumption, Init
    PROVE  Trust
  <1>1. RunsTestedConfig
    BY DEF Init, RunsTestedConfig, Alive, Pids
  <1> QED
    BY <1>1 DEF Init, Trust, AllKnow, Knows, Vetted, At, CacheTrue, AttestationTrue

LEMMA TrustInvariant ==
    ASSUME QuietConfig
    PROVE  Spec => [](Types /\ KindsFit /\ Trust)
  <1> USE RuntimeAssumption
  <1>1. Init => KindsFit /\ Trust
    <2>1. Init => KindsFit
      BY DEF Init, KindsFit, Fits, At
    <2> QED
      BY <2>1, TrustInit
  <1>2. Types /\ KindsFit /\ Trust /\ [Next]_vars => KindsFit' /\ Trust'
    BY FitsKept, TrustStep DEF Types
  <1> QED
    BY <1>1, <1>2, TypeCorrect, PTL DEF Spec

(* While the config is rewritten only between calls, no runtime runs a     *)
(* config that no test has passed, whoever starts, reloads and tests.      *)
THEOREM TestedConfigs ==
    ASSUME QuietConfig
    PROVE  Spec => []RunsTestedConfig
  <1>1. Trust => RunsTestedConfig
    BY DEF Trust
  <1> QED
    BY <1>1, TrustInvariant, PTL

(* Under the same condition the attestation and the passing entries of the *)
(* cache are hashes of bytes that passed.                                  *)
THEOREM TrueVerdicts ==
    ASSUME QuietConfig
    PROVE  Spec => []VerdictsAreTrue
  <1>1. Trust => VerdictsAreTrue
    BY DEF Trust, CacheTrue, AttestationTrue, VerdictsAreTrue
  <1> QED
    BY <1>1, TrustInvariant, PTL

(* And a restart takes the old runtime down for a tested config only.      *)
THEOREM RestartTested ==
    ASSUME QuietConfig
    PROVE  Spec => RestartSparesRuntime
  <1>1. Types /\ KindsFit /\ Trust /\ [Next]_vars
          => [\A c \in Callers :
                call[c].kind = "restart" /\ At(c, "signal") /\ ~At(c, "signal")'
                  => disk.bytes \in tested]_vars
    BY DEF Trust, AllKnow, Knows, Vetted
  <1> QED
    BY <1>1, TrustInvariant, PTL DEF Spec, RestartSparesRuntime

-----------------------------------------------------------------------------
(* A start or a restart that was announced.                                *)

(* Nothing but a restart takes a runtime down: no call stops it, none      *)
(* crashes, and what a scan finds is a runtime.                            *)
OnlyRestarts ==
    /\ QuietConfig /\ Faults = FALSE /\ SlowProbe = FALSE
    /\ \A c \in Callers : "stop" \notin Kinds[c]

Announced == {"started", "restarted", "already"}

(* A restart between its signals and the end of its start, or a run that   *)
(* has yet to start what it validated.                                     *)
Pending(c) ==
    \/ At(c, "wait") \/ At(c, "spawn")
    \/ At(c, "scan") /\ call[c].kind = "restart"

(* A runtime that was signalled is waited for by a restart that is still   *)
(* to scan; so whoever takes it for one that runs is not the last.         *)
Awaited ==
    \A p \in Pids :
        state[p] = "dying" => \E c \in Callers : At(c, "wait") /\ p \in call[c].found

Served ==
    (\E c \in Callers : call[c].out \in Announced)
        => Up # {} \/ \E c \in Callers : Pending(c)

Sound == \A v \in tested : v \in Valid

Upkeep ==
    /\ Sound /\ probes = {}
    /\ (\A c \in Callers : ~call[c].failed) => Awaited /\ Served

LEMMA SoundKept ==
    ASSUME Sound, NEW c \in Callers, Begin(c) \/ Step(c)
    PROVE  Sound'
  <1>1. CASE Exec(c)
    BY <1>1 DEF Exec, Sound
  <1>2. CASE UNCHANGED tested
    BY <1>2 DEF Sound
  <1> QED
    BY <1>1, <1>2 DEF Begin, Step, Stat, ProbeEnd, Lookup, Attest, Scan, Spawn, Guard, Find,
       Signal, Wait, Timeout, HashCheck, LiveCheck, Put, Check, Clear, Install, Verify, Remove,
       configVars

(* What a call's step changes of its record.                               *)
LEMMA Records ==
    ASSUME TypeOK, NEW c \in Callers
    PROVE  /\ \A stage : Goto(c, stage)
                => /\ call'[c].at = stage /\ call'[c].found = call[c].found
                   /\ call'[c].out = call[c].out /\ call'[c].kind = call[c].kind
                   /\ call'[c].failed = call[c].failed
           /\ \A result : Return(c, result)
                => /\ call'[c].at = "idle" /\ call'[c].out = result
                   /\ call'[c].failed = (call[c].failed \/ result = "error")
  <1>1. call[c] \in Call
    BY DEF TypeOK
  <1>2. \A stage : Goto(c, stage)
          => /\ call'[c].at = stage /\ call'[c].found = call[c].found
             /\ call'[c].out = call[c].out /\ call'[c].kind = call[c].kind
             /\ call'[c].failed = call[c].failed
    BY <1>1 DEF Goto, TypeOK, Call
  <1>3. \A result : Return(c, result)
          => /\ call'[c].at = "idle" /\ call'[c].out = result
             /\ call'[c].failed = (call[c].failed \/ result = "error")
    <2> SUFFICES ASSUME NEW result, Return(c, result)
                 PROVE  /\ call'[c].at = "idle" /\ call'[c].out = result
                        /\ call'[c].failed = (call[c].failed \/ result = "error")
      OBVIOUS
    <2> DEFINE failed == call[c].failed \/ result = "error"
    <2>1. call'[c] = [call[c] EXCEPT !.at = "idle", !.out = result, !.fresh = FALSE,
                                     !.stamp = 0, !.version = TRUE, !.sha = NoConfig,
                                     !.failed = failed]
      BY DEF Return, TypeOK
    <2> HIDE DEF failed
    <2>2. /\ call'[c].at = "idle" /\ call'[c].out = result /\ call'[c].failed = failed
      BY <1>1, <2>1 DEF Call
    <2> QED
      BY <2>2, Zenon DEF failed
  <1> QED
    BY <1>2, <1>3

(* Steps of calls that neither signal nor start.                           *)
LEMMA AsideKeeps ==
    ASSUME TypeOK, Awaited, Served, NEW c \in Callers, state' = state,
           \A d \in Callers \ {c} : call'[d] = call[d],
           ~At(c, "wait"), Pending(c) => Pending(c)',
           call'[c].out \in Announced => call[c].out \in Announced
    PROVE  Awaited' /\ Served'
  <1>1. \A d \in Callers : At(d, "wait") => call'[d] = call[d]
    OBVIOUS
  <1>2. Awaited'
    BY <1>1 DEF Awaited, At
  <1>3. \A d \in Callers : Pending(d) => Pending(d)'
    BY DEF Pending, At
  <1>4. Up' = Up
    BY DEF Up
  <1>5. (\E d \in Callers : call'[d].out \in Announced)
           => \E d \in Callers : call[d].out \in Announced
    OBVIOUS
  <1>6. Served'
    BY <1>3, <1>4, <1>5 DEF Served
  <1> QED
    BY <1>2, <1>6

(* The steps of the calls, while none fails.                               *)
LEMMA UpkeepStep ==
    ASSUME RuntimeAssumption, OnlyRestarts, TypeOK, KindsFit, Upkeep, Awaited, Served,
           NEW c \in Callers, Begin(c) \/ Step(c), ~call'[c].failed
    PROVE  Awaited' /\ Served'
  <1>1. \A d \in Callers \ {c} : call'[d] = call[d]
    BY OthersKept
  <1>2. Fits(c) /\ (~At(c, "idle") => call[c].kind # "stop") /\ Faults = FALSE /\ Found = Alive
    BY DEF KindsFit, Fits, OnlyRestarts, Upkeep, Found
  <1>3. CASE Begin(c)
    <2>1. At(c, "idle") /\ call'[c].out = "none" /\ state' = state
      BY <1>3 DEF Begin, TypeOK, processVars
    <2> QED
      BY <1>1, <2>1, AsideKeeps DEF Pending, At, Announced
  <1>4. CASE Stat(c) \/ ProbeEnd(c)
    <2>1. (At(c, "stat") \/ At(c, "probe")) /\ call'[c].out = call[c].out /\ state' = state
      BY <1>4 DEF Stat, ProbeEnd, TypeOK, Call, processVars
    <2> QED
      BY <1>1, <2>1, AsideKeeps DEF Pending, At
  <1>5. CASE Lookup(c)
    <2>1. At(c, "lookup") /\ call'[c].out = call[c].out /\ state' = state
      BY <1>5, Records DEF Lookup, TypeOK, Call, processVars
    <2> QED
      BY <1>1, <2>1, AsideKeeps DEF Pending, At
  <1>6. CASE Exec(c) \/ Attest(c) \/ Guard(c)
    <2>1. /\ At(c, "exec") \/ At(c, "attest") \/ At(c, "guard")
          /\ call'[c].out \in {call[c].out, "invalid", "passed", "refused"}
          /\ state' = state
      BY <1>6, Records DEF Exec, Attest, Guard, processVars
    <2> QED
      BY <1>1, <2>1, AsideKeeps DEF Pending, At, Announced
  <1>7. CASE Find(c)
    <2>1. /\ At(c, "find") /\ state' = state
          /\ call'[c].out \in {call[c].out, "nothing"}
      BY <1>7, Records DEF Find, Stopped, TypeOK, Call, processVars
    <2> QED
      BY <1>1, <2>1, AsideKeeps DEF Pending, At, Announced
  <1>8. CASE HashCheck(c) \/ LiveCheck(c) \/ Put(c)
    <2>1. /\ At(c, "hash") \/ At(c, "live") \/ At(c, "put")
          /\ call'[c].out \in {call[c].out, "error", "reloaded"} /\ state' = state
      BY <1>8, Records DEF HashCheck, LiveCheck, Put, TypeOK, Call, processVars
    <2> QED
      BY <1>1, <2>1, AsideKeeps DEF Pending, At, Announced
  <1>9. CASE Check(c) \/ Clear(c) \/ Install(c) \/ Verify(c) \/ Remove(c)
    <2>1. /\ \/ At(c, "check") \/ At(c, "clear") \/ At(c, "install") \/ At(c, "verify")
             \/ At(c, "remove")
          /\ call'[c].out \in {call[c].out, "error", "applied", "released"} /\ state' = state
      BY <1>9, Records DEF Check, Clear, Install, Verify, Remove, processVars
    <2> QED
      BY <1>1, <2>1, AsideKeeps DEF Pending, At, Announced
  <1>10. CASE Scan(c)
    <2>1. At(c, "scan") /\ state' = state
      BY <1>10 DEF Scan, processVars
    <2>2. CASE Alive = {}
      <3>1. Goto(c, IF call[c].kind = "run" THEN "stat" ELSE "spawn")
        BY <1>2, <1>10, <2>2 DEF Scan
      <3>2. /\ call'[c].at = IF call[c].kind = "run" THEN "stat" ELSE "spawn"
            /\ call'[c].out = call[c].out
        BY <3>1, Records
      <3> QED
        BY <1>1, <2>1, <3>2, AsideKeeps DEF Pending, At
    <2>3. CASE Alive # {}
      <3>1. Awaited'
        BY <1>1, <2>1 DEF Awaited, At
      <3>2. PICK p \in Pids : state[p] \in {"up", "dying"}
        BY <2>3 DEF Alive
      <3>3. CASE state[p] = "up"
        BY <2>1, <3>1, <3>3 DEF Served, Up
      <3>4. CASE state[p] = "dying"
        <4>1. PICK d \in Callers : At(d, "wait")
          BY <3>4 DEF Awaited
        <4>2. Pending(d)'
          BY <1>1, <2>1, <4>1 DEF Pending, At
        <4> QED
          BY <3>1, <4>2 DEF Served
      <3> QED
        BY <3>2, <3>3, <3>4
    <2> QED
      BY <2>2, <2>3
  <1>11. CASE Spawn(c)
    <2>1. PICK p \in Pids : /\ state[p] = "free" /\ state' = [state EXCEPT ![p] = "up"]
                            /\ At(c, "spawn")
      BY <1>2, <1>11 DEF Spawn
    <2>2. \A d \in Callers : At(d, "wait") => call'[d] = call[d]
      BY <1>1, <2>1 DEF At
    <2>3. state'[p] = "up" /\ \A q \in Pids : state'[q] = "dying" => state[q] = "dying"
      BY <2>1 DEF TypeOK
    <2>4. Awaited'
      BY <2>2, <2>3 DEF Awaited, At
    <2> QED
      BY <2>3, <2>4 DEF Served, Up
  <1>12. CASE Signal(c)
    <2>1. ~Return(c, "error")
      BY Records
    <2>2. /\ At(c, "signal") /\ SendTo(call[c].found \cap Found) /\ Goto(c, "wait")
      BY <1>12, <2>1 DEF Signal
    <2>3. call'[c].at = "wait" /\ call'[c].found = call[c].found
      BY <2>2, Records
    <2>4. \A d \in Callers : At(d, "wait") => call'[d] = call[d]
      BY <1>1, <2>2 DEF At
    <2>5. \A p \in Pids : state'[p] = "dying" => p \in call[c].found \/ state[p] = "dying"
      BY <2>2 DEF SendTo
    <2>6. Awaited'
      BY <2>3, <2>4, <2>5 DEF Awaited, At
    <2> QED
      BY <2>3, <2>6 DEF Served, Pending, At
  <1>13. CASE Wait(c)
    <2>1. /\ At(c, "wait") \/ At(c, "killed")
          /\ call[c].found \cap Alive = {} /\ state' = state /\ call[c].kind = "restart"
      BY <1>2, <1>13 DEF Wait, processVars, Fits, At
    <2>2. Goto(c, "scan")
      BY <1>13, <2>1 DEF Wait, Stopped
    <2>3. call'[c].at = "scan" /\ call'[c].kind = "restart"
      BY <2>1, <2>2, Records
    <2>4. Awaited'
      BY <1>1, <2>1 DEF Awaited, At, Alive
    <2> QED
      BY <2>3, <2>4 DEF Served, Pending, At
  <1>14. CASE Timeout(c)
    BY <1>2, <1>14 DEF Timeout
  <1> QED
    BY <1>3, <1>4, <1>5, <1>6, <1>7, <1>8, <1>9, <1>10, <1>11, <1>12, <1>13, <1>14 DEF Step

LEMMA FailuresStay ==
    ASSUME TypeOK, NEW c \in Callers, Begin(c) \/ Step(c), call[c].failed
    PROVE  call'[c].failed
  <1>1. \A stage : Goto(c, stage) => call'[c].failed
    BY Records
  <1>2. \A result : Return(c, result) => call'[c].failed
    BY Records
  <1>3. \A result : Stopped(c, result) => call'[c].failed
    BY <1>1, <1>2 DEF Stopped
  <1>4. Begin(c) => call'[c].failed
    BY DEF Begin, TypeOK
  <1>5. call[c] \in Call /\ call[c].failed
    BY DEF TypeOK
  <1>6. Stat(c) => call'[c].failed
    BY <1>5 DEF Stat, TypeOK, Call
  <1>7. ProbeEnd(c) => call'[c].failed
    BY <1>5 DEF ProbeEnd, TypeOK, Call
  <1>8. Lookup(c) => call'[c].failed
    BY <1>1, <1>5 DEF Lookup, TypeOK, Call
  <1>9. Exec(c) \/ Attest(c) => call'[c].failed
    BY <1>1, <1>2 DEF Exec, Attest
  <1>10. Scan(c) \/ Spawn(c) \/ Guard(c) \/ Signal(c) \/ Wait(c) \/ Timeout(c)
           => call'[c].failed
    BY <1>1, <1>2, <1>3 DEF Scan, Spawn, Guard, Signal, Wait, Timeout
  <1>11. Find(c) => call'[c].failed
    BY <1>1, <1>2, <1>3, <1>5 DEF Find, TypeOK, Call
  <1>12. HashCheck(c) => call'[c].failed
    BY <1>2, <1>5 DEF HashCheck, TypeOK, Call
  <1>13. LiveCheck(c) \/ Put(c) \/ Check(c) \/ Clear(c) \/ Install(c) \/ Verify(c) \/ Remove(c)
           => call'[c].failed
    BY <1>1, <1>2 DEF LiveCheck, Put, Check, Clear, Install, Verify, Remove
  <1> QED
    BY <1>4, <1>6, <1>7, <1>8, <1>9, <1>10, <1>11, <1>12, <1>13 DEF Step

LEMMA UpkeepKept ==
    ASSUME RuntimeAssumption, OnlyRestarts, TypeOK, KindsFit, Trust, Upkeep, [Next]_vars
    PROVE  Upkeep'
  <1>1. ASSUME NEW c \in Callers, Begin(c) \/ Step(c)
        PROVE  Upkeep'
    <2>1. probes' = {}
      BY <1>1 DEF Upkeep, OnlyRestarts, Begin, Step, Stat, ProbeEnd, Lookup, Exec, Attest,
         Scan, Spawn, Guard, Find, Signal, SendTo, Wait, Timeout, HashCheck, LiveCheck, Put,
         Check, Clear, Install, Verify, Remove
    <2>2. Sound'
      BY <1>1, SoundKept DEF Upkeep
    <2>3. ASSUME \A d \in Callers : ~call'[d].failed PROVE \A d \in Callers : ~call[d].failed
      <3>1. \A d \in Callers \ {c} : ~call[d].failed
        BY <1>1, <2>3, OthersKept
      <3>2. ~call[c].failed
        BY <1>1, <2>3, FailuresStay
      <3> QED
        BY <3>1, <3>2
    <2> QED
      BY <1>1, <2>1, <2>2, <2>3, UpkeepStep DEF Upkeep
  <1>2. ASSUME NEW p \in Pids, Exit(p)
        PROVE  Upkeep'
    <2>1. UNCHANGED <<tested, probes, call>>
      BY <1>2 DEF Exit, configVars
    <2>2. state[p] = "dying"
      <3>1. state[p] = "up" => loaded[p] \in Valid
        BY DEF Trust, RunsTestedConfig, Alive, Upkeep, Sound
      <3> QED
        BY <1>2, <3>1 DEF Exit, OnlyRestarts
    <2>3. state'[p] = "gone" /\ \A q \in Pids \ {p} : state'[q] = state[q]
      BY <1>2 DEF Exit, TypeOK
    <2>4. Up' = Up
      BY <2>2, <2>3 DEF Up
    <2> QED
      BY <2>1, <2>3, <2>4 DEF Upkeep, Sound, Awaited, Served, Pending, At
  <1>3. CASE Edit \/ UNCHANGED vars
    BY <1>3 DEF Edit, vars, processVars, Upkeep, Sound, Awaited, Served, Pending, At, Up
  <1> QED
    BY <1>1, <1>2, <1>3 DEF Next

(* When every call has returned and none has failed, a runtime that was    *)
(* announced runs, with any number of callers that run and restart: the    *)
(* last of them to scan after its signals finds what nobody will signal.   *)
THEOREM AnnouncedRuns ==
    ASSUME OnlyRestarts
    PROVE  Spec => []StaysUp
  <1> USE RuntimeAssumption
  <1>1. Init => Upkeep
    BY DEF Init, Upkeep, Sound, Awaited, Served, Announced, Pids
  <1>2. Types /\ KindsFit /\ Trust /\ Upkeep /\ [Next]_vars => Upkeep'
    BY UpkeepKept DEF Types
  <1>3. Upkeep => StaysUp
    BY DEF Upkeep, Served, Announced, Pending, StaysUp, Busy, At
  <1> QED
    BY <1>1, <1>2, <1>3, TrustInvariant, PTL DEF Spec, OnlyRestarts
-----------------------------------------------------------------------------
(* A stop that is not forced.                                              *)

(* A whole takeover has a runtime, so its status finds one, and it was     *)
(* laid after the guard's look at it.                                      *)
Carried == rules = "whole" => Alive # {}

Spared == \A c \in Callers : Passed(c) /\ c \notin unguarded => rules # "whole"

Spares == Carried /\ Spared

(* Only an apply makes a takeover whole, and a call takes no process away. *)
LEMMA Threats ==
    ASSUME TypeOK, NEW c \in Callers, Begin(c) \/ Step(c)
    PROVE  /\ rules' = "whole" => rules = "whole" \/ Install(c)
           /\ Alive \subseteq Alive'
  <1>1. rules' = "whole" => rules = "whole" \/ Install(c)
    BY DEF Begin, Step, Stat, ProbeEnd, Lookup, Exec, Attest, Scan, Spawn, Guard, Find,
       Signal, Wait, Timeout, HashCheck, LiveCheck, Put, Check, Clear, Verify, Remove,
       takeoverVars
  <1>2. CASE UNCHANGED state
    BY <1>1, <1>2 DEF Alive
  <1>3. CASE \E pids : SendTo(pids) /\ pids \subseteq Found
    BY <1>1, <1>3 DEF Alive, SendTo, Found, TypeOK
  <1>4. CASE Spawn(c)
    BY <1>1, <1>4 DEF Spawn, Alive, TypeOK, processVars
  <1>5. Signal(c) => \E pids : SendTo(pids) /\ pids \subseteq Found
    <2>1. ASSUME NEW pids \in SUBSET (call[c].found \cap Found), SendTo(pids)
          PROVE  \E sent : SendTo(sent) /\ sent \subseteq Found
      BY <2>1
    <2>2. SendTo(call[c].found \cap Found)
            => \E sent : SendTo(sent) /\ sent \subseteq Found
      OBVIOUS
    <2> QED
      BY <2>1, <2>2 DEF Signal
  <1>6. Timeout(c) => UNCHANGED state \/ \E pids : SendTo(pids) /\ pids \subseteq Found
    <2>1. SendTo(call[c].found \cap Found)
            => \E sent : SendTo(sent) /\ sent \subseteq Found
      OBVIOUS
    <2> QED
      BY <2>1 DEF Timeout, processVars
  <1> QED
    BY <1>2, <1>3, <1>4, <1>5, <1>6
    DEF Begin, Step, Stat, ProbeEnd, Lookup, Exec, Attest, Scan, Guard, Find, Wait,
        HashCheck, LiveCheck, Put, Check, Clear, Install, Verify, Remove, processVars

(* Who is excused stays so until its next call, and an apply excuses every *)
(* stop that it finds past its guard.                                      *)
LEMMA Excuses ==
    ASSUME TypeOK, NEW c \in Callers, Begin(c) \/ Step(c)
    PROVE  /\ \A d \in unguarded : d # c => d \in unguarded'
           /\ Install(c) => \A d \in Callers : Passed(d) => d \in unguarded'
  BY DEF Begin, Step, Stat, ProbeEnd, Lookup, Exec, Attest, Scan, Spawn, Guard, Find,
     Signal, Wait, Timeout, HashCheck, LiveCheck, Put, Check, Clear, Install, Verify, Remove,
     takeoverVars

(* A call comes to these stages by the guard, or it is forced.             *)
LEMMA PassedKept ==
    ASSUME RuntimeAssumption, TypeOK, KindsFit, Spares, NEW c \in Callers,
           Begin(c) \/ Step(c), Passed(c)', c \notin unguarded'
    PROVE  rules' # "whole"
  <1>1. ~Begin(c)
    <2> SUFFICES ASSUME Begin(c) PROVE FALSE
      OBVIOUS
    <2>1. PICK kind \in Kinds[c], force \in Forcing :
             /\ call'[c].kind = kind /\ call'[c].force = force
             /\ call'[c].at = Entrance(kind, force)
      BY DEF Begin, TypeOK
    <2> QED
      BY <2>1 DEF Passed, Entrance, At
  <1>2. Leads(c) /\ call'[c].kind = "stop"
    BY <1>1, Moved DEF Passed
  <1>3. CASE Guard(c)
    <2>1. ~Effective
      BY <1>3, Records DEF Guard, Passed, At
    <2>2. rules # "whole"
      BY <2>1 DEF Effective, Found, Spares, Carried
    <2> QED
      BY <1>3, <2>2 DEF Guard
  <1>4. CASE Find(c)
    <2>1. UNCHANGED <<rules, unguarded>>
      BY <1>4 DEF Find, takeoverVars
    <2>2. call'[c].force = call[c].force /\ call'[c].kind = call[c].kind
      <3>1. call' = [call EXCEPT ![c].found = Found, ![c].at = "signal"]
        BY <1>2, <1>4, Records DEF Find, Stopped, Passed, At
      <3> QED
        BY <3>1 DEF TypeOK, Call
    <2>3. Passed(c)
      BY <1>2, <1>4, <2>2 DEF Find, Passed
    <2> QED
      BY <2>1, <2>3 DEF Spares, Spared
  <1>5. ASSUME ~Guard(c), ~Find(c) PROVE FALSE
    <2>1. ~At(c, "guard") /\ ~At(c, "find")
      BY <1>1, <1>5 DEF Step, At, Stat, ProbeEnd, Lookup, Exec, Attest, Scan, Spawn, Signal,
         Wait, Timeout, HashCheck, LiveCheck, Put, Check, Clear, Install, Verify, Remove
    <2> QED
      BY <1>1, <1>2, <2>1, Moved DEF Leads, KindsFit, Fits, Passed, At, AfterValidation
  <1> QED
    BY <1>3, <1>4, <1>5

LEMMA SparesKept ==
    ASSUME RuntimeAssumption, TypeOK, KindsFit, Spares, [Next]_vars
    PROVE  Spares'
  <1>1. ASSUME NEW c \in Callers, Begin(c) \/ Step(c)
        PROVE  Spares'
    <2>1. Carried'
      <3>1. CASE Install(c)
        BY <3>1 DEF Install, Extents, Carried, Alive, processVars
      <3>2. CASE ~Install(c)
        BY <1>1, <3>2, Threats DEF Spares, Carried
      <3> QED
        BY <3>1, <3>2
    <2>2. ASSUME NEW d \in Callers, Passed(d)', d \notin unguarded'
          PROVE  rules' # "whole"
      <3>1. CASE d = c
        BY <1>1, <2>2, <3>1, PassedKept
      <3>2. CASE d # c
        <4>1. Passed(d)
          BY <1>1, <2>2, <3>2, OthersKept DEF Passed, At
        <4>2. d \notin unguarded /\ ~Install(c)
          BY <1>1, <2>2, <3>2, <4>1, Excuses
        <4>3. rules # "whole"
          BY <4>1, <4>2 DEF Spares, Spared
        <4> QED
          BY <1>1, <4>2, <4>3, Threats
      <3> QED
        BY <3>1, <3>2
    <2> QED
      BY <2>1, <2>2 DEF Spares, Spared
  <1>2. ASSUME NEW p \in Pids, Exit(p)
        PROVE  Spares'
    <2>1. UNCHANGED <<unguarded, call>>
      BY <1>2 DEF Exit
    <2>2. rules' = "whole" => rules = "whole" /\ Alive # {p}
      BY <1>2 DEF Exit
    <2>3. Alive' = Alive \ {p}
      BY <1>2 DEF Exit, Alive, TypeOK
    <2> QED
      BY <2>1, <2>2, <2>3 DEF Spares, Carried, Spared, Passed, At
  <1>3. CASE Edit \/ UNCHANGED vars
    BY <1>3 DEF Edit, vars, takeoverVars, processVars, Spares, Carried, Spared, Passed, At,
       Alive
  <1> QED
    BY <1>1, <1>2, <1>3 DEF Next

(* A stop that is not forced takes no runtime from a whole takeover that   *)
(* its guard could see, whoever starts, stops, tests, routes and releases  *)
(* beside it and whatever exits.                                           *)
THEOREM TakeoverSpared == Spec => StopSparesTakeover
  <1> USE RuntimeAssumption
  <1>1. Init => Spares
    BY DEF Init, Spares, Carried, Spared, Passed, At
  <1>2. Types /\ KindsFit /\ Spares /\ [Next]_vars => Spares'
    BY SparesKept DEF Types
  <1>3. Spares => [\A c \in Callers :
            call[c].kind = "stop" /\ ~call[c].force /\ At(c, "signal") /\ ~At(c, "signal")'
              => rules # "whole" \/ call[c].found \cap Up = {} \/ c \in unguarded]_vars
    BY DEF Spares, Spared, Passed
  <1>4. Init => KindsFit
    BY DEF Init, KindsFit, Fits, At
  <1>5. Types /\ KindsFit /\ [Next]_vars => KindsFit'
    BY FitsKept DEF Types
  <1> QED
    BY <1>1, <1>2, <1>3, <1>4, <1>5, TypeCorrect, PTL DEF Spec, StopSparesTakeover
=============================================================================
