-------------------------- MODULE RuntimeLifecycle --------------------------
(***************************************************************************)
(* The Mihomo runtime and the calls that start, stop, restart, reload and  *)
(* validate it, and that route the router's traffic into it.  Nothing      *)
(* serialises them: the server runs each call in a goroutine of its own,   *)
(* the CLI in another process, and what they share is the process table,   *)
(* the generated config, the validation cache and the attestation file.    *)
(*                                                                         *)
(* Sources: internal/corerun (Start, Restart, hotReload, Stop, the scan of *)
(* /proc), internal/mihomotest (ValidateCached, Test, the attestation),    *)
(* internal/mcp/server.go (stop_runtime's takeover guard) and              *)
(* internal/routertakeover (Apply, Status, Stop).                          *)
(*                                                                         *)
(* Abstractions.  The config's bytes are a value of Configs and their hash *)
(* is that value; size and mtime are a stamp no two writes share.  The     *)
(* core binary does not change.  Pids are not reused.  What the core       *)
(* thinks of a config depends on the config alone.                         *)
(***************************************************************************)
EXTENDS Naturals, FiniteSets

CONSTANTS
    Callers,    \* concurrent calls: MCP requests, tasks, CLI processes
    Kinds,      \* [Callers -> SUBSET AllKinds]: the calls each may make
    Configs,    \* contents of the generated config
    Valid,      \* those the core accepts
    NoConfig,   \* no hash taken, no attestation, no config loaded
    MaxPids,    \* bound: processes ever started
    MaxCalls,   \* bound: calls
    MaxEdits,   \* bound: rewrites of the generated config
    BusyEdits,  \* whether the config is rewritten while calls are running
    Forcing,    \* \subseteq BOOLEAN: values of force and force_config_test
    SlowProbe,  \* whether a scan can meet the `core -v' of a validation
    Faults      \* whether processes crash or hang and tests or starts fail

AllKinds == {"run", "restart", "reload", "stop", "test", "apply", "release"}

Pids == 1 .. MaxPids

(* A caller also stands for the process of its `core -v'.                  *)
ASSUME RuntimeAssumption ==
    /\ Pids \cap Callers = {}
    /\ Kinds \in [Callers -> SUBSET AllKinds]
    /\ Valid \subseteq Configs
    /\ NoConfig \notin Configs
    /\ {MaxPids, MaxCalls, MaxEdits} \subseteq Nat
    /\ Forcing \subseteq BOOLEAN
    /\ {BusyEdits, SlowProbe, Faults} \subseteq BOOLEAN

VARIABLES
    disk,      \* the generated config: bytes and stamp
    cache,     \* entries of mihomo-test-cache.json
    attested,  \* config_sha256 of config-test-attestation.json
    tested,    \* history: the bytes that passed a `core -t'
    state,     \* of each process
    loaded,    \* the config each process runs
    probes,    \* callers whose `core -v' is running
    rules,     \* how much of the takeover is installed: rules and routes
    unguarded, \* history: stops whose guard a whole takeover slipped past
    call,      \* local state of each caller's call
    calls      \* calls made

configVars == <<disk, cache, attested, tested>>
processVars == <<state, loaded>>
takeoverVars == <<rules, unguarded>>
vars == <<disk, cache, attested, tested, state, loaded, probes, rules, unguarded, call, calls>>

(* Where a call is.                                                        *)
Stages == {"idle", "scan", "stat", "probe", "lookup", "exec", "attest", "spawn",
           "find", "signal", "wait", "killed", "hash", "live", "put", "guard",
           "check", "clear", "install", "verify", "remove"}

Results == {"none", "started", "restarted", "already", "reloaded", "stopped",
            "nothing", "refused", "passed", "applied", "released", "invalid",
            "error"}

(* failed is history: whether one of the caller's calls ended in an error. *)
Call == [kind : AllKinds \cup {"none"}, force : BOOLEAN, fresh : BOOLEAN,
         at : Stages, stamp : 0 .. MaxEdits, version : BOOLEAN,
         sha : Configs \cup {NoConfig}, found : SUBSET (Pids \cup Callers),
         out : Results, failed : BOOLEAN]

Entry == [stamp : 0 .. MaxEdits, sha : Configs, version : BOOLEAN, passed : BOOLEAN]

TypeOK ==
    /\ disk \in [bytes : Configs, stamp : 0 .. MaxEdits]
    /\ cache \subseteq Entry
    /\ attested \in Configs \cup {NoConfig}
    /\ tested \subseteq Configs
    /\ state \in [Pids -> {"free", "up", "dying", "gone"}]
    /\ loaded \in [Pids -> Configs \cup {NoConfig}]
    /\ probes \subseteq Callers
    /\ rules \in {"none", "part", "whole"}
    /\ unguarded \subseteq Callers
    /\ call \in [Callers -> Call]
    /\ calls \in 0 .. MaxCalls

-----------------------------------------------------------------------------
(* The process table.                                                      *)

(* A process that was signalled is there until it exits.                   *)
Alive == {p \in Pids : state[p] \in {"up", "dying"}}

Up == {p \in Pids : state[p] = "up"}

(* findManagedRuntimeProcesses: the processes with the core's name, less   *)
(* those with a `-t' argument, and so the `core -v' probes too.            *)
Found == Alive \cup probes

At(c, stage) == call[c].at = stage

Goto(c, stage) == call' = [call EXCEPT ![c].at = stage]

(* What a returned call remembers is what the properties ask of it.        *)
Return(c, result) ==
    call' = [call EXCEPT ![c] =
               [call[c] EXCEPT !.at = "idle", !.out = result, !.fresh = FALSE,
                               !.stamp = 0, !.version = TRUE, !.sha = NoConfig,
                               !.failed = call[c].failed \/ result = "error"]]

Busy == \E c \in Callers : ~At(c, "idle")

Init ==
    /\ \E v \in Valid :
          /\ disk = [bytes |-> v, stamp |-> 0]
          /\ tested = {v}
          /\ \/ /\ state = [p \in Pids |-> "free"]
                /\ loaded = [p \in Pids |-> NoConfig]
             \/ /\ state = [p \in Pids |-> IF p = 1 THEN "up" ELSE "free"]
                /\ loaded = [p \in Pids |-> IF p = 1 THEN v ELSE NoConfig]
    /\ cache = {}
    /\ attested = NoConfig
    /\ probes = {}
    /\ rules = "none"
    /\ unguarded = {}
    /\ call = [c \in Callers |->
                 [kind |-> "none", force |-> FALSE, fresh |-> FALSE, at |-> "idle",
                  stamp |-> 0, version |-> TRUE, sha |-> NoConfig, found |-> {},
                  out |-> "none", failed |-> FALSE]]
    /\ calls = 0

(* The first step of each call.                                            *)
Entrance(kind, force) ==
    CASE kind = "run" -> "scan"
      [] kind \in {"restart", "test"} -> "stat"
      [] kind = "reload" -> "hash"
      [] kind = "stop" -> IF force THEN "find" ELSE "guard"
      [] kind = "apply" -> "check"
      [] kind = "release" -> "remove"

(* mihomo_config_test always forces its validation.                        *)
Begin(c) ==
    /\ At(c, "idle")
    /\ calls < MaxCalls
    /\ calls' = calls + 1
    /\ \E kind \in Kinds[c], force, fresh \in Forcing :
          call' = [call EXCEPT ![c] =
                     [kind |-> kind, force |-> force, fresh |-> fresh \/ kind = "test",
                      at |-> Entrance(kind, force), stamp |-> 0, version |-> TRUE,
                      sha |-> NoConfig, found |-> {}, out |-> "none",
                      failed |-> call[c].failed]]
    /\ unguarded' = unguarded \ {c}
    /\ UNCHANGED <<configVars, processVars, probes, rules>>

-----------------------------------------------------------------------------
(* ValidateCached and Test.                                                *)

(* buildInputMetadata: stat the config, then ask the core its version.     *)
Stat(c) ==
    /\ At(c, "stat")
    /\ call' = [call EXCEPT ![c].stamp = disk.stamp,
                            ![c].at = IF SlowProbe THEN "probe" ELSE "lookup"]
    /\ probes' = IF SlowProbe THEN probes \cup {c} ELSE probes
    /\ UNCHANGED <<configVars, processVars, takeoverVars, calls>>

(* A probe that another call killed leaves the version empty.              *)
ProbeEnd(c) ==
    /\ At(c, "probe")
    /\ call' = [call EXCEPT ![c].version = (c \in probes), ![c].at = "lookup"]
    /\ probes' = probes \ {c}
    /\ UNCHANGED <<configVars, processVars, takeoverVars, calls>>

SameStamp(c) ==
    {e \in cache : e.stamp = call[c].stamp /\ e.version = call[c].version}
SameHash(c) ==
    {e \in cache : e.sha = disk.bytes /\ e.version = call[c].version}

(* Seeded fault: a cached failure counts as a hit.                         *)
BugHit(matching) == matching # {}

(* One entry that matches decides: the newest, which matters only when the *)
(* config was rewritten between a stat and a hash, and is any of them here.*)
Hit(matching) == \E e \in matching : e.passed
Miss(matching) == matching = {} \/ \E e \in matching : ~e.passed

(* Where a call goes once its config is validated.                         *)
AfterValidation(kind) ==
    CASE kind = "run" -> "spawn" [] kind = "restart" -> "find" [] OTHER -> "attest"

(* Seeded fault: a forced validation takes no fingerprint.                 *)
BugLookup(c) ==
    /\ At(c, "lookup")
    /\ Goto(c, IF call[c].fresh THEN "exec" ELSE AfterValidation(call[c].kind))
    /\ UNCHANGED <<configVars, processVars, probes, takeoverVars, calls>>

(* findCachedValidationByMetadata, then buildFingerprintWithMetadata and   *)
(* findCachedValidation: a hit by stamp trusts bytes it never reads.       *)
Lookup(c) ==
    /\ At(c, "lookup")
    /\ \/ /\ ~call[c].fresh
          /\ Hit(SameStamp(c)) \/ Hit(SameHash(c))
          /\ Goto(c, AfterValidation(call[c].kind))
       \/ /\ call[c].fresh \/ (Miss(SameStamp(c)) /\ Miss(SameHash(c)))
          /\ call' = [call EXCEPT ![c].sha = disk.bytes, ![c].at = "exec"]
    /\ UNCHANGED <<configVars, processVars, probes, takeoverVars, calls>>

(* The cache with a new entry, instead of one of the same bytes and core.  *)
Recorded(entry) ==
    {e \in cache : e.sha # entry.sha \/ e.version # entry.version} \cup {entry}

(* Seeded fault: the verdict is not looked at.                             *)
BugExec(c) ==
    /\ At(c, "exec")
    /\ Goto(c, AfterValidation(call[c].kind))
    /\ UNCHANGED <<configVars, processVars, probes, takeoverVars, calls>>

(* `core -t' reads the config again; the verdict is cached under the hash  *)
(* taken before.  A run that times out fails.                              *)
Exec(c) ==
    /\ At(c, "exec")
    /\ \E passed \in {disk.bytes \in Valid} \cup (IF Faults THEN {FALSE} ELSE {}) :
          /\ cache' = Recorded([stamp |-> call[c].stamp, sha |-> call[c].sha,
                                version |-> call[c].version, passed |-> passed])
          /\ tested' = IF passed THEN tested \cup {disk.bytes} ELSE tested
          /\ IF passed THEN Goto(c, AfterValidation(call[c].kind))
             ELSE Return(c, "invalid")
    /\ UNCHANGED <<disk, attested, processVars, probes, takeoverVars, calls>>

(* WriteAttestation, with the hash of the validation.                      *)
Attest(c) ==
    /\ At(c, "attest")
    /\ attested' = call[c].sha
    /\ Return(c, "passed")
    /\ UNCHANGED <<disk, cache, tested, processVars, probes, takeoverVars, calls>>

-----------------------------------------------------------------------------
(* Start.                                                                  *)

(* Seeded fault: a process that is going down is not counted.              *)
BugScan(c) ==
    /\ At(c, "scan")
    /\ IF Up # {} THEN Return(c, "already")
       ELSE Goto(c, IF call[c].kind = "run" THEN "stat" ELSE "spawn")
    /\ UNCHANGED <<configVars, processVars, probes, takeoverVars, calls>>

(* Any process found is taken for the runtime.                             *)
Scan(c) ==
    /\ At(c, "scan")
    /\ IF Found # {} THEN Return(c, "already")
       ELSE Goto(c, IF call[c].kind = "run" THEN "stat" ELSE "spawn")
    /\ UNCHANGED <<configVars, processVars, probes, takeoverVars, calls>>

(* The new process reads the config as it is now; opening the log or the   *)
(* exec may fail.                                                          *)
Spawn(c) ==
    /\ At(c, "spawn")
    /\ \/ \E p \in Pids :
             /\ state[p] = "free"
             /\ \A q \in Pids : q < p => state[q] # "free"
             /\ state' = [state EXCEPT ![p] = "up"]
             /\ loaded' = [loaded EXCEPT ![p] = disk.bytes]
             /\ Return(c, IF call[c].kind = "run" THEN "started" ELSE "restarted")
       \/ /\ Faults
          /\ Return(c, "error")
          /\ UNCHANGED processVars
    /\ UNCHANGED <<configVars, probes, takeoverVars, calls>>

(* A signalled process exits when it likes, one with a config the core     *)
(* rejects exits by itself, and any may crash.  The process that has the   *)
(* TUN device takes it along, and with it the route of a takeover.         *)
Exit(p) ==
    /\ \/ state[p] = "dying"
       \/ state[p] = "up" /\ (loaded[p] \notin Valid \/ Faults)
    /\ state' = [state EXCEPT ![p] = "gone"]
    /\ \/ UNCHANGED rules /\ (rules # "whole" \/ Alive # {p})
       \/ rules = "whole" /\ rules' = "part"
    /\ UNCHANGED <<configVars, loaded, probes, unguarded, call, calls>>

-----------------------------------------------------------------------------
(* Stop, which is also the second step of Restart.                         *)

(* What follows a stop that left nothing running.                          *)
Stopped(c, result) ==
    IF call[c].kind = "stop" THEN Return(c, result) ELSE Goto(c, "scan")

(* Seeded fault: the takeover is not looked at.                            *)
BugGuard(c) ==
    /\ At(c, "guard")
    /\ Goto(c, "find")
    /\ UNCHANGED <<configVars, processVars, probes, takeoverVars, calls>>

(* The checks of the takeover's status: the runtime is there, and all of   *)
(* the rules and routes.                                                   *)
Effective == rules = "whole" /\ Found # {}

(* The guard of stop_runtime refuses while the takeover is effective.  A   *)
(* takeover of which one part is missing does not stop a stop, nor does    *)
(* one whose status cannot be read.                                        *)
Guard(c) ==
    /\ At(c, "guard")
    /\ \/ Effective /\ Return(c, "refused") /\ UNCHANGED unguarded
       \/ ~Effective /\ Goto(c, "find") /\ UNCHANGED unguarded
       \/ Effective /\ Faults /\ Goto(c, "find") /\ unguarded' = unguarded \cup {c}
    /\ UNCHANGED <<configVars, processVars, probes, rules, calls>>

(* A stop that its guard has let pass, until it signals.                   *)
Passed(c) ==
    call[c].kind = "stop" /\ ~call[c].force /\ (At(c, "find") \/ At(c, "signal"))

Find(c) ==
    /\ At(c, "find")
    /\ IF Found = {} THEN Stopped(c, "nothing")
       ELSE call' = [call EXCEPT ![c].found = Found, ![c].at = "signal"]
    /\ UNCHANGED <<configVars, processVars, probes, takeoverVars, calls>>

(* A probe dies of a signal at once.                                       *)
SendTo(pids) ==
    /\ state' = [p \in Pids |-> IF p \in pids THEN "dying" ELSE state[p]]
    /\ probes' = probes \ pids
    /\ UNCHANGED loaded

(* SIGTERM in pid order, giving up at the first that has exited, unless it *)
(* is a zombie, which takes the signal.  The order of pids is not that of  *)
(* starts.                                                                 *)
Signal(c) ==
    /\ At(c, "signal")
    /\ \/ SendTo(call[c].found \cap Found) /\ Goto(c, "wait")
       \/ /\ ~(call[c].found \subseteq Found)
          /\ \E pids \in SUBSET (call[c].found \cap Found) :
                SendTo(pids) /\ Return(c, "error")
    /\ UNCHANGED <<configVars, takeoverVars, calls>>

(* Seeded fault: the wait ends at once.                                    *)
BugWait(c) ==
    /\ At(c, "wait") \/ At(c, "killed")
    /\ Stopped(c, "stopped")
    /\ UNCHANGED <<configVars, processVars, probes, takeoverVars, calls>>

(* waitForAllExit sees every process of the scan gone.                     *)
Wait(c) ==
    /\ At(c, "wait") \/ At(c, "killed")
    /\ call[c].found \cap Found = {}
    /\ Stopped(c, "stopped")
    /\ UNCHANGED <<configVars, processVars, probes, takeoverVars, calls>>

(* Seeded fault: a wait that is not forced has no deadline.                *)
BugTimeout(c) ==
    /\ At(c, "wait") /\ Faults /\ call[c].force
    /\ call[c].found \cap Found # {}
    /\ SendTo(call[c].found \cap Found)
    /\ Goto(c, "killed")
    /\ UNCHANGED <<configVars, takeoverVars, calls>>

(* It runs out of time: SIGKILL and a second wait when forced, an error    *)
(* otherwise.                                                              *)
Timeout(c) ==
    /\ At(c, "wait") \/ At(c, "killed")
    /\ Faults
    /\ call[c].found \cap Found # {}
    /\ IF At(c, "wait") /\ call[c].force
       THEN SendTo(call[c].found \cap Found) /\ Goto(c, "killed")
       ELSE Return(c, "error") /\ UNCHANGED <<processVars, probes>>
    /\ UNCHANGED <<configVars, takeoverVars, calls>>

-----------------------------------------------------------------------------
(* hotReload.                                                              *)

(* Seeded fault: an attestation of other bytes will do.                    *)
BugHashCheck(c) ==
    /\ At(c, "hash")
    /\ IF ~call[c].fresh /\ attested # NoConfig
       THEN call' = [call EXCEPT ![c].sha = disk.bytes, ![c].at = "live"]
       ELSE Return(c, "error")
    /\ UNCHANGED <<configVars, processVars, probes, takeoverVars, calls>>

(* force_config_test is refused, and the bytes have to be the attested.    *)
(* No tool or command passes hotReload a hash of its own to accept.        *)
HashCheck(c) ==
    /\ At(c, "hash")
    /\ IF ~call[c].fresh /\ disk.bytes = attested
       THEN call' = [call EXCEPT ![c].sha = disk.bytes, ![c].at = "live"]
       ELSE Return(c, "error")
    /\ UNCHANGED <<configVars, processVars, probes, takeoverVars, calls>>

LiveCheck(c) ==
    /\ At(c, "live")
    /\ IF Found = {} THEN Return(c, "error") ELSE Goto(c, "put")
    /\ UNCHANGED <<configVars, processVars, probes, takeoverVars, calls>>

(* PUT /configs: a runtime that is up reads the file at that moment and    *)
(* keeps its old config when it rejects it.  The answer may be lost.       *)
Put(c) ==
    /\ At(c, "put")
    /\ \/ \E p \in Up :
             /\ disk.bytes \in Valid
             /\ loaded' = [loaded EXCEPT ![p] = disk.bytes]
             /\ \/ Return(c, "reloaded")
                \/ Faults /\ Return(c, "error")
       \/ /\ Up = {} \/ disk.bytes \notin Valid \/ Faults
          /\ Return(c, "error")
          /\ UNCHANGED loaded
    /\ UNCHANGED <<configVars, state, probes, takeoverVars, calls>>

-----------------------------------------------------------------------------
(* router_takeover_apply and router_takeover_stop.                         *)

Check(c) ==
    /\ At(c, "check")
    /\ IF Found = {} THEN Return(c, "error") ELSE Goto(c, "clear")
    /\ UNCHANGED <<configVars, processVars, probes, takeoverVars, calls>>

(* The script removes the old rules before it lays new ones.               *)
Clear(c) ==
    /\ At(c, "clear")
    /\ rules' = IF rules = "none" THEN "none" ELSE "part"
    /\ Goto(c, "install")
    /\ UNCHANGED <<configVars, processVars, probes, unguarded, calls>>

(* What can be laid: a route needs the device of a runtime.                *)
Extents == {"none", "part"} \cup (IF Alive = {} THEN {} ELSE {"whole"})

(* A script that ends well may have met another call's script, and one     *)
(* that fails leaves whatever it had come to.                              *)
Install(c) ==
    /\ At(c, "install")
    /\ rules' \in Extents
    /\ Goto(c, "verify") \/ (Faults /\ Return(c, "error"))
    /\ unguarded' = unguarded \cup {d \in Callers : Passed(d)}
    /\ UNCHANGED <<configVars, processVars, probes, calls>>

(* A verification that fails leaves the rules where they are.              *)
Verify(c) ==
    /\ At(c, "verify")
    /\ \/ Return(c, IF Effective THEN "applied" ELSE "error")
       \/ Faults /\ Return(c, "error")
    /\ UNCHANGED <<configVars, processVars, probes, takeoverVars, calls>>

Remove(c) ==
    /\ At(c, "remove")
    /\ \/ rules' = "none" /\ Return(c, "released")
       \/ /\ Faults /\ Return(c, "error")
          /\ rules' = rules \/ (rules # "none" /\ rules' \in {"none", "part"})
    /\ UNCHANGED <<configVars, processVars, probes, unguarded, calls>>

-----------------------------------------------------------------------------
(* Renders and other writers of the generated config.                      *)
Edit ==
    /\ disk.stamp < MaxEdits
    /\ BusyEdits \/ ~Busy
    /\ \E v \in Configs : disk' = [bytes |-> v, stamp |-> disk.stamp + 1]
    /\ UNCHANGED <<cache, attested, tested, processVars, probes, takeoverVars, call, calls>>

Step(c) ==
    \/ Stat(c) \/ ProbeEnd(c) \/ Lookup(c) \/ Exec(c) \/ Attest(c)
    \/ Scan(c) \/ Spawn(c)
    \/ Guard(c) \/ Find(c) \/ Signal(c) \/ Wait(c) \/ Timeout(c)
    \/ HashCheck(c) \/ LiveCheck(c) \/ Put(c)
    \/ Check(c) \/ Clear(c) \/ Install(c) \/ Verify(c) \/ Remove(c)

Next ==
    \/ \E c \in Callers : Begin(c) \/ Step(c)
    \/ \E p \in Pids : Exit(p)
    \/ Edit

Spec == Init /\ [][Next]_vars

(* A call's goroutine runs on; nothing is assumed of the processes.        *)
FairSpec == Spec /\ \A c \in Callers : WF_vars(Step(c))

-----------------------------------------------------------------------------
(* At most one core runs: the two of a double start would fight over the   *)
(* controller port, the TUN device and the router's traffic.  Start scans  *)
(* and spawns in two steps and a restart spawns after a stop, so this      *)
(* takes one caller that starts runtimes at a time.                        *)
OneRuntime == Cardinality(Alive) <= 1

(* What a stop or a restart reported stopped is dead, however long it took *)
(* to die and whoever else was signalling it.                              *)
StoppedIsDead ==
    \A c \in Callers :
        At(c, "idle") /\ call[c].out \in {"stopped", "restarted"}
          => call[c].found \cap Alive = {}

(* No core runs a config that no `core -t' has passed, whether it was      *)
(* started on it, after a test or on the word of the cache, or told to     *)
(* reload it on the word of the attestation.                               *)
RunsTestedConfig == \A p \in Alive : loaded[p] \in tested

(* The hash of the attestation and of every passing cache entry is the     *)
(* hash of bytes that passed: later calls skip the test on their word.     *)
VerdictsAreTrue ==
    /\ attested \in tested \cup {NoConfig}
    /\ \A e \in cache : e.passed => e.sha \in tested

(* When every call has returned and none has failed, the runtime that some *)
(* run or restart announced is there: no two of them leave the start to    *)
(* each other, or to a process the other is taking down.                   *)
StaysUp ==
    (/\ ~Busy
     /\ \E c \in Callers : call[c].out \in {"started", "restarted", "already"}
     /\ \A c \in Callers : ~call[c].failed) => Up # {}

(* A restart signals the old runtime only when the config it is going to   *)
(* start passed: a bad config never takes the service down.                *)
RestartSparesRuntime ==
    [][\A c \in Callers :
          call[c].kind = "restart" /\ At(c, "signal") /\ ~At(c, "signal")'
             => disk.bytes \in tested]_vars

(* A stop that is not forced signals no runtime while a whole takeover     *)
(* sends the router's traffic to it, unless the takeover was laid between  *)
(* the guard's look and the signal or its status could not be read: no     *)
(* exit, reload, restart or half-done script lets one through.             *)
StopSparesTakeover ==
    [][\A c \in Callers :
          call[c].kind = "stop" /\ ~call[c].force /\ At(c, "signal") /\ ~At(c, "signal")'
             => rules # "whole" \/ call[c].found \cap Up = {} \/ c \in unguarded]_vars

(* Every call returns, whatever the processes it waits for do.             *)
CallsReturn == \A c \in Callers : ~At(c, "idle") ~> At(c, "idle")
=============================================================================
