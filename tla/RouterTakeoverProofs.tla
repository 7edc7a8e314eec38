------------------------ MODULE RouterTakeoverProofs ------------------------
(***************************************************************************)
(* What TLAPS proves of RouterTakeover, for any callers and requests, for  *)
(* any number of calls and of mishaps, and from whatever state calls that  *)
(* overlapped, were killed or lost their rules have left: what a call that *)
(* nothing disturbs answers is true of the rules.                          *)
(***************************************************************************)
EXTENDS RouterTakeover, TLAPS

Steps == {"service", "choose", "verify", "checks", "done"} \union ScriptSteps

CallRecords ==
    [service : {r.service : r \in Requests}, guarded : BOOLEAN \union {r.guarded : r \in Requests},
     takeover : {r.takeover : r \in Requests},
     pc : Steps, base : Nat, then : {"tun", "verify", "failed", "done"},
     seen : BOOLEAN, applied : BOOLEAN, stopped : BOOLEAN, refused : BOOLEAN,
     error : {"none", "service", "refused", "check", "script", "killed", "verification"},
     alone : BOOLEAN]

Types ==
    /\ body \in [OwnChains -> Int] /\ jumps \in [BaseChains -> Nat]
    /\ call \in [Callers -> {Idle} \union CallRecords]

(* A call that is not at its end has no answer yet, and a cleanup ends     *)
(* where the call that it is a part of goes on.                            *)
Control(c) ==
    /\ c.pc # "done" => ~c.applied /\ ~c.stopped /\ ~c.refused /\ c.error = "none"
    /\ c.pc \in {"check"} \union ApplySteps => c.takeover = "enabled"
    /\ c.pc \in CleanupSteps =>
          c.then \in IF c.takeover = "enabled" THEN {"tun", "failed"} ELSE {"verify"}

NoJumps == \A b \in BaseChains : jumps[b] = 0
NoBodies == \A c \in OwnChains : body[c] = NoChain
Routed == ipRules = 1 /\ route

(* All that an apply installs; there may be no resolvers to bypass.        *)
Complete ==
    /\ sets = Sets
    /\ \A c \in OwnChains : body[c] = 1
    /\ \A b \in BaseChains : jumps[b] = 1
    /\ Routed
    /\ files \ {"local_dns4"} = {"local_domains", "status"}

(* How far the scripts of a call that nothing disturbed have come: what    *)
(* its cleanup has removed, what its apply has added to nothing, and what  *)
(* it is going to answer.                                                  *)
Cleaned(c) ==
    /\ c.pc = "jumps" =>
          c.base \in DOMAIN Bases /\ \A i \in 1..(c.base - 1) : jumps[Bases[i]] = 0
    /\ c.pc \in {"chains", "sets", "ip", "files"} => NoJumps
    /\ c.pc \in {"sets", "ip", "files"} => NoBodies
    /\ c.pc \in {"ip", "files"} => sets = {}
    /\ c.pc = "files" => ipRules = 0 /\ ~route
    /\ c.pc \in {"tun", "domains"} => NothingLeft

Added(c) ==
    /\ c.pc \in {"rule", "add", "base", "dns", "takeover"} => NoJumps /\ NoBodies
    /\ c.pc \in {"rule", "add", "base"} => sets = {}
    /\ c.pc \in {"dns", "takeover", "post", "status"} => sets = Sets
    /\ c.pc \in {"rule", "add"} => ~route
    /\ c.pc = "add" => ipRules = 0
    /\ c.pc \in {"base", "dns", "takeover", "post", "status"} => Routed
    /\ c.pc \in {"rule", "add", "base", "dns"} => files = {"local_domains"}
    /\ c.pc \in {"takeover", "post", "status"} => files \ {"local_dns4"} = {"local_domains"}
    /\ c.pc \in {"post", "status"} => \A o \in OwnChains : body[o] = 1
    /\ c.pc = "post" => \A b \in BaseChains : jumps[b] = IF b = "nat_output" THEN 0 ELSE 1
    /\ c.pc = "status" => \A b \in BaseChains : jumps[b] = 1

Answers(c) ==
    /\ c.pc \in {"verify", "checks"} =>
          IF c.takeover = "enabled" THEN Complete ELSE NothingLeft
    /\ c.pc = "checks" /\ c.seen => "local_dns4" \in files
    /\ c.pc = "done" =>
          /\ c.applied => Installed
          /\ c.stopped => NothingLeft
          /\ c.error = "script" => NothingLeft
          /\ c.refused => running /\ route /\ jumps["dstnat"] > 0

(* Nobody runs beside a call that nothing has disturbed.                   *)
Sole(p) == \A q \in Callers \ {p} : call[q] = Idle

Inv ==
    /\ Types
    /\ \A p \in Callers :
          call[p] # Idle =>
              /\ Control(call[p])
              /\ call[p].alone => Sole(p) /\ Cleaned(call[p]) /\ Added(call[p]) /\ Answers(call[p])
-----------------------------------------------------------------------------
(* Steps of a call.                                                        *)

(* A call that is made, and what the invariant says of it.                 *)
LEMMA Here ==
    ASSUME Inv, NEW p \in Callers, call[p] # Idle
    PROVE  /\ call[p] \in CallRecords
           /\ Control(call[p])
           /\ call[p].alone => Cleaned(call[p]) /\ Added(call[p]) /\ Answers(call[p])
  BY DEF Inv, Types

LEMMA RecordsAreCalls == ASSUME NEW c \in CallRecords PROVE c # Idle
  <1>1. c.pc \in Steps
    BY DEF CallRecords
  <1>2. c.pc # "idle"
    BY <1>1 DEF Steps, ScriptSteps, CleanupSteps, ApplySteps
  <1> QED
    BY <1>2 DEF Idle

(* A call with a new record, in place of its old one.                      *)
LEMMA Replaced ==
    ASSUME Types, NEW p \in Callers, NEW c \in CallRecords \union {Idle},
           call' = [call EXCEPT ![p] = c]
    PROVE  /\ call' \in [Callers -> {Idle} \union CallRecords]
           /\ \A q \in Callers \ {p} : call'[q] = call[q]
           /\ call'[p] = c
  BY DEF Types

(* A call that only goes to another step.                                  *)
Kept(c, d) ==
    /\ c.takeover = d.takeover /\ c.seen = d.seen
    /\ c.applied = d.applied /\ c.stopped = d.stopped /\ c.refused = d.refused
    /\ c.alone = d.alone

LEMMA GotoMoves ==
    ASSUME Inv, NEW p \in Callers, call[p] # Idle, NEW pc \in Steps, Goto(p, pc)
    PROVE  /\ call' \in [Callers -> {Idle} \union CallRecords]
           /\ \A q \in Callers \ {p} : call'[q] = call[q]
           /\ call'[p] # Idle
           /\ call'[p].pc = pc /\ Kept(call'[p], call[p])
           /\ call'[p].error = call[p].error /\ call'[p].then = call[p].then
  <1> DEFINE c == [call[p] EXCEPT !.pc = pc]
  <1>1. call[p] \in CallRecords
    BY Here
  <1>2. c \in CallRecords
    BY <1>1 DEF CallRecords
  <1>3. call' = [call EXCEPT ![p] = c]
    BY DEF Goto
  <1>4. /\ c.pc = pc /\ Kept(c, call[p])
        /\ c.error = call[p].error /\ c.then = call[p].then
    BY <1>1 DEF CallRecords, Kept
  <1> HIDE DEF c
  <1> QED
    BY <1>2, <1>3, <1>4, Replaced, RecordsAreCalls DEF Inv

LEMMA CleanupMoves ==
    ASSUME Inv, NEW p \in Callers, call[p] # Idle,
           NEW then \in {"tun", "verify", "failed"}, Cleanup(p, then)
    PROVE  /\ call' \in [Callers -> {Idle} \union CallRecords]
           /\ \A q \in Callers \ {p} : call'[q] = call[q]
           /\ call'[p] # Idle
           /\ call'[p].pc = "jumps" /\ call'[p].base = 1 /\ call'[p].then = then
           /\ Kept(call'[p], call[p]) /\ call'[p].error = call[p].error
  <1> DEFINE c == [call[p] EXCEPT !.pc = "jumps", !.base = 1, !.then = then]
  <1>1. call[p] \in CallRecords
    BY Here
  <1>2. c \in CallRecords
    BY <1>1 DEF CallRecords, Steps, ScriptSteps, CleanupSteps
  <1>3. call' = [call EXCEPT ![p] = c]
    BY DEF Cleanup
  <1>4. /\ c.pc = "jumps" /\ c.base = 1 /\ c.then = then
        /\ Kept(c, call[p]) /\ c.error = call[p].error
    BY <1>1 DEF CallRecords, Kept
  <1> HIDE DEF c
  <1> QED
    BY <1>2, <1>3, <1>4, Replaced, RecordsAreCalls DEF Inv

(* A call that ends with an error and no answer.                           *)
LEMMA ErrorMoves ==
    ASSUME Inv, NEW p \in Callers, call[p] # Idle,
           NEW error \in {"service", "refused", "check", "killed"},
           call' = [call EXCEPT ![p].pc = "done", ![p].error = error]
    PROVE  /\ call' \in [Callers -> {Idle} \union CallRecords]
           /\ \A q \in Callers \ {p} : call'[q] = call[q]
           /\ call'[p] # Idle
           /\ call'[p].pc = "done" /\ call'[p].error = error /\ Kept(call'[p], call[p])
  <1> DEFINE c == [call[p] EXCEPT !.pc = "done", !.error = error]
  <1>1. call[p] \in CallRecords
    BY Here
  <1>2. c \in CallRecords
    BY <1>1 DEF CallRecords, Steps
  <1>3. call' = [call EXCEPT ![p] = c]
    OBVIOUS
  <1>4. c.pc = "done" /\ c.error = error /\ Kept(c, call[p])
    BY <1>1 DEF CallRecords, Kept
  <1> HIDE DEF c
  <1> QED
    BY <1>2, <1>3, <1>4, Replaced, RecordsAreCalls DEF Inv

(* The call that steps is the only one that the rules matter to: another   *)
(* one that is made has been disturbed.                                    *)
LEMMA CallMoves ==
    ASSUME Inv, Types', NEW p \in Callers, call[p] # Idle,
           \A q \in Callers \ {p} : call'[q] = call[q],
           call'[p] # Idle => Control(call'[p]),
           call'[p] # Idle /\ call'[p].alone =>
               /\ call[p].alone
               /\ Cleaned(call[p])' /\ Added(call[p])' /\ Answers(call[p])'
    PROVE  Inv'
  <1> SUFFICES ASSUME NEW q \in Callers, call'[q] # Idle
               PROVE  /\ Control(call'[q])
                      /\ call'[q].alone =>
                            Sole(q)' /\ Cleaned(call[q])' /\ Added(call[q])' /\ Answers(call[q])'
    BY DEF Inv
  <1>1. CASE q = p
    <2>1. call[p].alone => Sole(p)
      BY DEF Inv
    <2>2. Sole(p) => Sole(p)'
      BY DEF Sole
    <2> QED
      BY <1>1, <2>1, <2>2
  <1>2. CASE q # p
    <2>1. call'[q] = call[q]
      BY <1>2
    <2>2. Control(call[q]) /\ (call[q].alone => Sole(q))
      BY <2>1 DEF Inv
    <2>3. ~call[q].alone
      BY <1>2, <2>2 DEF Sole
    <2> QED
      BY <2>1, <2>2, <2>3
  <1> QED
    BY <1>1, <1>2

(* The chains that the scripts name.                                       *)
LEMMA Chains ==
    /\ DOMAIN Bases = 1..4 /\ Len(Bases) = 4
    /\ BaseChains = {"dstnat", "nat_output", "mangle_prerouting", "forward"}
    /\ \A b \in BaseChains : b = Bases[1] \/ b = Bases[2] \/ b = Bases[3] \/ b = Bases[4]
    /\ OwnChains \subseteq BaseChains
  <1>1. DOMAIN Bases = 1..4 /\ Len(Bases) = 4
    BY DEF Bases
  <1>2. /\ Bases[1] = "dstnat" /\ Bases[2] = "nat_output"
        /\ Bases[3] = "mangle_prerouting" /\ Bases[4] = "forward"
    BY DEF Bases
  <1>3. BaseChains = {Bases[i] : i \in 1..4}
    BY <1>1 DEF BaseChains
  <1>4. BaseChains = {"dstnat", "nat_output", "mangle_prerouting", "forward"}
    BY <1>2, <1>3
  <1> QED
    BY <1>1, <1>2, <1>4 DEF OwnChains

(* A cleanup has removed nothing when it begins.                           *)
LEMMA CleanupBegins ==
    ASSUME NEW p, call'[p].pc = "jumps", call'[p].base = 1
    PROVE  Cleaned(call[p])' /\ Added(call[p])' /\ Answers(call[p])'
  BY Chains DEF Cleaned, Added, Answers

(* The service is as it should be.                                         *)
LEMMA LeaveKeeps == ASSUME Inv, NEW p \in Callers, Leave(p) PROVE Inv'
  <1>1. call[p] # Idle /\ Control(call[p])
    BY Here DEF Leave, Idle
  <1>2. /\ call' \in [Callers -> {Idle} \union CallRecords]
        /\ \A q \in Callers \ {p} : call'[q] = call[q]
        /\ call'[p] # Idle
        /\ call'[p].pc = "choose" /\ Kept(call'[p], call[p])
        /\ call'[p].error = call[p].error /\ call'[p].then = call[p].then
    BY <1>1, GotoMoves DEF Leave, Steps, ScriptSteps, CleanupSteps, ApplySteps
  <1>3. Types'
    BY <1>2 DEF Leave, Inv, Types, fwVars, ipVars, ruleVars
  <1>4. Control(call'[p])
    BY <1>1, <1>2 DEF Leave, Control, ApplySteps, CleanupSteps, Kept
  <1>5. call'[p].alone =>
          call[p].alone /\ Cleaned(call[p])' /\ Added(call[p])' /\ Answers(call[p])'
    BY <1>1, <1>2, Here DEF Leave, Kept, Cleaned, Added, Answers, Control, ApplySteps, CleanupSteps
  <1> QED
    BY <1>1, <1>2, <1>3, <1>4, <1>5, CallMoves

(* A restart has stopped the runtime.                                      *)
LEMMA RestopKeeps == ASSUME Inv, NEW p \in Callers, Restop(p) PROVE Inv'
  <1>1. call[p] # Idle /\ Control(call[p])
    BY Here DEF Restop, Idle
  <1>2. /\ call' \in [Callers -> {Idle} \union CallRecords]
        /\ \A q \in Callers \ {p} : call'[q] = call[q]
        /\ call'[p] # Idle
        /\ call'[p].pc = "service" /\ Kept(call'[p], call[p])
        /\ call'[p].error = call[p].error /\ call'[p].then = call[p].then
    BY <1>1, GotoMoves DEF Restop, Steps, ScriptSteps, CleanupSteps, ApplySteps
  <1>3. Types'
    BY <1>2 DEF Restop, Inv, Types, fwVars, ipVars, ruleVars, Halt
  <1>4. Control(call'[p])
    BY <1>1, <1>2 DEF Restop, Control, ApplySteps, CleanupSteps, Kept
  <1>5. call'[p].alone =>
          call[p].alone /\ Cleaned(call[p])' /\ Added(call[p])' /\ Answers(call[p])'
    BY <1>1, <1>2, Here DEF Restop, Kept, Cleaned, Added, Answers, Control, ApplySteps, CleanupSteps
  <1> QED
    BY <1>1, <1>2, <1>3, <1>4, <1>5, CallMoves

(* The runtime is stopped.                                                 *)
LEMMA StopRuntimeKeeps == ASSUME Inv, NEW p \in Callers, StopRuntime(p) PROVE Inv'
  <1>1. call[p] # Idle /\ Control(call[p])
    BY Here DEF StopRuntime, Idle
  <1>2. /\ call' \in [Callers -> {Idle} \union CallRecords]
        /\ \A q \in Callers \ {p} : call'[q] = call[q]
        /\ call'[p] # Idle
        /\ call'[p].pc = "choose" /\ Kept(call'[p], call[p])
        /\ call'[p].error = call[p].error /\ call'[p].then = call[p].then
    BY <1>1, GotoMoves DEF StopRuntime, Steps, ScriptSteps, CleanupSteps, ApplySteps
  <1>3. Types'
    BY <1>2 DEF StopRuntime, Inv, Types, fwVars, ipVars, ruleVars, Halt
  <1>4. Control(call'[p])
    BY <1>1, <1>2 DEF StopRuntime, Control, ApplySteps, CleanupSteps, Kept
  <1>5. call'[p].alone =>
          call[p].alone /\ Cleaned(call[p])' /\ Added(call[p])' /\ Answers(call[p])'
    BY <1>1, <1>2, Here DEF StopRuntime, Kept, Cleaned, Added, Answers, Control, ApplySteps, CleanupSteps
  <1> QED
    BY <1>1, <1>2, <1>3, <1>4, <1>5, CallMoves

(* The chains are gone: no rule jumps to one.                              *)
LEMMA CleanupChainsKeeps == ASSUME Inv, NEW p \in Callers, CleanupChains(p) PROVE Inv'
  <1>1. call[p] # Idle /\ Control(call[p])
    BY Here DEF CleanupChains, Idle
  <1>2. /\ call' \in [Callers -> {Idle} \union CallRecords]
        /\ \A q \in Callers \ {p} : call'[q] = call[q]
        /\ call'[p] # Idle
        /\ call'[p].pc = "sets" /\ Kept(call'[p], call[p])
        /\ call'[p].error = call[p].error /\ call'[p].then = call[p].then
    BY <1>1, GotoMoves DEF CleanupChains, Steps, ScriptSteps, CleanupSteps, ApplySteps
  <1>3. Types'
    BY <1>2 DEF CleanupChains, Inv, Types, fwVars, ipVars, ruleVars, NoChain
  <1>4. Control(call'[p])
    BY <1>1, <1>2 DEF CleanupChains, Control, ApplySteps, CleanupSteps, Kept
  <1>5. call'[p].alone =>
          call[p].alone /\ Cleaned(call[p])' /\ Added(call[p])' /\ Answers(call[p])'
    <2>1. call[p].alone => NoJumps /\ NoBodies'
      BY <1>1, Here, Chains DEF CleanupChains, Cleaned, NoJumps, NoBodies
    <2> QED
      BY <1>1, <1>2, <2>1, Here DEF CleanupChains, Kept, Cleaned, Added, Answers, Control, ApplySteps, CleanupSteps, NoJumps, NoBodies, fwVars
  <1> QED
    BY <1>1, <1>2, <1>3, <1>4, <1>5, CallMoves

(* The sets are gone: no rule names one.                                   *)
LEMMA CleanupSetsKeeps == ASSUME Inv, NEW p \in Callers, CleanupSets(p) PROVE Inv'
  <1>1. call[p] # Idle /\ Control(call[p])
    BY Here DEF CleanupSets, Idle
  <1>2. /\ call' \in [Callers -> {Idle} \union CallRecords]
        /\ \A q \in Callers \ {p} : call'[q] = call[q]
        /\ call'[p] # Idle
        /\ call'[p].pc = "ip" /\ Kept(call'[p], call[p])
        /\ call'[p].error = call[p].error /\ call'[p].then = call[p].then
    BY <1>1, GotoMoves DEF CleanupSets, Steps, ScriptSteps, CleanupSteps, ApplySteps
  <1>3. Types'
    BY <1>2 DEF CleanupSets, Inv, Types, fwVars, ipVars, ruleVars
  <1>4. Control(call'[p])
    BY <1>1, <1>2 DEF CleanupSets, Control, ApplySteps, CleanupSteps, Kept
  <1>5. call'[p].alone =>
          call[p].alone /\ Cleaned(call[p])' /\ Added(call[p])' /\ Answers(call[p])'
    <2>1. call[p].alone => sets' = {}
      BY <1>1, Here DEF CleanupSets, Cleaned, NoBodies, NoChain
    <2> QED
      BY <1>1, <1>2, <2>1, Here DEF CleanupSets, Kept, Cleaned, Added, Answers, Control, ApplySteps, CleanupSteps, NoJumps, NoBodies, NoChain
  <1> QED
    BY <1>1, <1>2, <1>3, <1>4, <1>5, CallMoves

(* The rule of the fwmark is gone, and its route.                          *)
LEMMA CleanupIpKeeps == ASSUME Inv, NEW p \in Callers, CleanupIp(p) PROVE Inv'
  <1>1. call[p] # Idle /\ Control(call[p])
    BY Here DEF CleanupIp, Idle
  <1>2. /\ call' \in [Callers -> {Idle} \union CallRecords]
        /\ \A q \in Callers \ {p} : call'[q] = call[q]
        /\ call'[p] # Idle
        /\ call'[p].pc = "files" /\ Kept(call'[p], call[p])
        /\ call'[p].error = call[p].error /\ call'[p].then = call[p].then
    BY <1>1, GotoMoves DEF CleanupIp, Steps, ScriptSteps, CleanupSteps, ApplySteps
  <1>3. Types'
    BY <1>2 DEF CleanupIp, Inv, Types, fwVars, ipVars, ruleVars
  <1>4. Control(call'[p])
    BY <1>1, <1>2 DEF CleanupIp, Control, ApplySteps, CleanupSteps, Kept
  <1>5. call'[p].alone =>
          call[p].alone /\ Cleaned(call[p])' /\ Added(call[p])' /\ Answers(call[p])'
    BY <1>1, <1>2, Here DEF CleanupIp, Kept, Cleaned, Added, Answers, Control, ApplySteps, CleanupSteps, NoJumps, NoBodies, fwVars
  <1> QED
    BY <1>1, <1>2, <1>3, <1>4, <1>5, CallMoves

(* Rules of the fwmark are deleted.                                        *)
LEMMA DeleteRulesKeeps == ASSUME Inv, NEW p \in Callers, DeleteRules(p) PROVE Inv'
  <1>1. call[p] # Idle /\ Control(call[p])
    BY Here DEF DeleteRules, Idle
  <1>2. /\ call' \in [Callers -> {Idle} \union CallRecords]
        /\ \A q \in Callers \ {p} : call'[q] = call[q]
        /\ call'[p] # Idle
        /\ call'[p].pc = "add" /\ Kept(call'[p], call[p])
        /\ call'[p].error = call[p].error /\ call'[p].then = call[p].then
    BY <1>1, GotoMoves DEF DeleteRules, Steps, ScriptSteps, CleanupSteps, ApplySteps
  <1>3. Types'
    BY <1>2 DEF DeleteRules, Inv, Types, fwVars, ipVars, ruleVars
  <1>4. Control(call'[p])
    BY <1>1, <1>2 DEF DeleteRules, Control, ApplySteps, CleanupSteps, Kept
  <1>5. call'[p].alone =>
          call[p].alone /\ Cleaned(call[p])' /\ Added(call[p])' /\ Answers(call[p])'
    BY <1>1, <1>2, Here DEF DeleteRules, Kept, Cleaned, Added, Answers, Control, ApplySteps, CleanupSteps, NoJumps, NoBodies, fwVars
  <1> QED
    BY <1>1, <1>2, <1>3, <1>4, <1>5, CallMoves

(* The bypass of the resolvers is installed, or has none.                  *)
LEMMA AddLocalDnsKeeps == ASSUME Inv, NEW p \in Callers, AddLocalDns(p) PROVE Inv'
  <1>1. call[p] # Idle /\ Control(call[p])
    BY Here DEF AddLocalDns, Idle
  <1>2. /\ call' \in [Callers -> {Idle} \union CallRecords]
        /\ \A q \in Callers \ {p} : call'[q] = call[q]
        /\ call'[p] # Idle
        /\ call'[p].pc = "takeover" /\ Kept(call'[p], call[p])
        /\ call'[p].error = call[p].error /\ call'[p].then = call[p].then
    BY <1>1, GotoMoves DEF AddLocalDns, Steps, ScriptSteps, CleanupSteps, ApplySteps
  <1>3. Types'
    BY <1>2 DEF AddLocalDns, Inv, Types, fwVars, ipVars, ruleVars
  <1>4. Control(call'[p])
    BY <1>1, <1>2 DEF AddLocalDns, Control, ApplySteps, CleanupSteps, Kept
  <1>5. call'[p].alone =>
          call[p].alone /\ Cleaned(call[p])' /\ Added(call[p])' /\ Answers(call[p])'
    BY <1>1, <1>2, Here DEF AddLocalDns, Kept, Cleaned, Added, Answers, Control, ApplySteps, CleanupSteps, NoJumps, NoBodies, Routed, fwVars, ipVars
  <1> QED
    BY <1>1, <1>2, <1>3, <1>4, <1>5, CallMoves

(* The state file is written: the rules are complete.                      *)
LEMMA WriteStatusKeeps == ASSUME Inv, NEW p \in Callers, WriteStatus(p) PROVE Inv'
  <1>1. call[p] # Idle /\ Control(call[p])
    BY Here DEF WriteStatus, Idle
  <1>2. /\ call' \in [Callers -> {Idle} \union CallRecords]
        /\ \A q \in Callers \ {p} : call'[q] = call[q]
        /\ call'[p] # Idle
        /\ call'[p].pc = "verify" /\ Kept(call'[p], call[p])
        /\ call'[p].error = call[p].error /\ call'[p].then = call[p].then
    BY <1>1, GotoMoves DEF WriteStatus, Steps, ScriptSteps, CleanupSteps, ApplySteps
  <1>3. Types'
    BY <1>2 DEF WriteStatus, Inv, Types, fwVars, ipVars, ruleVars
  <1>4. Control(call'[p])
    BY <1>1, <1>2 DEF WriteStatus, Control, ApplySteps, CleanupSteps, Kept
  <1>5. call'[p].alone =>
          call[p].alone /\ Cleaned(call[p])' /\ Added(call[p])' /\ Answers(call[p])'
    <2>1. call[p].alone => files' \ {"local_dns4"} = {"local_domains", "status"}
      BY <1>1, Here DEF WriteStatus, Added
    <2> QED
      BY <1>1, <1>2, <2>1, Here, ZenonT(40) DEF WriteStatus, Kept, Cleaned, Added, Answers, Control, ApplySteps, CleanupSteps, NoJumps, NoBodies, Routed, Complete, fwVars, ipVars
  <1> QED
    BY <1>1, <1>2, <1>3, <1>4, <1>5, CallMoves

(* The device is there, or the script fails.                               *)
LEMMA WaitTunKeeps == ASSUME Inv, NEW p \in Callers, WaitTun(p) PROVE Inv'
  <1>1. call[p] # Idle /\ Control(call[p])
    BY Here DEF WaitTun, Idle
  <1>2. \/ Goto(p, "domains")
        \/ Cleanup(p, "failed")
    BY DEF WaitTun, Fails
  <1>3. /\ call' \in [Callers -> {Idle} \union CallRecords]
        /\ \A q \in Callers \ {p} : call'[q] = call[q]
        /\ call'[p] # Idle
        /\ Kept(call'[p], call[p]) /\ call'[p].error = call[p].error
    BY <1>1, <1>2, GotoMoves, CleanupMoves DEF Steps, ScriptSteps, CleanupSteps, ApplySteps
  <1>4. \/
           /\ call'[p].pc = "domains" /\ call'[p].then = call[p].then
        \/ /\ call'[p].pc = "jumps" /\ call'[p].base = 1 /\ call'[p].then = "failed"
    BY <1>1, <1>2, GotoMoves, CleanupMoves DEF Steps, ScriptSteps, CleanupSteps, ApplySteps
  <1>5. Types'
    BY <1>3 DEF WaitTun, Inv, Types, fwVars, ipVars, ruleVars
  <1>6. Control(call'[p])
    BY <1>1, <1>3, <1>4 DEF WaitTun, Control, ApplySteps, CleanupSteps, Kept
  <1>7. call'[p].alone =>
          call[p].alone /\ Cleaned(call[p])' /\ Added(call[p])' /\ Answers(call[p])'
    <2>1. CASE call'[p].pc = "jumps" /\ call'[p].base = 1
      BY <1>3, <2>1, CleanupBegins DEF Kept
    <2>2. CASE
               /\ call'[p].pc = "domains"
      BY <1>1, <1>3, <2>2, Here DEF WaitTun, Kept, Cleaned, Added, Answers, Control, ApplySteps, CleanupSteps, fwVars, ipVars, ruleVars, NothingLeft
    <2> QED
      BY <1>4, <2>1, <2>2
  <1> QED
    BY <1>1, <1>3, <1>5, <1>6, <1>7, CallMoves

(* The domains are written, or the script fails.                           *)
LEMMA DiscoverDomainsKeeps == ASSUME Inv, NEW p \in Callers, DiscoverDomains(p) PROVE Inv'
  <1>1. call[p] # Idle /\ Control(call[p])
    BY Here DEF DiscoverDomains, Idle
  <1>2. \/ Goto(p, "rule") /\ files' = files \union {"local_domains"}
        \/ Cleanup(p, "failed")
    BY DEF DiscoverDomains, Fails
  <1>3. /\ call' \in [Callers -> {Idle} \union CallRecords]
        /\ \A q \in Callers \ {p} : call'[q] = call[q]
        /\ call'[p] # Idle
        /\ Kept(call'[p], call[p]) /\ call'[p].error = call[p].error
    BY <1>1, <1>2, GotoMoves, CleanupMoves DEF Steps, ScriptSteps, CleanupSteps, ApplySteps
  <1>4. \/ /\ files' = files \union {"local_domains"}
           /\ call'[p].pc = "rule" /\ call'[p].then = call[p].then
        \/ /\ call'[p].pc = "jumps" /\ call'[p].base = 1 /\ call'[p].then = "failed"
    BY <1>1, <1>2, GotoMoves, CleanupMoves DEF Steps, ScriptSteps, CleanupSteps, ApplySteps
  <1>5. Types'
    BY <1>3 DEF DiscoverDomains, Inv, Types, fwVars, ipVars, ruleVars
  <1>6. Control(call'[p])
    BY <1>1, <1>3, <1>4 DEF DiscoverDomains, Control, ApplySteps, CleanupSteps, Kept
  <1>7. call'[p].alone =>
          call[p].alone /\ Cleaned(call[p])' /\ Added(call[p])' /\ Answers(call[p])'
    <2>1. CASE call'[p].pc = "jumps" /\ call'[p].base = 1
      BY <1>3, <2>1, CleanupBegins DEF Kept
    <2>2. CASE /\ files' = files \union {"local_domains"}
               /\ call'[p].pc = "rule"
      BY <1>1, <1>3, <2>2, Here DEF DiscoverDomains, Kept, Cleaned, Added, Answers, Control, ApplySteps, CleanupSteps, NothingLeft, NoJumps, NoBodies, fwVars, ipVars
    <2> QED
      BY <1>4, <2>1, <2>2
  <1> QED
    BY <1>1, <1>3, <1>5, <1>6, <1>7, CallMoves

(* The rule and its route are there, or the device is gone.                *)
LEMMA AddRuleKeeps == ASSUME Inv, NEW p \in Callers, AddRule(p) PROVE Inv'
  <1>1. call[p] # Idle /\ Control(call[p])
    BY Here DEF AddRule, Idle
  <1>2. \/ Goto(p, "base") /\ ipRules' = ipRules + 1 /\ route'
        \/ Cleanup(p, "failed")
    BY DEF AddRule, Fails
  <1>3. /\ call' \in [Callers -> {Idle} \union CallRecords]
        /\ \A q \in Callers \ {p} : call'[q] = call[q]
        /\ call'[p] # Idle
        /\ Kept(call'[p], call[p]) /\ call'[p].error = call[p].error
    BY <1>1, <1>2, GotoMoves, CleanupMoves DEF Steps, ScriptSteps, CleanupSteps, ApplySteps
  <1>4. \/ /\ ipRules' = ipRules + 1 /\ route'
           /\ call'[p].pc = "base" /\ call'[p].then = call[p].then
        \/ /\ call'[p].pc = "jumps" /\ call'[p].base = 1 /\ call'[p].then = "failed"
    BY <1>1, <1>2, GotoMoves, CleanupMoves DEF Steps, ScriptSteps, CleanupSteps, ApplySteps
  <1>5. Types'
    BY <1>3 DEF AddRule, Inv, Types, fwVars, ipVars, ruleVars
  <1>6. Control(call'[p])
    BY <1>1, <1>3, <1>4 DEF AddRule, Control, ApplySteps, CleanupSteps, Kept
  <1>7. call'[p].alone =>
          call[p].alone /\ Cleaned(call[p])' /\ Added(call[p])' /\ Answers(call[p])'
    <2>1. CASE call'[p].pc = "jumps" /\ call'[p].base = 1
      BY <1>3, <2>1, CleanupBegins DEF Kept
    <2>2. CASE /\ ipRules' = ipRules + 1 /\ route'
               /\ call'[p].pc = "base"
      <3>1. call[p].alone => Routed'
        BY <1>1, <2>2, Here DEF AddRule, Added, Routed, Goto, Cleanup
      <3> QED
        BY <1>1, <1>3, <2>2, <3>1, Here DEF AddRule, Kept, Cleaned, Added, Answers, Control,
               ApplySteps, CleanupSteps, NoJumps, NoBodies, fwVars
    <2> QED
      BY <1>4, <2>1, <2>2
  <1> QED
    BY <1>1, <1>3, <1>5, <1>6, <1>7, CallMoves

(* The sets are there, or the script fails.                                *)
LEMMA AddSetsKeeps == ASSUME Inv, NEW p \in Callers, AddSets(p) PROVE Inv'
  <1>1. call[p] # Idle /\ Control(call[p])
    BY Here DEF AddSets, Idle
  <1>2. \/ Goto(p, "dns") /\ sets' = Sets
        \/ Cleanup(p, "failed")
    BY DEF AddSets, Fails
  <1>3. /\ call' \in [Callers -> {Idle} \union CallRecords]
        /\ \A q \in Callers \ {p} : call'[q] = call[q]
        /\ call'[p] # Idle
        /\ Kept(call'[p], call[p]) /\ call'[p].error = call[p].error
    BY <1>1, <1>2, GotoMoves, CleanupMoves DEF Steps, ScriptSteps, CleanupSteps, ApplySteps
  <1>4. \/ /\ sets' = Sets
           /\ call'[p].pc = "dns" /\ call'[p].then = call[p].then
        \/ /\ call'[p].pc = "jumps" /\ call'[p].base = 1 /\ call'[p].then = "failed"
    BY <1>1, <1>2, GotoMoves, CleanupMoves DEF Steps, ScriptSteps, CleanupSteps, ApplySteps
  <1>5. Types'
    BY <1>3 DEF AddSets, Inv, Types, fwVars, ipVars, ruleVars
  <1>6. Control(call'[p])
    BY <1>1, <1>3, <1>4 DEF AddSets, Control, ApplySteps, CleanupSteps, Kept
  <1>7. call'[p].alone =>
          call[p].alone /\ Cleaned(call[p])' /\ Added(call[p])' /\ Answers(call[p])'
    <2>1. CASE call'[p].pc = "jumps" /\ call'[p].base = 1
      BY <1>3, <2>1, CleanupBegins DEF Kept
    <2>2. CASE /\ sets' = Sets
               /\ call'[p].pc = "dns"
      BY <1>1, <1>3, <2>2, Here DEF AddSets, Kept, Cleaned, Added, Answers, Control, ApplySteps, CleanupSteps, NoJumps, NoBodies, Routed, ipVars
    <2> QED
      BY <1>4, <2>1, <2>2
  <1> QED
    BY <1>1, <1>3, <1>5, <1>6, <1>7, CallMoves

(* The rules of the takeover's transaction.                                *)
AddedRules ==
    /\ body' = [c \in OwnChains |-> (IF body[c] = NoChain THEN 0 ELSE body[c]) + 1]
    /\ jumps' = [b \in BaseChains |->
                    IF b \in BaseChains \ {"nat_output"} THEN jumps[b] + 1 ELSE jumps[b]]

(* The chains and their jumps are there, or the script fails.              *)
LEMMA AddTakeoverKeeps == ASSUME Inv, NEW p \in Callers, AddTakeover(p) PROVE Inv'
  <1>1. call[p] # Idle /\ Control(call[p])
    BY Here DEF AddTakeover, Idle
  <1>2. \/ Goto(p, "post") /\ AddedRules
        \/ Cleanup(p, "failed")
    BY DEF AddTakeover, Fails, AddedRules
  <1>3. /\ call' \in [Callers -> {Idle} \union CallRecords]
        /\ \A q \in Callers \ {p} : call'[q] = call[q]
        /\ call'[p] # Idle
        /\ Kept(call'[p], call[p]) /\ call'[p].error = call[p].error
    BY <1>1, <1>2, GotoMoves, CleanupMoves DEF Steps, ScriptSteps, CleanupSteps, ApplySteps
  <1>4. \/ /\ AddedRules
           /\ call'[p].pc = "post" /\ call'[p].then = call[p].then
        \/ /\ call'[p].pc = "jumps" /\ call'[p].base = 1 /\ call'[p].then = "failed"
    BY <1>1, <1>2, GotoMoves, CleanupMoves DEF Steps, ScriptSteps, CleanupSteps, ApplySteps
  <1>5. Types'
    BY <1>3 DEF AddTakeover, Inv, Types, fwVars, ipVars, ruleVars, AddedRules, NoChain
  <1>6. Control(call'[p])
    BY <1>1, <1>3, <1>4 DEF AddTakeover, Control, ApplySteps, CleanupSteps, Kept
  <1>7. call'[p].alone =>
          call[p].alone /\ Cleaned(call[p])' /\ Added(call[p])' /\ Answers(call[p])'
    <2>1. CASE call'[p].pc = "jumps" /\ call'[p].base = 1
      BY <1>3, <2>1, CleanupBegins DEF Kept
    <2>2. CASE /\ AddedRules
               /\ call'[p].pc = "post"
      <3>1. call[p].alone =>
               /\ \A o \in OwnChains : body'[o] = 1
               /\ \A b \in BaseChains : jumps'[b] = IF b = "nat_output" THEN 0 ELSE 1
        BY <1>1, <2>2, Here DEF AddTakeover, Added, AddedRules, NoJumps, NoBodies
      <3>2. call[p].pc = "takeover" /\ UNCHANGED <<sets, ipRules, route, files>>
        BY DEF AddTakeover, ipVars
      <3>3. call[p].alone =>
               sets' = Sets /\ Routed' /\ files' \ {"local_dns4"} = {"local_domains"}
        BY <1>1, <3>2, Here DEF Added, Routed
      <3> QED
        BY <1>3, <2>2, <3>1, <3>3 DEF Kept, Cleaned, Added, Answers
    <2> QED
      BY <1>4, <2>1, <2>2
  <1> QED
    BY <1>1, <1>3, <1>5, <1>6, <1>7, CallMoves

(* The last jump is there, or the script fails.                            *)
LEMMA AddPostKeeps == ASSUME Inv, NEW p \in Callers, AddPost(p) PROVE Inv'
  <1>1. call[p] # Idle /\ Control(call[p])
    BY Here DEF AddPost, Idle
  <1>2. \/ Goto(p, "status") /\ jumps' = [jumps EXCEPT !["nat_output"] = @ + 1]
        \/ Cleanup(p, "failed")
    BY DEF AddPost, Fails
  <1>3. /\ call' \in [Callers -> {Idle} \union CallRecords]
        /\ \A q \in Callers \ {p} : call'[q] = call[q]
        /\ call'[p] # Idle
        /\ Kept(call'[p], call[p]) /\ call'[p].error = call[p].error
    BY <1>1, <1>2, GotoMoves, CleanupMoves DEF Steps, ScriptSteps, CleanupSteps, ApplySteps
  <1>4. \/ /\ jumps' = [jumps EXCEPT !["nat_output"] = @ + 1]
           /\ call'[p].pc = "status" /\ call'[p].then = call[p].then
        \/ /\ call'[p].pc = "jumps" /\ call'[p].base = 1 /\ call'[p].then = "failed"
    BY <1>1, <1>2, GotoMoves, CleanupMoves DEF Steps, ScriptSteps, CleanupSteps, ApplySteps
  <1>5. Types'
    BY <1>3 DEF AddPost, Inv, Types, fwVars, ipVars, ruleVars
  <1>6. Control(call'[p])
    BY <1>1, <1>3, <1>4 DEF AddPost, Control, ApplySteps, CleanupSteps, Kept
  <1>7. call'[p].alone =>
          call[p].alone /\ Cleaned(call[p])' /\ Added(call[p])' /\ Answers(call[p])'
    <2>1. CASE call'[p].pc = "jumps" /\ call'[p].base = 1
      BY <1>3, <2>1, CleanupBegins DEF Kept
    <2>2. CASE /\ jumps' = [jumps EXCEPT !["nat_output"] = @ + 1]
               /\ call'[p].pc = "status"
      <3>1. call[p].alone => \A b \in BaseChains : jumps'[b] = 1
        BY <1>1, <2>2, Here DEF AddPost, Added, Inv, Types
      <3> QED
        BY <1>1, <1>3, <2>2, <3>1, Here DEF AddPost, Kept, Cleaned, Added, Answers, Control,
               ApplySteps, CleanupSteps, Routed, ipVars
    <2> QED
      BY <1>4, <2>1, <2>2
  <1> QED
    BY <1>1, <1>3, <1>5, <1>6, <1>7, CallMoves

(* The runtime starts, or the call fails.                                  *)
LEMMA StartRuntimeKeeps == ASSUME Inv, NEW p \in Callers, StartRuntime(p) PROVE Inv'
  <1>1. call[p] # Idle /\ Control(call[p])
    BY Here DEF StartRuntime, Idle, ScriptSteps, CleanupSteps, ApplySteps
  <1>2. /\ call' \in [Callers -> {Idle} \union CallRecords]
        /\ \A q \in Callers \ {p} : call'[q] = call[q]
        /\ call'[p] # Idle /\ Kept(call'[p], call[p])
        /\ \/ call'[p].pc = "choose" /\ call'[p].error = call[p].error
           \/ call'[p].pc = "done" /\ call'[p].error = "service"
    BY <1>1, GotoMoves, ErrorMoves DEF StartRuntime, Steps, ScriptSteps, CleanupSteps, ApplySteps
  <1>3. Types'
    BY <1>2 DEF StartRuntime, Inv, Types, fwVars, ipVars, ruleVars
  <1>4. Control(call'[p])
    BY <1>1, <1>2 DEF StartRuntime, Control, ApplySteps, CleanupSteps, Kept
  <1>5. call'[p].alone =>
          call[p].alone /\ Cleaned(call[p])' /\ Added(call[p])' /\ Answers(call[p])'
    BY <1>1, <1>2, Here DEF StartRuntime, Kept, Cleaned, Added, Answers, Control, ScriptSteps, ApplySteps,
                               CleanupSteps
  <1> QED
    BY <1>1, <1>2, <1>3, <1>4, <1>5, CallMoves

(* What the call asks for, if the runtime is there.                        *)
LEMMA ChooseKeeps == ASSUME Inv, NEW p \in Callers, Choose(p) PROVE Inv'
  <1>1. call[p] # Idle /\ Control(call[p])
    BY Here DEF Choose, Idle, ScriptSteps, CleanupSteps, ApplySteps
  <1>2. /\ call' \in [Callers -> {Idle} \union CallRecords]
        /\ \A q \in Callers \ {p} : call'[q] = call[q]
        /\ call'[p] # Idle /\ Kept(call'[p], call[p])
        /\ \/ call'[p].pc = "done" /\ call'[p].error \in {call[p].error, "refused"}
           \/ /\ call'[p].pc = "jumps" /\ call'[p].base = 1 /\ call'[p].then = "verify"
              /\ call'[p].takeover = "disabled" /\ call'[p].error = call[p].error
           \/ /\ call'[p].pc = "check" /\ call'[p].takeover = "enabled"
              /\ call'[p].error = call[p].error
    <2>1. CASE call[p].takeover = "leave" /\ Goto(p, "done")
      BY <1>1, <2>1, GotoMoves DEF Steps
    <2>2. CASE call[p].takeover = "disabled" /\ Cleanup(p, "verify")
      BY <1>1, <2>2, CleanupMoves DEF Kept
    <2>3. CASE call[p].takeover = "enabled" /\ Goto(p, "check")
      BY <1>1, <2>3, GotoMoves DEF Steps, ScriptSteps, Kept
    <2>4. CASE call' = [call EXCEPT ![p].pc = "done", ![p].error = "refused"]
      BY <1>1, <2>4, ErrorMoves
    <2> QED
      BY <2>1, <2>2, <2>3, <2>4 DEF Choose
  <1>3. Types'
    BY <1>2 DEF Choose, Inv, Types, fwVars, ipVars, ruleVars
  <1>4. Control(call'[p])
    BY <1>1, <1>2 DEF Choose, Control, ApplySteps, CleanupSteps, Kept
  <1>5. call'[p].alone =>
          call[p].alone /\ Cleaned(call[p])' /\ Added(call[p])' /\ Answers(call[p])'
    BY <1>1, <1>2, Here, CleanupBegins DEF Choose, Kept, Cleaned, Added, Answers, Control, ScriptSteps, ApplySteps,
                               CleanupSteps
  <1> QED
    BY <1>1, <1>2, <1>3, <1>4, <1>5, CallMoves

(* Without the firewall's table the script ends; else it cleans up.        *)
LEMMA CheckFw4Keeps == ASSUME Inv, NEW p \in Callers, CheckFw4(p) PROVE Inv'
  <1>1. call[p] # Idle /\ Control(call[p])
    BY Here DEF CheckFw4, Idle, ScriptSteps, CleanupSteps, ApplySteps
  <1>2. /\ call' \in [Callers -> {Idle} \union CallRecords]
        /\ \A q \in Callers \ {p} : call'[q] = call[q]
        /\ call'[p] # Idle /\ Kept(call'[p], call[p])
        /\ \/ call'[p].pc = "done" /\ call'[p].error = "check"
           \/ /\ call'[p].pc = "jumps" /\ call'[p].base = 1 /\ call'[p].then = "tun"
              /\ call'[p].error = call[p].error
    BY <1>1, CleanupMoves, ErrorMoves DEF CheckFw4, Steps, ScriptSteps, CleanupSteps, ApplySteps
  <1>3. Types'
    BY <1>2 DEF CheckFw4, Inv, Types, fwVars, ipVars, ruleVars
  <1>4. Control(call'[p])
    BY <1>1, <1>2 DEF CheckFw4, Control, ApplySteps, CleanupSteps, Kept
  <1>5. call'[p].alone =>
          call[p].alone /\ Cleaned(call[p])' /\ Added(call[p])' /\ Answers(call[p])'
    BY <1>1, <1>2, Here, CleanupBegins DEF CheckFw4, Kept, Cleaned, Added, Answers, Control, ScriptSteps, ApplySteps,
                               CleanupSteps
  <1> QED
    BY <1>1, <1>2, <1>3, <1>4, <1>5, CallMoves

(* The deadline has killed a script.                                       *)
LEMMA KilledKeeps == ASSUME Inv, NEW p \in Callers, Killed(p) PROVE Inv'
  <1>1. call[p] # Idle /\ Control(call[p])
    BY Here DEF Killed, Idle, ScriptSteps, CleanupSteps, ApplySteps
  <1>2. /\ call' \in [Callers -> {Idle} \union CallRecords]
        /\ \A q \in Callers \ {p} : call'[q] = call[q]
        /\ call'[p] # Idle /\ Kept(call'[p], call[p])
        /\ \/ call'[p].pc = "done" /\ call'[p].error = "killed"
    BY <1>1, ErrorMoves DEF Killed, Steps, ScriptSteps, CleanupSteps, ApplySteps
  <1>3. Types'
    BY <1>2 DEF Killed, Inv, Types, fwVars, ipVars, ruleVars
  <1>4. Control(call'[p])
    BY <1>1, <1>2 DEF Killed, Control, ApplySteps, CleanupSteps, Kept
  <1>5. call'[p].alone =>
          call[p].alone /\ Cleaned(call[p])' /\ Added(call[p])' /\ Answers(call[p])'
    BY <1>1, <1>2, Here DEF Killed, Kept, Cleaned, Added, Answers, Control, ScriptSteps, ApplySteps,
                               CleanupSteps
  <1> QED
    BY <1>1, <1>2, <1>3, <1>4, <1>5, CallMoves

(* A stop of the runtime is refused while the takeover is effective.       *)
LEMMA StopGuardKeeps == ASSUME Inv, NEW p \in Callers, StopGuard(p) PROVE Inv'
  <1> DEFINE c == [call[p] EXCEPT !.guarded = FALSE,
                     !.pc = IF Effective(running /\ "local_dns4" \in files) THEN "done" ELSE "service",
                     !.refused = Effective(running /\ "local_dns4" \in files)]
  <1>1. call[p] # Idle /\ Control(call[p])
    BY Here DEF StopGuard, Idle
  <1>2. call[p] \in CallRecords
    BY <1>1, Here
  <1>3. c \in CallRecords
    BY <1>2, ZenonT(30) DEF StopGuard, Effective, CallRecords, Steps, ScriptSteps, CleanupSteps, ApplySteps
  <1>4. /\ c.pc = IF c.refused THEN "done" ELSE "service"
        /\ c.refused = Effective(running /\ "local_dns4" \in files)
        /\ c.applied = call[p].applied /\ c.stopped = call[p].stopped
        /\ c.error = call[p].error /\ c.alone = call[p].alone
    BY <1>2 DEF StopGuard, CallRecords, Kept
  <1>5. call' = [call EXCEPT ![p] = c]
    BY DEF StopGuard
  <1> HIDE DEF c
  <1>6. /\ call' \in [Callers -> {Idle} \union CallRecords]
        /\ \A q \in Callers \ {p} : call'[q] = call[q]
        /\ call'[p] = c /\ c # Idle
    BY <1>3, <1>5, Replaced, RecordsAreCalls DEF Inv
  <1>7. Types'
    BY <1>6 DEF StopGuard, Inv, Types, fwVars, ipVars, ruleVars
  <1>8. Control(call'[p])
    BY <1>1, <1>2, <1>4, <1>6 DEF StopGuard, Control, ApplySteps, CleanupSteps, CallRecords, Kept
  <1>9. call'[p].alone =>
          call[p].alone /\ Cleaned(call[p])' /\ Added(call[p])' /\ Answers(call[p])'
    <2>1. c.refused => running /\ route /\ jumps["dstnat"] > 0
      BY <1>4 DEF Effective
    <2>2. c.refused => running' /\ route' /\ jumps'["dstnat"] > 0
      BY <2>1 DEF StopGuard, fwVars, ipVars, ruleVars, runVars
    <2>3. ~c.applied /\ ~c.stopped /\ c.error = "none" /\ c.pc \in {"done", "service"}
      BY <1>1, <1>4 DEF StopGuard, Control
    <2> QED
      BY <1>4, <1>6, <2>2, <2>3 DEF Cleaned, Added, Answers
  <1> QED
    BY <1>1, <1>6, <1>7, <1>8, <1>9, CallMoves

(* The first half of the status.                                           *)
LEMMA VerifyKeeps == ASSUME Inv, NEW p \in Callers, Verify(p) PROVE Inv'
  <1> DEFINE c == [call[p] EXCEPT !.pc = "checks", !.seen = running /\ "local_dns4" \in files]
  <1>1. call[p] # Idle /\ Control(call[p])
    BY Here DEF Verify, Idle
  <1>2. call[p] \in CallRecords
    BY <1>1, Here
  <1>3. c \in CallRecords
    BY <1>2 DEF Verify, CallRecords, Steps, ScriptSteps, CleanupSteps, ApplySteps
  <1>4. /\ c.pc = "checks" /\ c.takeover = call[p].takeover
        /\ c.seen = (running /\ "local_dns4" \in files)
        /\ c.applied = call[p].applied /\ c.stopped = call[p].stopped
        /\ c.refused = call[p].refused
        /\ c.error = call[p].error /\ c.alone = call[p].alone
    BY <1>2 DEF Verify, CallRecords, Kept
  <1>5. call' = [call EXCEPT ![p] = c]
    BY DEF Verify
  <1> HIDE DEF c
  <1>6. /\ call' \in [Callers -> {Idle} \union CallRecords]
        /\ \A q \in Callers \ {p} : call'[q] = call[q]
        /\ call'[p] = c /\ c # Idle
    BY <1>3, <1>5, Replaced, RecordsAreCalls DEF Inv
  <1>7. Types'
    BY <1>6 DEF Verify, Inv, Types, fwVars, ipVars, ruleVars
  <1>8. Control(call'[p])
    BY <1>1, <1>2, <1>4, <1>6 DEF Verify, Control, ApplySteps, CleanupSteps, CallRecords, Kept
  <1>9. call'[p].alone =>
          call[p].alone /\ Cleaned(call[p])' /\ Added(call[p])' /\ Answers(call[p])'
    <2>1. (Complete => Complete') /\ (NothingLeft => NothingLeft')
      BY DEF Verify, Complete, NothingLeft, Routed, fwVars, ipVars, ruleVars
    <2>2. c.seen => "local_dns4" \in files'
      BY <1>4 DEF Verify, ruleVars
    <2>3. call[p].alone => IF c.takeover = "enabled" THEN Complete ELSE NothingLeft
      BY <1>1, <1>4, Here DEF Verify, Answers
    <2> QED
      BY <1>4, <1>6, <2>1, <2>2, <2>3 DEF Cleaned, Added, Answers
  <1> QED
    BY <1>1, <1>6, <1>7, <1>8, <1>9, CallMoves

(* The answer is the rest of the status.                                   *)
LEMMA ChecksKeeps == ASSUME Inv, NEW p \in Callers, Checks(p) PROVE Inv'
  <1> DEFINE c == [call[p] EXCEPT !.pc = "done",
                     !.applied = call[p].takeover = "enabled" /\ Effective(call[p].seen),
                     !.stopped = call[p].takeover # "enabled",
                     !.error = IF call[p].takeover = "enabled" /\ ~Effective(call[p].seen)
                               THEN "verification" ELSE @]
  <1>1. call[p] # Idle /\ Control(call[p])
    BY Here DEF Checks, Idle
  <1>2. call[p] \in CallRecords
    BY <1>1, Here
  <1>3. c \in CallRecords
    BY <1>2, ZenonT(30) DEF Checks, CallRecords, Steps, ScriptSteps, CleanupSteps, ApplySteps
  <1>4. /\ c.pc = "done"
        /\ c.applied = (call[p].takeover = "enabled" /\ Effective(call[p].seen))
        /\ c.stopped = (call[p].takeover # "enabled")
        /\ c.refused = call[p].refused
        /\ c.error \in {call[p].error, "verification"} /\ c.alone = call[p].alone
    BY <1>2 DEF Checks, CallRecords, Kept
  <1>5. call' = [call EXCEPT ![p] = c]
    BY DEF Checks
  <1> HIDE DEF c
  <1>6. /\ call' \in [Callers -> {Idle} \union CallRecords]
        /\ \A q \in Callers \ {p} : call'[q] = call[q]
        /\ call'[p] = c /\ c # Idle
    BY <1>3, <1>5, Replaced, RecordsAreCalls DEF Inv
  <1>7. Types'
    BY <1>6 DEF Checks, Inv, Types, fwVars, ipVars, ruleVars
  <1>8. Control(call'[p])
    BY <1>1, <1>2, <1>4, <1>6 DEF Checks, Control, ApplySteps, CleanupSteps, CallRecords, Kept
  <1>9. call'[p].alone =>
          call[p].alone /\ Cleaned(call[p])' /\ Added(call[p])' /\ Answers(call[p])'
    <2>1. call[p].alone /\ c.applied => Installed
      BY <1>1, <1>4, Here DEF Checks, Answers, Effective, Complete, Installed, Routed
    <2>2. call[p].alone /\ c.stopped => NothingLeft
      BY <1>1, <1>4, Here DEF Checks, Answers
    <2>3. (Installed => Installed') /\ (NothingLeft => NothingLeft')
      BY DEF Checks, Installed, NothingLeft, fwVars, ipVars, ruleVars
    <2> QED
      BY <1>1, <1>4, <1>6, <2>1, <2>2, <2>3 DEF Checks, Cleaned, Added, Answers, Control
  <1> QED
    BY <1>1, <1>6, <1>7, <1>8, <1>9, CallMoves

(* The jumps of one chain of the firewall are gone.                        *)
LEMMA CleanupJumpsKeeps == ASSUME Inv, NEW p \in Callers, CleanupJumps(p) PROVE Inv'
  <1> DEFINE c == [call[p] EXCEPT !.base = @ + 1,
                             !.pc = IF call[p].base = Len(Bases) THEN "chains" ELSE @]
  <1>1. call[p] # Idle /\ Control(call[p])
    BY Here DEF CleanupJumps, Idle
  <1>2. call[p] \in CallRecords
    BY <1>1, Here
  <1>3. c \in CallRecords
    <2>1. call[p].base + 1 \in Nat
      BY <1>2 DEF CallRecords
    <2>2. (IF call[p].base = Len(Bases) THEN "chains" ELSE call[p].pc) \in Steps
      BY <1>2 DEF CallRecords, Steps, ScriptSteps, CleanupSteps
    <2> QED
      BY <1>2, <2>1, <2>2 DEF CallRecords
  <1>4. /\ c.pc = IF call[p].base = Len(Bases) THEN "chains" ELSE "jumps"
        /\ c.base = call[p].base + 1 /\ c.then = call[p].then
        /\ Kept(c, call[p]) /\ c.error = call[p].error
    BY <1>2 DEF CleanupJumps, CallRecords, Kept
  <1>5. call' = [call EXCEPT ![p] = c]
    BY DEF CleanupJumps
  <1> HIDE DEF c
  <1>6. /\ call' \in [Callers -> {Idle} \union CallRecords]
        /\ \A q \in Callers \ {p} : call'[q] = call[q]
        /\ call'[p] = c /\ c # Idle
    BY <1>3, <1>5, Replaced, RecordsAreCalls DEF Inv
  <1>7. Types'
    BY <1>6 DEF CleanupJumps, Inv, Types, fwVars, ipVars, ruleVars
  <1>8. Control(call'[p])
    BY <1>1, <1>2, <1>4, <1>6 DEF CleanupJumps, Control, ApplySteps, CleanupSteps, CallRecords, Kept
  <1>9. call'[p].alone =>
          call[p].alone /\ Cleaned(call[p])' /\ Added(call[p])' /\ Answers(call[p])'
    <2> SUFFICES ASSUME call[p].alone
                 PROVE  Cleaned(call[p])' /\ Added(call[p])' /\ Answers(call[p])'
      BY <1>4, <1>6 DEF Kept
    <2>1. /\ call[p].base \in 1..4
          /\ \A i \in 1..(call[p].base - 1) : jumps[Bases[i]] = 0
      BY <1>1, Here, Chains DEF CleanupJumps, Cleaned
    <2>2. \A i \in 1..call[p].base : jumps'[Bases[i]] = 0
      <3>1. jumps' = [jumps EXCEPT ![Bases[call[p].base]] = 0]
        BY DEF CleanupJumps
      <3>2. \A i \in 1..4 : Bases[i] \in BaseChains
        BY Chains DEF BaseChains
      <3>3. jumps \in [BaseChains -> Nat]
        BY DEF Inv, Types
      <3>4. ASSUME NEW i \in 1..call[p].base PROVE jumps'[Bases[i]] = 0
        <4>1. i \in 1..4 /\ (i = call[p].base \/ i \in 1..(call[p].base - 1))
          BY <2>1
        <4> QED
          BY <2>1, <3>1, <3>2, <3>3, <4>1
      <3> QED
        BY <3>4
    <2>3. CASE call[p].base = 4
      <3>1. \A b \in BaseChains : jumps'[b] = 0
        BY <2>2, <2>3, Chains
      <3> QED
        BY <1>4, <1>6, <2>3, <3>1, Chains DEF Cleaned, Added, Answers, NoJumps
    <2>4. CASE call[p].base # 4
      <3>1. call'[p].pc = "jumps" /\ call'[p].base \in 1..4 /\ call'[p].base - 1 = call[p].base
        BY <1>4, <1>6, <2>1, <2>4, Chains
      <3> QED
        BY <2>2, <3>1, Chains DEF Cleaned, Added, Answers
    <2> QED
      BY <2>3, <2>4
  <1> QED
    BY <1>1, <1>6, <1>7, <1>8, <1>9, CallMoves

(* The files are gone: nothing is left.                                    *)
LEMMA CleanupFilesKeeps == ASSUME Inv, NEW p \in Callers, CleanupFiles(p) PROVE Inv'
  <1> DEFINE c == [call[p] EXCEPT
                     !.pc = IF call[p].then = "failed" THEN "done" ELSE call[p].then,
                     !.error = IF call[p].then = "failed" THEN "script" ELSE @]
  <1>1. call[p] # Idle /\ Control(call[p])
    BY Here DEF CleanupFiles, Idle
  <1>2. call[p] \in CallRecords
    BY <1>1, Here
  <1>3. c \in CallRecords
    BY <1>2 DEF CleanupFiles, CallRecords, Steps, ScriptSteps, CleanupSteps, ApplySteps
  <1>4. /\ c.pc = IF call[p].then = "failed" THEN "done" ELSE call[p].then
        /\ c.error = IF call[p].then = "failed" THEN "script" ELSE call[p].error
        /\ Kept(c, call[p])
    BY <1>2 DEF CleanupFiles, CallRecords, Kept
  <1>5. call' = [call EXCEPT ![p] = c]
    BY DEF CleanupFiles
  <1> HIDE DEF c
  <1>6. /\ call' \in [Callers -> {Idle} \union CallRecords]
        /\ \A q \in Callers \ {p} : call'[q] = call[q]
        /\ call'[p] = c /\ c # Idle
    BY <1>3, <1>5, Replaced, RecordsAreCalls DEF Inv
  <1>7. Types'
    BY <1>6 DEF CleanupFiles, Inv, Types, fwVars, ipVars, ruleVars
  <1>8. Control(call'[p])
    BY <1>1, <1>2, <1>4, <1>6 DEF CleanupFiles, Control, ApplySteps, CleanupSteps, CallRecords, Kept
  <1>9. call'[p].alone =>
          call[p].alone /\ Cleaned(call[p])' /\ Added(call[p])' /\ Answers(call[p])'
    <2> SUFFICES ASSUME call[p].alone
                 PROVE  Cleaned(call[p])' /\ Added(call[p])' /\ Answers(call[p])'
      BY <1>4, <1>6 DEF Kept
    <2>1. NothingLeft'
      BY <1>1, Here DEF CleanupFiles, Cleaned, NoJumps, NoBodies, NothingLeft, fwVars, ipVars
    <2>2. call[p].then \in IF call[p].takeover = "enabled" THEN {"tun", "failed"} ELSE {"verify"}
      BY <1>1 DEF CleanupFiles, Control, CleanupSteps
    <2> QED
      BY <1>1, <1>4, <1>6, <2>1, <2>2 DEF CleanupFiles, Kept, Cleaned, Added, Answers, Control
  <1> QED
    BY <1>1, <1>6, <1>7, <1>8, <1>9, CallMoves

(* A call has returned.                                                    *)
LEMMA ReturnKeeps == ASSUME Inv, NEW p \in Callers, Return(p) PROVE Inv'
  <1>1. call[p] # Idle /\ call[p].pc = "done"
    BY DEF Return, Idle
  <1>2. /\ call' \in [Callers -> {Idle} \union CallRecords]
        /\ \A q \in Callers \ {p} : call'[q] = call[q]
        /\ call'[p] = Idle
    BY Replaced DEF Return, Inv
  <1>3. Types'
    BY <1>2 DEF Return, Inv, Types, fwVars, ipVars, ruleVars
  <1> QED
    BY <1>1, <1>2, <1>3, CallMoves

-----------------------------------------------------------------------------
(* What disturbs the calls that are made.                                  *)
LEMMA DisturbedCalls ==
    ASSUME Types, NEW except, NEW q \in Callers, q \notin except, call[q] # Idle
    PROVE  /\ Disturbed(except)[q] \in CallRecords
           /\ ~Disturbed(except)[q].alone
           /\ Control(call[q]) => Control(Disturbed(except)[q])
  <1>1. call[q] \in CallRecords
    BY DEF Types
  <1>2. Disturbed(except)[q] = [call[q] EXCEPT !.alone = FALSE]
    BY DEF Disturbed
  <1> QED
    BY <1>1, <1>2 DEF CallRecords, Control

(* After a disturbance nothing is promised.                                *)
LEMMA DisturbanceKeeps ==
    ASSUME Inv, call' = Disturbed({}),
           body' \in [OwnChains -> Int], jumps' \in [BaseChains -> Nat]
    PROVE  Inv'
  <1>1. \A q \in Callers : call[q] = Idle => call'[q] = Idle
    BY DEF Disturbed
  <1>2. ASSUME NEW q \in Callers, call[q] # Idle
        PROVE  call'[q] \in CallRecords /\ ~call'[q].alone /\ Control(call'[q])
    BY <1>2, DisturbedCalls DEF Inv
  <1>3. call' \in [Callers -> {Idle} \union CallRecords]
    <2>1. \A q \in Callers : Disturbed({})[q] \in {Idle} \union CallRecords
      BY <1>1, <1>2
    <2> QED
      BY <2>1 DEF Disturbed
  <1> QED
    BY <1>1, <1>2, <1>3 DEF Inv, Types

LEMMA ReloadKeeps == ASSUME Inv, Reload PROVE Inv'
  BY DisturbanceKeeps DEF Reload, NoChain

LEMMA RuntimeExitsKeeps == ASSUME Inv, RuntimeExits PROVE Inv'
  BY DisturbanceKeeps DEF RuntimeExits, fwVars, Inv, Types

(* The device is nothing that a call has promised.                         *)
LEMMA TunUpKeeps == ASSUME Inv, TunUp PROVE Inv'
  <1>1. ASSUME NEW p \in Callers, Cleaned(call[p]), Added(call[p]), Answers(call[p])
        PROVE  Cleaned(call[p])' /\ Added(call[p])' /\ Answers(call[p])'
    BY <1>1 DEF TunUp, Cleaned, Added, Answers, NoJumps, NoBodies, Routed, Complete,
                Installed, NothingLeft, fwVars, ipVars, ruleVars
  <1>2. Types' /\ call' = call
    BY DEF TunUp, Inv, Types, fwVars, ruleVars
  <1> QED
    BY <1>1, <1>2 DEF Inv, Sole

LEMMA StutterKeeps == ASSUME Inv, UNCHANGED vars PROVE Inv'
  <1>1. ASSUME NEW p \in Callers, Cleaned(call[p]), Added(call[p]), Answers(call[p])
        PROVE  Cleaned(call[p])' /\ Added(call[p])' /\ Answers(call[p])'
    BY <1>1 DEF vars, Cleaned, Added, Answers, NoJumps, NoBodies, Routed, Complete,
                Installed, NothingLeft, fwVars, ipVars, ruleVars, runVars
  <1>2. Types' /\ call' = call
    BY DEF vars, Inv, Types, fwVars, ruleVars
  <1> QED
    BY <1>1, <1>2 DEF Inv, Sole

(* A call that begins disturbs the others, and they it.                    *)
LEMMA BeginKeeps == ASSUME Inv, NEW p \in Callers, Begin(p) PROVE Inv'
  <1>1. PICK r \in Requests : Begin(p)!(r)
    BY DEF Begin
  <1> DEFINE c == [service |-> r.service, guarded |-> r.guarded, takeover |-> r.takeover,
                   pc |-> "service", base |-> 1, then |-> "done", seen |-> FALSE,
                   applied |-> FALSE, stopped |-> FALSE, refused |-> FALSE,
                   error |-> "none", alone |-> \A q \in Callers \ {p} : call[q] = Idle]
  <1>2. call' = [Disturbed({p}) EXCEPT ![p] = c]
    BY <1>1
  <1>3. c \in CallRecords
    BY DEF CallRecords, Steps
  <1>4. /\ c.pc = "service" /\ Control(c)
        /\ c.alone = (\A q \in Callers \ {p} : call[q] = Idle)
    BY DEF Control, ApplySteps, CleanupSteps
  <1> HIDE DEF c
  <1>5. /\ DOMAIN call' = Callers /\ call' = [q \in Callers |-> call'[q]]
        /\ call'[p] = c
        /\ \A q \in Callers \ {p} : call'[q] = Disturbed({p})[q]
    BY <1>2 DEF Disturbed
  <1>6. \A q \in Callers \ {p} : call[q] = Idle => call'[q] = Idle
    BY <1>5 DEF Disturbed
  <1>7. ASSUME NEW q \in Callers \ {p}, call[q] # Idle
        PROVE  call'[q] \in CallRecords /\ ~call'[q].alone /\ Control(call'[q])
    BY <1>5, <1>7, DisturbedCalls DEF Inv
  <1>8. Types'
    <2>1. \A q \in Callers : call'[q] \in {Idle} \union CallRecords
      BY <1>3, <1>5, <1>6, <1>7
    <2>2. call' \in [Callers -> {Idle} \union CallRecords]
      BY <1>5, <2>1
    <2> QED
      BY <1>1, <2>2 DEF Inv, Types, fwVars, ruleVars
  <1>9. c.alone => Sole(p)'
    BY <1>4, <1>6 DEF Sole
  <1>10. Cleaned(call[p])' /\ Added(call[p])' /\ Answers(call[p])'
    BY <1>4, <1>5 DEF Cleaned, Added, Answers
  <1> QED
    BY <1>4, <1>5, <1>6, <1>7, <1>8, <1>9, <1>10 DEF Inv

-----------------------------------------------------------------------------
LEMMA InitKeeps == Init => Inv
  <1> SUFFICES ASSUME Init PROVE Inv
    OBVIOUS
  <1>1. \A p \in Callers : call[p] = Idle
    BY DEF Init
  <1>2. Types
    BY DEF Init, Types, NoChain
  <1> QED
    BY <1>1, <1>2 DEF Inv

LEMMA NextKeeps == Inv /\ [Next]_vars => Inv'
  <1> SUFFICES ASSUME Inv, [Next]_vars PROVE Inv'
    OBVIOUS
  <1>1. ASSUME NEW p \in Callers, Step(p) PROVE Inv'
    BY <1>1,
       BeginKeeps, ReturnKeeps, KilledKeeps, LeaveKeeps, StartRuntimeKeeps,
       RestopKeeps, StopGuardKeeps, StopRuntimeKeeps, ChooseKeeps,
       CheckFw4Keeps, CleanupJumpsKeeps, CleanupChainsKeeps,
       CleanupSetsKeeps, CleanupIpKeeps, CleanupFilesKeeps, WaitTunKeeps,
       DiscoverDomainsKeeps, DeleteRulesKeeps, AddRuleKeeps, AddSetsKeeps,
       AddLocalDnsKeeps, AddTakeoverKeeps, AddPostKeeps, WriteStatusKeeps,
       VerifyKeeps, ChecksKeeps DEF Step
  <1> QED
    BY <1>1, ReloadKeeps, RuntimeExitsKeeps, TunUpKeeps, StutterKeeps DEF Next

\* A call of the router's scripts knows what it has removed and added so far, and
\* the rules are as it left them as long as nothing disturbs it.
THEOREM Invariance == Spec => []Inv
  BY InitKeeps, NextKeeps, PTL DEF Spec

(* A call that nothing disturbed answers the truth: after an apply all the *)
(* rules are there, once; after a stop, or an apply whose script failed,   *)
(* none; and while a stop of the runtime is refused, traffic goes to it.   *)
THEOREM Answered == Spec => []TakeoverAnswers
  <1>1. Inv => TakeoverAnswers
    <2> SUFFICES ASSUME Inv, NEW p \in Callers, call[p].pc = "done", call[p].alone
                 PROVE  Answers(call[p])
      BY DEF TakeoverAnswers, Answers
    <2>1. call[p] # Idle
      BY DEF Idle
    <2> QED
      BY <2>1, Here
  <1> QED
    BY <1>1, Invariance, PTL
=============================================================================
