--------------------------- MODULE RouterTakeover ---------------------------
(***************************************************************************)
(* The router takeover: the shell scripts that install and remove          *)
(* localClash's rules in OpenWrt's firewall, step by step, and the calls   *)
(* around them: router_takeover_apply and _stop, stop_runtime's guard, and *)
(* the runtime part of the command line's desired state, of which          *)
(* `takeover apply', `takeover stop', `runtime start' and `runtime stop'   *)
(* are single steps.                                                       *)
(*                                                                         *)
(* Every script is a process and takes no lock.  `nft -f' is atomic, every *)
(* other command a step of its own.  The rules are told apart by what the  *)
(* scripts and the verification treat differently; IPv6's are installed    *)
(* on a best effort and left out.                                          *)
(***************************************************************************)
EXTENDS Integers, Sequences, FiniteSets

CONSTANTS
    Callers,       \* calls that run at the same time
    Requests,      \* what is asked for: service, guarded, takeover
    MaxCalls,
    MaxMishaps     \* commands that fail, scripts that are killed, and what
                   \* the firewall and the runtime do by themselves

VARIABLES
    table,         \* whether the table inet fw4 is there
    sets,          \* localClash's sets in it
    body,          \* localClash's chain -> copies of its rules, or NoChain
    jumps,         \* chain of the firewall -> localClash's rules in it
    ipRules,       \* rules of the fwmark
    route,         \* whether its table has a default route, to the TUN device
    files,         \* the state directory's files
    running,       \* the runtime
    tun,           \* its device
    call, calls, mishaps

fwVars == <<table, sets, body, jumps>>
ipVars == <<ipRules, route>>
runVars == <<running, tun>>
ruleVars == <<fwVars, ipVars, files>>
vars == <<ruleVars, runVars, call, calls, mishaps>>

\* The chain that a rule of dstnat or mangle_prerouting jumps to is named
\* after that chain.
OwnChains == {"dstnat", "mangle_prerouting"}
Bases == <<"dstnat", "nat_output", "mangle_prerouting", "forward">>
BaseChains == {Bases[i] : i \in DOMAIN Bases}
Sets == {"localnetwork", "localdns4"}
NoChain == -1

Idle == [pc |-> "idle"]

\* Steps of the scripts, in which the deadline may kill them.
CleanupSteps == {"jumps", "chains", "sets", "ip", "files"}
ApplySteps == {"tun", "domains", "rule", "add", "base", "dns", "takeover", "post", "status"}
ScriptSteps == {"check"} \union CleanupSteps \union ApplySteps

Goto(p, pc) == call' = [call EXCEPT ![p].pc = pc]
Cleanup(p, then) == call' = [call EXCEPT ![p].pc = "jumps", ![p].base = 1, ![p].then = then]
Mishap == mishaps < MaxMishaps /\ mishaps' = mishaps + 1 /\ UNCHANGED calls
NoMishap == UNCHANGED <<calls, mishaps>>

\* The calls that something disturbs are not promised anything.
Disturbed(except) ==
    [q \in Callers |-> IF call[q] = Idle \/ q \in except THEN call[q]
                       ELSE [call[q] EXCEPT !.alone = FALSE]]

-----------------------------------------------------------------------------

Init ==
    /\ table = TRUE
    /\ sets = {} /\ body = [c \in OwnChains |-> NoChain]
    /\ jumps = [b \in BaseChains |-> 0]
    /\ ipRules = 0 /\ route = FALSE /\ files = {}
    /\ running \in BOOLEAN /\ tun = running
    /\ call = [p \in Callers |-> Idle]
    /\ calls = 0 /\ mishaps = 0

Begin(p) ==
    \E r \in Requests :
        /\ call[p] = Idle
        /\ calls < MaxCalls /\ calls' = calls + 1
        /\ call' = [Disturbed({p}) EXCEPT ![p] =
              [service |-> r.service, guarded |-> r.guarded, takeover |-> r.takeover,
               pc |-> "service", base |-> 1, then |-> "done", seen |-> FALSE,
               applied |-> FALSE, stopped |-> FALSE, refused |-> FALSE,
               error |-> "none", alone |-> \A q \in Callers \ {p} : call[q] = Idle]]
        /\ UNCHANGED <<ruleVars, runVars, mishaps>>

\* What the firewall and the runtime do by themselves: a reload builds the
\* table anew, and the device of a runtime that exits takes its routes along.
Reload ==
    /\ table' \in BOOLEAN
    /\ sets' = {} /\ body' = [c \in OwnChains |-> NoChain]
    /\ jumps' = [b \in BaseChains |-> 0]
    /\ call' = Disturbed({})
    /\ Mishap /\ UNCHANGED <<ipVars, files, runVars>>

Halt == running' = FALSE /\ tun' = FALSE /\ route' = FALSE

RuntimeExits ==
    /\ running
    /\ Halt
    /\ call' = Disturbed({})
    /\ Mishap /\ UNCHANGED <<fwVars, ipRules, files>>

TunUp ==
    /\ running /\ ~tun /\ tun' = TRUE
    /\ UNCHANGED <<ruleVars, running, call>> /\ NoMishap

-----------------------------------------------------------------------------
(* The runtime's part of a call.                                           *)

\* Every check of the takeover's status.
Effective(seen) ==
    /\ seen /\ table /\ tun
    /\ ipRules > 0 /\ route
    /\ \A c \in OwnChains : body[c] # NoChain
    /\ jumps["dstnat"] > 0 /\ jumps["mangle_prerouting"] > 0
    /\ body["dstnat"] > 0

\* The service of the desired state: what is already so is not done again.
Leave(p) ==
    /\ call[p].pc = "service"
    /\ \/ call[p].service = "leave"
       \/ call[p].service = "start" /\ running
       \/ call[p].service = "stop" /\ ~call[p].guarded /\ ~running
    /\ Goto(p, "choose")
    /\ UNCHANGED <<ruleVars, runVars>> /\ NoMishap

StartRuntime(p) ==
    /\ call[p].pc = "service" /\ ~running
    /\ call[p].service \in {"start", "restart_if_needed"}
    /\ \/ running' = TRUE /\ Goto(p, "choose") /\ NoMishap
       \/ UNCHANGED running /\ call' = [call EXCEPT ![p].pc = "done", ![p].error = "service"]
          /\ Mishap
    /\ UNCHANGED <<ruleVars, tun>>

\* A restart stops the runtime first.
Restop(p) ==
    /\ call[p].pc = "service" /\ call[p].service = "restart_if_needed" /\ running
    /\ Halt
    /\ Goto(p, "service")
    /\ UNCHANGED <<fwVars, ipRules, files>> /\ NoMishap

\* stop_runtime asks for the takeover's status unless it is forced; the
\* command line's stop never does.
StopGuard(p) ==
    /\ call[p].pc = "service" /\ call[p].service = "stop" /\ call[p].guarded
    /\ call' = [call EXCEPT ![p].guarded = FALSE,
                  ![p].pc = IF Effective(running /\ "local_dns4" \in files) THEN "done" ELSE "service",
                  ![p].refused = Effective(running /\ "local_dns4" \in files)]
    /\ UNCHANGED <<ruleVars, runVars>> /\ NoMishap

StopRuntime(p) ==
    /\ call[p].pc = "service" /\ call[p].service = "stop" /\ ~call[p].guarded /\ running
    /\ Halt
    /\ Goto(p, "choose")
    /\ UNCHANGED <<fwVars, ipRules, files>> /\ NoMishap

\* Apply refuses without a runtime; Stop never looks at it.
Choose(p) ==
    /\ call[p].pc = "choose"
    /\ \/ call[p].takeover = "leave" /\ Goto(p, "done")
       \/ call[p].takeover = "disabled" /\ Cleanup(p, "verify")
       \/ call[p].takeover = "enabled" /\ running /\ Goto(p, "check")
       \/ /\ call[p].takeover = "enabled" /\ ~running
          /\ call' = [call EXCEPT ![p].pc = "done", ![p].error = "refused"]
    /\ UNCHANGED <<ruleVars, runVars>> /\ NoMishap

-----------------------------------------------------------------------------
(* The scripts.  set -eu ends one at the first command that fails; from    *)
(* the check on, the trap cleans up before.                                *)

Fails(p) == Cleanup(p, "failed")

CheckFw4(p) ==
    /\ call[p].pc = "check"
    /\ IF table THEN Cleanup(p, "tun")
       ELSE call' = [call EXCEPT ![p].pc = "done", ![p].error = "check"]
    /\ UNCHANGED <<ruleVars, runVars>> /\ NoMishap

\* (for a mutant) A chain of the firewall that the cleanup forgets.
BugCleanupJumps(p) ==
    /\ call[p].pc = "jumps"
    /\ jumps' = [jumps EXCEPT ![Bases[call[p].base]] = IF call[p].base = 2 THEN @ ELSE 0]
    /\ call' = [call EXCEPT ![p].base = @ + 1,
                            ![p].pc = IF call[p].base = Len(Bases) THEN "chains" ELSE @]
    /\ UNCHANGED <<table, sets, body, ipVars, files, runVars>> /\ NoMishap

CleanupJumps(p) ==
    /\ call[p].pc = "jumps"
    /\ jumps' = [jumps EXCEPT ![Bases[call[p].base]] = 0]
    /\ call' = [call EXCEPT ![p].base = @ + 1,
                            ![p].pc = IF call[p].base = Len(Bases) THEN "chains" ELSE @]
    /\ UNCHANGED <<table, sets, body, ipVars, files, runVars>> /\ NoMishap

\* A chain that a rule jumps to again can be flushed and not deleted, a set
\* that a rule names neither; no error ends the cleanup.
CleanupChains(p) ==
    /\ call[p].pc = "chains"
    /\ body' = [c \in OwnChains |->
                  IF body[c] = NoChain \/ jumps[c] = 0 THEN NoChain ELSE 0]
    /\ Goto(p, "sets")
    /\ UNCHANGED <<table, sets, jumps, ipVars, files, runVars>> /\ NoMishap

CleanupSets(p) ==
    /\ call[p].pc = "sets"
    /\ sets' = IF \E c \in OwnChains : body[c] > 0 THEN sets ELSE {}
    /\ Goto(p, "ip")
    /\ UNCHANGED <<table, body, jumps, ipVars, files, runVars>> /\ NoMishap

CleanupIp(p) ==
    /\ call[p].pc = "ip"
    /\ ipRules' = 0 /\ route' = FALSE
    /\ Goto(p, "files")
    /\ UNCHANGED <<fwVars, files, runVars>> /\ NoMishap

CleanupFiles(p) ==
    /\ call[p].pc = "files"
    /\ files' = {}
    /\ call' = [call EXCEPT ![p].pc = IF call[p].then = "failed" THEN "done" ELSE call[p].then,
                            ![p].error = IF call[p].then = "failed" THEN "script" ELSE @]
    /\ UNCHANGED <<fwVars, ipVars, runVars>> /\ NoMishap

\* Thirty seconds without the device fail.
WaitTun(p) ==
    /\ call[p].pc = "tun"
    /\ \/ tun /\ Goto(p, "domains") /\ NoMishap
       \/ ~tun /\ Fails(p) /\ Mishap
    /\ UNCHANGED <<ruleVars, runVars>>

\* A dnsmasq without a domain ends the script here.
DiscoverDomains(p) ==
    /\ call[p].pc = "domains"
    /\ \/ files' = files \union {"local_domains"} /\ Goto(p, "rule") /\ NoMishap
       \/ UNCHANGED files /\ Fails(p) /\ Mishap
    /\ UNCHANGED <<fwVars, ipVars, runVars>>

DeleteRules(p) ==
    /\ call[p].pc = "rule"
    /\ ipRules' = 0
    /\ Goto(p, "add")
    /\ UNCHANGED <<fwVars, route, files, runVars>> /\ NoMishap

\* The route needs the device.
AddRule(p) ==
    /\ call[p].pc = "add"
    /\ ipRules' = ipRules + 1
    /\ route' = (route \/ tun)
    /\ IF tun THEN Goto(p, "base") ELSE Fails(p)
    /\ UNCHANGED <<fwVars, files, runVars>> /\ NoMishap

AddSets(p) ==
    /\ call[p].pc = "base"
    /\ \/ table /\ sets' = Sets /\ Goto(p, "dns") /\ NoMishap
       \/ ~table /\ UNCHANGED sets /\ Fails(p) /\ NoMishap
       \/ UNCHANGED sets /\ Fails(p) /\ Mishap
    /\ UNCHANGED <<table, body, jumps, ipVars, files, runVars>>

\* The addresses of the resolvers that bypass the hijack: there may be none.
AddLocalDns(p) ==
    /\ call[p].pc = "dns"
    /\ \/ files' = files \union {"local_dns4"} /\ NoMishap
       \/ files' = files \ {"local_dns4"} /\ Mishap
    /\ Goto(p, "takeover")
    /\ UNCHANGED <<fwVars, ipVars, runVars>>

\* One transaction; its rules name the sets.
AddTakeover(p) ==
    LET known == table /\ sets = Sets
        added == BaseChains \ {"nat_output"}
    IN /\ call[p].pc = "takeover"
       /\ \/ /\ known
             /\ body' = [c \in OwnChains |-> (IF body[c] = NoChain THEN 0 ELSE body[c]) + 1]
             /\ jumps' = [b \in BaseChains |-> IF b \in added THEN jumps[b] + 1 ELSE jumps[b]]
             /\ Goto(p, "post") /\ NoMishap
          \/ ~known /\ UNCHANGED <<body, jumps>> /\ Fails(p) /\ NoMishap
          \/ UNCHANGED <<body, jumps>> /\ Fails(p) /\ Mishap
       /\ UNCHANGED <<table, sets, ipVars, files, runVars>>

AddPost(p) ==
    /\ call[p].pc = "post"
    /\ \/ /\ table
          /\ jumps' = [jumps EXCEPT !["nat_output"] = @ + 1]
          /\ Goto(p, "status") /\ NoMishap
       \/ ~table /\ UNCHANGED jumps /\ Fails(p) /\ NoMishap
       \/ UNCHANGED jumps /\ Fails(p) /\ Mishap
    /\ UNCHANGED <<table, sets, body, ipVars, files, runVars>>

WriteStatus(p) ==
    /\ call[p].pc = "status"
    /\ files' = files \union {"status"}
    /\ Goto(p, "verify")
    /\ UNCHANGED <<fwVars, ipVars, runVars>> /\ NoMishap

\* The call's deadline kills the shell: no trap runs.
Killed(p) ==
    /\ call[p].pc \in ScriptSteps
    /\ call' = [call EXCEPT ![p].pc = "done", ![p].error = "killed"]
    /\ UNCHANGED <<ruleVars, runVars>> /\ Mishap

\* The status reads the files and the runtime first, then asks for every
\* rule.  An apply answers what it has verified, a stop whatever it finds.
Verify(p) ==
    /\ call[p].pc = "verify"
    /\ call' = [call EXCEPT ![p].pc = "checks", ![p].seen = running /\ "local_dns4" \in files]
    /\ UNCHANGED <<ruleVars, runVars>> /\ NoMishap

Checks(p) ==
    LET apply == call[p].takeover = "enabled"
        effective == Effective(call[p].seen)
    IN /\ call[p].pc = "checks"
       /\ call' = [call EXCEPT ![p].pc = "done",
                     ![p].applied = apply /\ effective, ![p].stopped = ~apply,
                     ![p].error = IF apply /\ ~effective THEN "verification" ELSE @]
       /\ UNCHANGED <<ruleVars, runVars>> /\ NoMishap

Return(p) ==
    /\ call[p].pc = "done"
    /\ call' = [call EXCEPT ![p] = Idle]
    /\ UNCHANGED <<ruleVars, runVars>> /\ NoMishap

-----------------------------------------------------------------------------

Step(p) ==
    \/ Begin(p) \/ Return(p) \/ Killed(p)
    \/ Leave(p) \/ StartRuntime(p) \/ Restop(p) \/ StopGuard(p) \/ StopRuntime(p) \/ Choose(p)
    \/ CheckFw4(p) \/ CleanupJumps(p) \/ CleanupChains(p) \/ CleanupSets(p)
    \/ CleanupIp(p) \/ CleanupFiles(p)
    \/ WaitTun(p) \/ DiscoverDomains(p) \/ DeleteRules(p) \/ AddRule(p)
    \/ AddSets(p) \/ AddLocalDns(p) \/ AddTakeover(p) \/ AddPost(p) \/ WriteStatus(p)
    \/ Verify(p) \/ Checks(p)

Next == Reload \/ RuntimeExits \/ TunUp \/ \E p \in Callers : Step(p)

Spec == Init /\ [][Next]_vars

-----------------------------------------------------------------------------

Installed ==
    /\ sets = Sets
    /\ \A c \in OwnChains : body[c] = 1
    /\ \A b \in BaseChains : jumps[b] = 1
    /\ ipRules = 1 /\ route
    /\ files = {"local_domains", "local_dns4", "status"}

NothingLeft ==
    /\ sets = {}
    /\ \A c \in OwnChains : body[c] = NoChain
    /\ \A b \in BaseChains : jumps[b] = 0
    /\ ipRules = 0 /\ ~route /\ files = {}

\* A call that nothing disturbed tells the truth about the whole takeover,
\* also what its verification does not look at, and whatever calls before it
\* that overlapped, were killed or lost their rules to a reload have left:
\* after an apply every rule is there and there once; after a stop, or an
\* apply whose script failed, nothing is left; and where a stop of the
\* runtime was refused, router traffic does go to it.
TakeoverAnswers ==
    \A p \in Callers :
        (call[p].pc = "done" /\ call[p].alone) =>
            /\ call[p].applied => Installed
            /\ call[p].stopped => NothingLeft
            /\ call[p].error = "script" => NothingLeft
            /\ call[p].refused => running /\ route /\ jumps["dstnat"] > 0

=============================================================================
