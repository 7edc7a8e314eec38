----------------------------- MODULE Components -----------------------------
(***************************************************************************)
(* The parts that localClash downloads into its workspace: the two Mihomo  *)
(* cores, the base assets and the dashboard, with the cache of the core's  *)
(* version that the bootstrap of every command reads, and the reset.       *)
(*                                                                         *)
(* Every command is a process of its own and no two of them share a lock.  *)
(* A command has one part, the desired state that `apply' executes has     *)
(* several: cores, dashboard, runtime profile and runtime, in this order.  *)
(* A release is a number, a file the release it is from.  The bytes of a   *)
(* core that is being downloaded are told apart as far as two writers can  *)
(* mix them; every other file is written at once or torn.                  *)
(***************************************************************************)
EXTENDS Integers, Sequences, FiniteSets

CONSTANTS
    Callers,       \* commands that run at the same time
    Requests,      \* what a command may be asked for: sequences of parts
    Candidates,    \* the mirrors of a URL and the URL
    None,
    MaxCalls,      \* commands of a run
    MaxMishaps,    \* failures of the network or of the disk, and crashes
    MaxReleases    \* releases that are published

VARIABLES
    latest,        \* the newest release
    core,          \* flavor -> its installed file, or None
    temp,          \* flavor -> the file at <core>.download, or None
    active,        \* the flavor of the runtime profile
    cache,         \* core-version.json, or None
    assets,        \* base asset -> its release, Torn or None
    dashboard,     \* None, or file -> its release, Torn or None
    running,       \* whether a runtime runs
    call,
    shared,        \* flavors that two downloads have ever fetched together
    calls, mishaps

vars == <<latest, core, temp, active, cache, assets, dashboard, running, call, shared,
          calls, mishaps>>
coreVars == <<core, temp, shared>>
treeVars == <<active, cache, assets, dashboard, running>>

Flavors == {"meta", "smart"}
Assets == {"templates", "geodata"}
DashboardFiles == {"index.html", "assets"}
Torn == 0
Releases == 1..MaxReleases

Idle == [pc |-> "idle"]
NoDashboard == [x \in DashboardFiles |-> None]

\* What a command may be asked to do, and the order of a desired state
Kinds == {"cores", "switch", "assets", "dashboard", "reset", "start"}
\* (tell: whether a refresh of the core's version follows; openClash: whether
\* the target is one that OpenClash has a Meta core for).
Parts == [kind : Kinds, force : BOOLEAN, tell : BOOLEAN, openClash : BOOLEAN,
          flavors : Seq(Flavors), to : Flavors]
Order == <<"cores", "dashboard", "switch", "start">>
Precedes(first, then) ==
    \E i, j \in DOMAIN Order : i < j /\ Order[i] = first.kind /\ Order[j] = then.kind

\* What is on a disk: releases that bytes are from.
Contents == Releases \union {Torn, None}
CoreFiles == [from : SUBSET Releases, by : Callers \union {None}]
ResetTargets == {"cache", "dashboard", "geodata", "profile"}

ASSUME RequestsAssumption ==
    \A request \in Requests :
        /\ request \in Seq(Parts) /\ request # <<>>
        /\ \A i \in DOMAIN request : request[i].kind = "cores" => request[i].flavors # <<>>
        /\ \A i, j \in DOMAIN request : i < j => Precedes(request[i], request[j])
ASSUME BoundsAssumption ==
    Candidates \in Nat \ {0} /\ MaxReleases \in Nat \ {0} /\ MaxCalls \in Nat /\ MaxMishaps \in Nat
ASSUME NoneAssumption ==
    None \notin Callers \union CoreFiles \union [DashboardFiles -> Contents]

-----------------------------------------------------------------------------
(* A core's file: the releases its bytes are from, and the writer that has *)
(* truncated it last as long as it writes.                                 *)

Whole(file) == file # None /\ file.by = None /\ Cardinality(file.from) = 1
Release(file) == CHOOSE r \in file.from : TRUE

\* What a writer leaves that ends: all of the release, or a part of it.
Finish(file, p) == IF file # None /\ file.by = p THEN [file EXCEPT !.by = None] ELSE file
Spoil(file, p) == IF file # None /\ file.by = p THEN [from |-> {}, by |-> None] ELSE file

\* The flavor that p downloads, and who has its file open: at the temporary
\* path, at the core's after another one's rename, or nowhere any more.
Flavor(p) == Head(call[p].flavors)
Fetching(p) == call[p].pc \in {"open", "copy", "install", "cleanup"}
Holds(p, f, place) == Fetching(p) /\ Flavor(p) = f /\ call[p].at = place

\* The calls when the file at place is now at another one, or at none.
Moved(f, from, to) ==
    [q \in Callers |-> IF Holds(q, f, from) THEN [call[q] EXCEPT !.at = to] ELSE call[q]]

Others(p) == {q \in Callers \ {p} : call[q].pc # "idle"}
Goto(p, pc) == call' = [call EXCEPT ![p].pc = pc]
Answer(p, ok) == call' = [call EXCEPT ![p].pc = "done", ![p].ok = ok]
Warn(p) == call' = [call EXCEPT ![p].pc = "done", ![p].ok = TRUE, ![p].warned = TRUE]
Mishap == mishaps < MaxMishaps /\ mishaps' = mishaps + 1
NoMishap == UNCHANGED <<latest, calls, mishaps>>

-----------------------------------------------------------------------------

Init ==
    /\ latest = 1
    /\ core \in [Flavors -> {None, [from |-> {1}, by |-> None]}]
    /\ temp = [f \in Flavors |-> None]
    /\ active = "meta" /\ cache = None
    /\ assets = [x \in Assets |-> None] /\ dashboard = None
    /\ running = FALSE
    /\ call = [p \in Callers |-> Idle]
    /\ shared = {}
    /\ calls = 0 /\ mishaps = 0

Publish ==
    /\ latest < MaxReleases /\ latest' = latest + 1
    /\ UNCHANGED <<coreVars, treeVars, call, calls, mishaps>>

(* A command: its bootstrap, then its parts until one fails.               *)

FirstPc(part) ==
    CASE part.kind = "cores" -> "fetch"
      [] part.kind = "switch" -> "switch"
      [] part.kind = "assets" -> "manifest"
      [] part.kind = "dashboard" -> "replace"
      [] part.kind = "reset" -> "check"
      [] part.kind = "start" -> "start"

\* core: what the profile named at the bootstrap, ask: what is asked for its
\* version; did: the parts that are done, with what they fetched; warned: a
\* refresh of the version has failed, which is in the answer.
Begin(p) ==
    \E request \in Requests :
        /\ call[p] = Idle
        /\ calls < MaxCalls /\ calls' = calls + 1
        /\ call' = [q \in Callers |->
              IF q = p THEN
                 [parts |-> request, did |-> <<>>, flavors |-> <<>>,
                  pc |-> "inspect", core |-> active, ask |-> active, seen |-> None,
                  release |-> None, urls |-> 0, at |-> None, again |-> TRUE, left |-> {},
                  ok |-> TRUE, warned |-> FALSE, sole |-> Others(p) = {}]
              ELSE IF call[q] = Idle THEN Idle ELSE [call[q] EXCEPT !.sole = FALSE]]
        /\ UNCHANGED <<coreVars, treeVars, latest, mishaps>>

Part(p) == Head(call[p].parts)
Is(p, kind) == Part(p).kind = kind

Enter(c, parts) ==
    [c EXCEPT !.parts = parts, !.pc = FirstPc(Head(parts)), !.flavors = Head(parts).flavors,
              !.again = TRUE, !.left = {}]

Main(p) == call' = [call EXCEPT ![p] = Enter(@, @.parts)]

NextPart(p) ==
    /\ call[p].pc = "done" /\ call[p].ok /\ Len(call[p].parts) > 1
    /\ LET done == [part |-> Part(p), release |-> call[p].release]
       IN call' = [call EXCEPT ![p] =
             [Enter(call[p], Tail(call[p].parts)) EXCEPT !.did = Append(@, done)]]
    /\ UNCHANGED <<coreVars, treeVars>> /\ NoMishap

\* The version is the cached one of the same path, or what the core prints:
\* one that is torn prints none.
Inspect(p) ==
    LET file == core[call[p].core]
        known == cache # None /\ cache.core = call[p].core
    IN /\ call[p].pc = "inspect"
       /\ IF Whole(file) /\ ~known
          THEN call' = [call EXCEPT ![p].pc = "save", ![p].seen = Release(file)]
          ELSE Main(p)
       /\ UNCHANGED <<coreVars, treeVars>> /\ NoMishap

SaveCache(p) ==
    /\ call[p].pc = "save"
    /\ Main(p)
    /\ \/ cache' = [core |-> call[p].core, release |-> call[p].seen] /\ NoMishap
       \/ UNCHANGED <<cache, latest, calls>> /\ Mishap
    /\ UNCHANGED <<coreVars, active, assets, dashboard, running>>

(* RefreshCoreVersionCache.                                                *)

Switch(p) ==
    /\ call[p].pc = "switch"
    /\ \/ /\ active' = Part(p).to
          /\ call' = [call EXCEPT ![p].pc = "clear", ![p].ask = Part(p).to]
          /\ NoMishap
       \/ /\ Answer(p, FALSE)
          /\ Mishap /\ UNCHANGED <<active, latest, calls>>
    /\ UNCHANGED <<coreVars, cache, assets, dashboard, running>>

\* (for a mutant) A cache that is there is kept.
BugClearCache(p) ==
    /\ call[p].pc = "clear"
    /\ IF cache = None THEN Goto(p, "ask") ELSE Answer(p, TRUE)
    /\ UNCHANGED <<coreVars, treeVars>> /\ NoMishap

\* Whether the remove succeeds is not looked at.
ClearCache(p) ==
    /\ call[p].pc = "clear"
    /\ Goto(p, "ask")
    /\ \/ cache' = None /\ NoMishap
       \/ UNCHANGED <<cache, latest, calls>> /\ Mishap
    /\ UNCHANGED <<coreVars, active, assets, dashboard, running>>

\* A core that is not there, is torn or does not run prints no version; a
\* refresh that fails is a warning, and a cache that is there stays.
AskCore(p) ==
    LET file == core[call[p].ask]
    IN /\ call[p].pc = "ask"
       /\ \/ /\ Whole(file)
             /\ call' = [call EXCEPT ![p].pc = "tell", ![p].seen = Release(file)]
             /\ NoMishap
          \/ ~Whole(file) /\ Warn(p) /\ NoMishap
          \/ Warn(p) /\ Mishap /\ UNCHANGED <<latest, calls>>
       /\ UNCHANGED <<coreVars, treeVars>>

TellCache(p) ==
    /\ call[p].pc = "tell"
    /\ \/ /\ cache' = [core |-> call[p].ask, release |-> call[p].seen]
          /\ Answer(p, TRUE) /\ NoMishap
       \/ /\ Warn(p)
          /\ Mishap /\ UNCHANGED <<cache, latest, calls>>
    /\ UNCHANGED <<coreVars, active, assets, dashboard, running>>

-----------------------------------------------------------------------------
(* The download of the cores, one flavor after the other.                  *)

\* A Meta core that OpenClash does not have is looked for on GitHub; the first
\* flavor that fails ends the command.
Retries(p) == Flavor(p) = "meta" /\ call[p].again /\ Part(p).openClash
Refuse(p) == IF Retries(p) THEN call' = [call EXCEPT ![p].again = FALSE] ELSE Answer(p, FALSE)

\* The release is asked for; a file that is there is refused without force.
FetchRelease(p) ==
    /\ call[p].pc = "fetch"
    /\ \/ /\ core[Flavor(p)] = None \/ Part(p).force
          /\ call' = [call EXCEPT ![p].pc = "open", ![p].release = latest,
                                  ![p].urls = Candidates, ![p].ok = TRUE]
          /\ NoMishap
       \/ /\ core[Flavor(p)] # None /\ ~Part(p).force
          /\ Refuse(p) /\ NoMishap
       \/ /\ Refuse(p)
          /\ Mishap /\ UNCHANGED <<latest, calls>>
    /\ UNCHANGED <<coreVars, treeVars>>

\* O_TRUNC: a file that is there, another download's or one that a crash has
\* left, is emptied, and who has it open goes on writing.
OpenTemp(p) ==
    LET f == Flavor(p)
        writers == {q \in Callers \ {p} : call[q].pc = "copy" /\ Holds(q, f, "temp")}
    IN /\ call[p].pc = "open" /\ call[p].urls > 0
       /\ temp' = [temp EXCEPT ![f] =
             [from |-> {call[p].release} \union {call[q].release : q \in writers}, by |-> p]]
       /\ call' = [call EXCEPT ![p].pc = "copy", ![p].at = "temp"]
       /\ shared' = IF \E q \in Callers \ {p} : Fetching(q) /\ Flavor(q) = f
                    THEN shared \union {f} ELSE shared
       /\ UNCHANGED <<core, treeVars>> /\ NoMishap

Copied(p) ==
    LET f == Flavor(p)
    IN /\ call[p].pc = "copy"
       /\ core' = [core EXCEPT ![f] = Finish(@, p)]
       /\ temp' = [temp EXCEPT ![f] = Finish(@, p)]
       /\ call' = [call EXCEPT ![p].pc = "install", ![p].at = None]
       /\ UNCHANGED <<shared, treeVars>> /\ NoMishap

\* (for a mutant) A body that ends early is taken for the end of the file.
BugCopyFailed(p) ==
    LET f == Flavor(p)
    IN /\ call[p].pc = "copy"
       /\ core' = [core EXCEPT ![f] = Spoil(@, p)]
       /\ temp' = [temp EXCEPT ![f] = Spoil(@, p)]
       /\ call' = [call EXCEPT ![p].pc = "install", ![p].at = None]
       /\ Mishap /\ UNCHANGED <<shared, treeVars, latest, calls>>

\* The file is removed, whoever has it open, and the next URL is tried.
CopyFailed(p) ==
    LET f == Flavor(p)
    IN /\ call[p].pc = "copy"
       /\ core' = [core EXCEPT ![f] = Spoil(@, p)]
       /\ temp' = [temp EXCEPT ![f] = None]
       /\ call' = [Moved(f, "temp", "gone") EXCEPT
                     ![p].pc = "open", ![p].urls = @ - 1, ![p].at = None]
       /\ Mishap /\ UNCHANGED <<shared, treeVars, latest, calls>>

NoUrlLeft(p) ==
    /\ call[p].pc = "open" /\ call[p].urls = 0
    /\ call' = [call EXCEPT ![p].pc = "cleanup", ![p].ok = FALSE]
    /\ UNCHANGED <<coreVars, treeVars>> /\ NoMishap

\* chmod and rename: the file at the temporary path is there or not.
InstallCore(p) ==
    LET f == Flavor(p)
        moved == [q \in Callers |->
                    IF Holds(q, f, "temp") THEN [call[q] EXCEPT !.at = "core"]
                    ELSE IF Holds(q, f, "core") THEN [call[q] EXCEPT !.at = "gone"]
                    ELSE call[q]]
    IN /\ call[p].pc = "install"
       /\ \/ /\ temp[f] # None
             /\ core' = [core EXCEPT ![f] = temp[f]]
             /\ temp' = [temp EXCEPT ![f] = None]
             /\ call' = [moved EXCEPT ![p].pc = "cleanup"]
             /\ NoMishap
          \/ /\ temp[f] = None
             /\ call' = [call EXCEPT ![p].pc = "cleanup", ![p].ok = FALSE]
             /\ UNCHANGED <<core, temp>> /\ NoMishap
          \/ /\ call' = [call EXCEPT ![p].pc = "cleanup", ![p].ok = FALSE]
             /\ UNCHANGED <<core, temp, latest, calls>> /\ Mishap
       /\ UNCHANGED <<shared, treeVars>>

\* The deferred remove.
CleanupTemp(p) ==
    LET f == Flavor(p)
        retry == ~call[p].ok /\ Retries(p)
        more == call[p].ok /\ Len(call[p].flavors) > 1
        pc == IF more \/ retry THEN "fetch"
              ELSE IF call[p].ok /\ Part(p).tell THEN "clear" ELSE "done"
    IN /\ call[p].pc = "cleanup"
       /\ temp' = [temp EXCEPT ![f] = None]
       /\ call' = [Moved(f, "temp", "gone") EXCEPT
                     ![p].pc = pc, ![p].at = None,
                     ![p].again = @ /\ ~retry,
                     ![p].flavors = IF more THEN Tail(@) ELSE @]
       /\ UNCHANGED <<core, shared, treeVars>> /\ NoMishap

-----------------------------------------------------------------------------
(* The base assets: an archive of the manifest's release whose hash is     *)
(* right is unpacked over what is there.                                   *)

FetchAssets(p) ==
    /\ call[p].pc = "manifest"
    /\ \/ /\ call' = [call EXCEPT ![p].pc = "unpack", ![p].release = latest, ![p].left = Assets]
          /\ NoMishap
       \/ Answer(p, FALSE) /\ Mishap /\ UNCHANGED <<latest, calls>>
    /\ UNCHANGED <<coreVars, treeVars>>

UnpackAsset(p) ==
    /\ call[p].pc = "unpack" /\ Is(p, "assets")
    /\ \E x \in call[p].left :
          \/ /\ assets' = [assets EXCEPT ![x] = call[p].release]
             /\ call' = [call EXCEPT ![p].left = @ \ {x}]
             /\ NoMishap
          \/ /\ assets' = [assets EXCEPT ![x] = Torn]
             /\ Answer(p, FALSE)
             /\ Mishap /\ UNCHANGED <<latest, calls>>
    /\ UNCHANGED <<coreVars, active, cache, dashboard, running>>

AssetsStatus(p) ==
    /\ call[p].pc = "unpack" /\ Is(p, "assets") /\ call[p].left = {}
    /\ Answer(p, \A x \in Assets : assets[x] # None)
    /\ UNCHANGED <<coreVars, treeVars>> /\ NoMishap

(* The dashboard: the directory is emptied before anything is fetched.     *)

\* A direct download that fails is tried once more through the API, which
\* finds the directory that the first attempt has made.
FallBack(p) ==
    call' = IF call[p].again THEN [call EXCEPT ![p].pc = "replace", ![p].again = FALSE]
            ELSE [call EXCEPT ![p].pc = "done", ![p].ok = FALSE]

ReplaceDashboard(p) ==
    /\ call[p].pc = "replace"
    /\ IF dashboard # None /\ ~Part(p).force
       THEN FallBack(p) /\ UNCHANGED dashboard
       ELSE Goto(p, "download") /\ dashboard' = NoDashboard
    /\ UNCHANGED <<coreVars, active, cache, assets, running>> /\ NoMishap

DownloadDashboard(p) ==
    /\ call[p].pc = "download"
    /\ \/ /\ call' = [call EXCEPT ![p].pc = "unpack", ![p].release = latest,
                                  ![p].left = DashboardFiles]
          /\ NoMishap
       \/ FallBack(p) /\ Mishap /\ UNCHANGED <<latest, calls>>
    /\ UNCHANGED <<coreVars, treeVars>>

\* A directory that a reset has removed is made again.
UnpackDashboard(p) ==
    LET tree == IF dashboard = None THEN NoDashboard ELSE dashboard
    IN /\ call[p].pc = "unpack" /\ Is(p, "dashboard")
       /\ \E x \in call[p].left :
             \/ /\ dashboard' = [tree EXCEPT ![x] = call[p].release]
                /\ call' = [call EXCEPT ![p].left = @ \ {x}]
                /\ NoMishap
             \/ /\ dashboard' = [tree EXCEPT ![x] = Torn]
                /\ FallBack(p)
                /\ Mishap /\ UNCHANGED <<latest, calls>>
       /\ UNCHANGED <<coreVars, active, cache, assets, running>>

VerifyDashboard(p) ==
    /\ call[p].pc = "unpack" /\ Is(p, "dashboard") /\ call[p].left = {}
    /\ IF dashboard # None /\ dashboard["index.html"] # None
       THEN Answer(p, TRUE) ELSE FallBack(p)
    /\ UNCHANGED <<coreVars, treeVars>> /\ NoMishap

-----------------------------------------------------------------------------
(* The reset, and the start of a runtime that it must not meet.            *)

ResetCheck(p) ==
    /\ call[p].pc = "check"
    /\ IF running THEN Answer(p, FALSE)
       ELSE call' = [call EXCEPT ![p].pc = "remove", ![p].left = ResetTargets]
    /\ UNCHANGED <<coreVars, treeVars>> /\ NoMishap

\* .runtime goes first, in any order, the runtime profile after it.
ResetRemove(p) ==
    /\ call[p].pc = "remove"
    /\ \E x \in call[p].left :
          /\ x = "profile" => call[p].left = {"profile"}
          /\ \/ /\ cache' = IF x = "cache" THEN None ELSE cache
                /\ dashboard' = IF x = "dashboard" THEN None ELSE dashboard
                /\ assets' = IF x = "geodata" THEN [assets EXCEPT ![x] = None] ELSE assets
                /\ active' = IF x = "profile" THEN "meta" ELSE active
                /\ call' = [call EXCEPT ![p].left = @ \ {x},
                                        ![p].pc = IF x = "profile" THEN "done" ELSE @]
                /\ NoMishap
             \/ /\ Answer(p, FALSE)
                /\ UNCHANGED <<active, cache, assets, dashboard>>
                /\ Mishap /\ UNCHANGED <<latest, calls>>
    /\ UNCHANGED <<coreVars, running>>

\* The core that the bootstrap found in the profile, whatever an earlier part
\* has switched to; a refresh of its version follows.
Start(p) ==
    /\ call[p].pc = "start"
    /\ running' = (running \/ Whole(core[call[p].core]))
    /\ IF running' THEN call' = [call EXCEPT ![p].pc = "clear", ![p].ask = call[p].core]
       ELSE Answer(p, FALSE)
    /\ UNCHANGED <<coreVars, active, cache, assets, dashboard>> /\ NoMishap

Return(p) ==
    /\ call[p].pc = "done" /\ (call[p].ok => Len(call[p].parts) = 1)
    /\ call' = [call EXCEPT ![p] = Idle]
    /\ UNCHANGED <<coreVars, treeVars>> /\ NoMishap

\* A command dies: no deferred call runs, and what it wrote stays as it is;
\* the entry of an archive that it was writing may be there in part.
Crash(p) ==
    LET files == IF Fetching(p) THEN {Flavor(p)} ELSE {}
        torn(kind) == IF call[p].pc = "unpack" /\ Is(p, kind) THEN call[p].left ELSE {}
    IN /\ call[p].pc \notin {"idle", "done"}
       /\ core' = [f \in Flavors |-> IF f \in files THEN Spoil(core[f], p) ELSE core[f]]
       /\ temp' = [f \in Flavors |-> IF f \in files THEN Spoil(temp[f], p) ELSE temp[f]]
       /\ \/ UNCHANGED <<assets, dashboard>>
          \/ /\ \E x \in torn("assets") : assets' = [assets EXCEPT ![x] = Torn]
             /\ UNCHANGED dashboard
          \/ /\ dashboard # None
             /\ \E x \in torn("dashboard") : dashboard' = [dashboard EXCEPT ![x] = Torn]
             /\ UNCHANGED assets
       /\ call' = [call EXCEPT ![p] = Idle]
       /\ Mishap /\ UNCHANGED <<shared, active, cache, running, latest, calls>>

-----------------------------------------------------------------------------

Step(p) ==
    \/ Begin(p) \/ Inspect(p) \/ SaveCache(p) \/ NextPart(p) \/ Return(p) \/ Crash(p)
    \/ Switch(p) \/ ClearCache(p) \/ AskCore(p) \/ TellCache(p)
    \/ FetchRelease(p) \/ OpenTemp(p) \/ Copied(p) \/ CopyFailed(p) \/ NoUrlLeft(p)
    \/ InstallCore(p) \/ CleanupTemp(p)
    \/ FetchAssets(p) \/ UnpackAsset(p) \/ AssetsStatus(p)
    \/ ReplaceDashboard(p) \/ DownloadDashboard(p) \/ UnpackDashboard(p) \/ VerifyDashboard(p)
    \/ ResetCheck(p) \/ ResetRemove(p) \/ Start(p)

Next == Publish \/ \E p \in Callers : Step(p)

Spec == Init /\ [][Next]_vars

-----------------------------------------------------------------------------

\* The core that a runtime would start is whole, whatever download failed or
\* died, as long as no two of them have fetched it at the same time: they
\* write, rename and remove one temporary file.
CoresWhole == \A f \in Flavors \ shared : core[f] # None => Whole(core[f])

CacheTrue(f) == cache # None /\ cache.core = f => cache.release = Release(core[f])

\* What a part of a command has answered that ran alone.
Kept(p, part, release) ==
    CASE part.kind = "cores" ->
            /\ \A f \in {part.flavors[i] : i \in DOMAIN part.flavors} : Whole(core[f]) /\ temp[f] = None
            /\ part.tell => call[p].warned \/ CacheTrue(call[p].core)
      [] part.kind = "switch" ->
            active = part.to /\ (call[p].warned \/ CacheTrue(active))
      [] part.kind = "assets" ->
            \A x \in Assets : assets[x] = release
      [] part.kind = "dashboard" ->
            \A x \in DashboardFiles : dashboard[x] = release
      [] part.kind = "reset" ->
            /\ cache = None /\ dashboard = None /\ active = "meta"
            /\ assets["geodata"] = None /\ ~running
      [] part.kind = "start" -> running

\* What a command answers that ran alone is so, of each of its parts still
\* at the end of the last: the cores it downloaded are there, without a rest
\* of the download, and after an update or a switch the cached version of
\* the core in use is the one it has, or the answer has a warning that the
\* refresh failed; all the files of the assets and of the
\* dashboard are of one release; after a reset no trace of them is left, and
\* no runtime runs there.
AnswersHold ==
    \A p \in Callers :
        (call[p].pc = "done" /\ call[p].ok /\ call[p].sole) =>
            /\ Kept(p, Part(p), call[p].release)
            /\ \A i \in DOMAIN call[p].did :
                  Kept(p, call[p].did[i].part, call[p].did[i].release)

=============================================================================
