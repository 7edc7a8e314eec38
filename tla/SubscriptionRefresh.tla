------------------------ MODULE SubscriptionRefresh ------------------------
(***************************************************************************)
(* Subscriptions: the configured sources, the artifact file of each, and   *)
(* the merged subscription that the render pipeline reads.  A refresh      *)
(* fetches the selected sources with a pool of workers, each of which      *)
(* writes the artifact of its source through a temporary file, then reads  *)
(* the artifacts of the others and writes the merged file the same way.    *)
(* Refreshes of the server's tasks and of the command line may overlap.    *)
(*                                                                         *)
(* Source: internal/subscriptions/subscriptions.go.                        *)
(*                                                                         *)
(* Abstractions.  What a provider serves is a version number, the proxies  *)
(* of a source are the version they came with, and a document says which   *)
(* version of which sources it holds (0: none).  Two writers of one inode  *)
(* leave the bytes of either, or bytes that no reader can decode.          *)
(***************************************************************************)
EXTENDS Naturals, FiniteSets

CONSTANTS
    Calls,          \* refreshes that may overlap
    Sources,        \* subscription sources
    Merged,         \* the name of the merged file
    Workers,        \* refreshFetchConcurrency
    MaxServed,      \* bound: versions of each source
    MaxRefreshes,   \* bound: refreshes
    MaxConfigures,  \* bound: changes of the source list
    MaxFaults       \* bound: processes that die and writes that fail

ASSUME SubscriptionAssumption ==
    /\ Merged \notin Sources
    /\ IsFiniteSet(Sources)
    /\ Workers \in Nat \ {0}
    /\ {MaxServed, MaxRefreshes, MaxConfigures, MaxFaults} \subseteq Nat
    /\ MaxServed > 0

Names == Sources \cup {Merged}

Doc == [Sources -> 0 .. MaxServed]
Nothing == [s \in Sources |-> 0]
Only(s, version) == [Nothing EXCEPT ![s] = version]

(* A file: whether its bytes decode, to what, which calls have it open for *)
(* writing, and whether two of them had it open at once.                   *)
File == [exists : BOOLEAN, whole : BOOLEAN, doc : Doc, open : SUBSET Calls, mixed : BOOLEAN]
NoFile == [exists |-> FALSE, whole |-> FALSE, doc |-> Nothing, open |-> {}, mixed |-> FALSE]

(* How far the write of a file is.                                         *)
Writing == {"open", "encode", "rename"}

(* How far a call is with a source: waiting for a worker, with a worker,   *)
(* or through; "none" of one that is not selected, until it is read.       *)
Busy == {"fetch"} \cup Writing
Job == {"none", "queued", "done", "failed", "read", "missing"} \cup Busy

(* What a call has selected and fetched, whether its context is cancelled, *)
(* no other ran since it began, and, when it is idle, the last one         *)
(* succeeded.                                                              *)
Call == [at : {"idle", "fetch", "read", "encode", "rename"},
         sources : SUBSET Sources, job : [Sources -> Job], docs : Doc,
         cancelled : BOOLEAN, alone : BOOLEAN, ok : BOOLEAN]

Returned(ok) ==
    [at |-> "idle", cancelled |-> FALSE, alone |-> FALSE, sources |-> {},
     job |-> [s \in Sources |-> "none"], docs |-> Nothing, ok |-> ok]

VARIABLES
    config,      \* the sources in localclash-subscriptions.json
    served,      \* the version each provider serves
    disk,        \* the artifact of each source, and the merged file
    temp,        \* the ".tmp" file of each
    call,        \* local state of each refresh
    raced,       \* history: whether two refreshes ever overlapped
    refreshes, configures, faults

counters == <<refreshes, configures, faults>>
vars == <<config, served, disk, temp, call, raced, counters>>

TypeOK ==
    /\ config \subseteq Sources
    /\ served \in [Sources -> 1 .. MaxServed]
    /\ disk \in [Names -> File]
    /\ temp \in [Names -> File]
    /\ call \in [Calls -> Call]
    /\ raced \in BOOLEAN
    /\ refreshes \in 0 .. MaxRefreshes
    /\ configures \in 0 .. MaxConfigures
    /\ faults \in 0 .. MaxFaults

Init ==
    /\ config = Sources
    /\ served = [s \in Sources |-> 1]
    /\ disk = [n \in Names |-> NoFile]
    /\ temp = [n \in Names |-> NoFile]
    /\ call = [c \in Calls |-> Returned(FALSE)]
    /\ raced = FALSE
    /\ refreshes = 0
    /\ configures = 0
    /\ faults = 0

Active == {c \in Calls : call[c].at # "idle"}

With(c, jobs) == {s \in Sources : call[c].job[s] \in jobs}

Return(c, ok) == call' = [call EXCEPT ![c] = Returned(ok)]

SetJob(c, s, job) == call' = [call EXCEPT ![c].job[s] = job]

Fault == faults < MaxFaults /\ faults' = faults + 1
NoFault == UNCHANGED faults

-----------------------------------------------------------------------------
(* What subscriptions_configure accepts: sources that differ in their      *)
(* canonical URI, and at least one.                                        *)
SourceLists == SUBSET Sources \ {{}}

(* The ids a refresh may be asked for: all by default, else known ones.    *)
Selectable(sources) == SUBSET sources \ {{}}

(* Refresh up to the pool: the source list is read once, and the ids have  *)
(* to be in it.                                                            *)
Begin(c) ==
    /\ c \notin Active
    /\ refreshes < MaxRefreshes
    /\ refreshes' = refreshes + 1
    /\ \E ids \in Selectable(config) :
          call' = [d \in Calls |->
             IF d = c
             THEN [at |-> "fetch", cancelled |-> FALSE, alone |-> Active = {},
                   sources |-> config,
                   job |-> [s \in Sources |-> IF s \in ids THEN "queued" ELSE "none"],
                   docs |-> Nothing, ok |-> FALSE]
             ELSE [call[d] EXCEPT !.alone = FALSE]]
    /\ raced' = (raced \/ Active # {})
    /\ UNCHANGED <<config, served, disk, temp, configures, faults>>

(* A free worker receives a source from the jobs channel.                  *)
Dispatch(c, s) ==
    /\ call[c].job[s] = "queued"
    /\ Cardinality(With(c, Busy)) < Workers
    /\ SetJob(c, s, "fetch")
    /\ UNCHANGED <<config, served, disk, temp, raced, counters>>

(* The provider answers with what parses, of the version it served before  *)
(* or a later one, or with what does not.                                  *)
Answer(c, s) ==
    /\ call[c].job[s] = "fetch"
    /\ \/ \E version \in served[s] .. MaxServed :
             /\ served' = [served EXCEPT ![s] = version]
             /\ call' = [call EXCEPT ![c].job[s] = "open", ![c].docs[s] = version]
       \/ SetJob(c, s, "failed") /\ UNCHANGED served
    /\ UNCHANGED <<config, disk, temp, raced, counters>>

(* The caller's deadline passes, or it gives up.                           *)
Timeout(c) ==
    /\ call[c].at = "fetch"
    /\ ~call[c].cancelled
    /\ call' = [call EXCEPT ![c].cancelled = TRUE]
    /\ UNCHANGED <<config, served, disk, temp, raced, counters>>

(* Seeded fault: an outcome that nobody knows how to read.                 *)
BugAbort(c, s) ==
    /\ call[c].job[s] = "fetch"
    /\ call[c].cancelled
    /\ SetJob(c, s, "cancelled")
    /\ UNCHANGED <<config, served, disk, temp, raced, counters>>

(* A cancelled context ends the requests that are under way ...            *)
Abort(c, s) ==
    /\ call[c].job[s] = "fetch"
    /\ call[c].cancelled
    /\ SetJob(c, s, "failed")
    /\ UNCHANGED <<config, served, disk, temp, raced, counters>>

(* ... and the loop that feeds the channel.                                *)
Drop(c) ==
    /\ call[c].cancelled
    /\ With(c, {"queued"}) # {}
    /\ call' = [call EXCEPT ![c].job =
                  [s \in Sources |-> IF @[s] = "queued" THEN "failed" ELSE @[s]]]
    /\ UNCHANGED <<config, served, disk, temp, raced, counters>>

-----------------------------------------------------------------------------
(* writeSubscriptionArtifact, of the artifact of a source by its worker or *)
(* of the merged file by the call.                                         *)

(* mergeSubscriptions merges the documents in memory: the merged file is   *)
(* opened once every artifact is read.                                     *)
Progress(c, n) ==
    IF n # Merged THEN call[c].job[n]
    ELSE IF call[c].at = "read" /\ With(c, {"none"}) \cap call[c].sources = {} THEN "open"
    ELSE call[c].at

Proceed(c, n, step) ==
    IF n = Merged THEN call' = [call EXCEPT ![c].at = step] ELSE SetJob(c, n, step)

Fail(c, n) == IF n = Merged THEN Return(c, FALSE) ELSE SetJob(c, n, "failed")

Contents(c, n) == IF n = Merged THEN call[c].docs ELSE Only(n, call[c].docs[n])

(* Opening truncates the file that is there, whoever has it open.          *)
Opened(file, c) ==
    [exists |-> TRUE, whole |-> FALSE, doc |-> Nothing, open |-> file.open \cup {c},
     mixed |-> file.open # {}]

(* What a file may hold when one of its writers has written all and closed *)
(* it.                                                                     *)
Closed(file, c, doc) ==
    LET closed == [file EXCEPT !.open = @ \ {c}]
        Holding(d) == [closed EXCEPT !.whole = TRUE, !.doc = d]
        torn == [closed EXCEPT !.whole = FALSE, !.doc = Nothing]
    IN  IF file.mixed THEN {Holding(doc), torn, closed} ELSE {Holding(doc)}

OpenTemp(c, n) ==
    /\ Progress(c, n) = "open"
    /\ \/ /\ temp' = [temp EXCEPT ![n] = Opened(@, c)]
          /\ Proceed(c, n, "encode")
          /\ NoFault
       \/ /\ Fault
          /\ Fail(c, n)
          /\ UNCHANGED temp
    /\ UNCHANGED <<config, served, disk, raced, refreshes, configures>>

(* Seeded fault: an error of the encoder is not looked at.                 *)
BugEncode(c, n) ==
    /\ Progress(c, n) = "encode"
    /\ \/ /\ \E file \in Closed(temp[n], c, Contents(c, n)) :
                temp' = [temp EXCEPT ![n] = IF c \in @.open THEN file ELSE @]
          /\ NoFault
       \/ /\ Fault
          /\ temp' = [temp EXCEPT ![n].open = @ \ {c}]
    /\ disk' = [disk EXCEPT ![n].open = @ \ {c}]
    /\ Proceed(c, n, "rename")
    /\ UNCHANGED <<config, served, raced, refreshes, configures>>

(* Its inode may have been renamed by another call meanwhile, or replaced; *)
(* a write that fails removes what has the temporary name.                 *)
Encode(c, n) ==
    /\ Progress(c, n) = "encode"
    /\ \/ /\ \E file \in Closed(temp[n], c, Contents(c, n)) :
                temp' = [temp EXCEPT ![n] = IF c \in @.open THEN file ELSE @]
          /\ \E file \in Closed(disk[n], c, Contents(c, n)) :
                disk' = [disk EXCEPT ![n] = IF c \in @.open THEN file ELSE @]
          /\ Proceed(c, n, "rename")
          /\ NoFault
       \/ /\ Fault
          /\ temp' = [temp EXCEPT ![n] = NoFile]
          /\ disk' = [disk EXCEPT ![n].open = @ \ {c}]
          /\ Fail(c, n)
    /\ UNCHANGED <<config, served, raced, refreshes, configures>>

(* Seeded fault: a rename that fails counts as done.                       *)
BugRename(c, n) ==
    /\ Progress(c, n) = "rename"
    /\ \/ /\ temp[n].exists
          /\ disk' = [disk EXCEPT ![n] = temp[n]]
          /\ temp' = [temp EXCEPT ![n] = NoFile]
          /\ NoFault
       \/ /\ IF temp[n].exists THEN Fault ELSE NoFault
          /\ UNCHANGED <<disk, temp>>
    /\ IF n = Merged THEN Return(c, TRUE) ELSE SetJob(c, n, "done")
    /\ UNCHANGED <<config, served, raced, refreshes, configures>>

(* Whatever has the temporary name is put in place, if anything has.       *)
Rename(c, n) ==
    /\ Progress(c, n) = "rename"
    /\ \/ /\ temp[n].exists
          /\ disk' = [disk EXCEPT ![n] = temp[n]]
          /\ temp' = [temp EXCEPT ![n] = NoFile]
          /\ IF n = Merged THEN Return(c, TRUE) ELSE SetJob(c, n, "done")
          /\ NoFault
       \/ /\ IF temp[n].exists THEN Fault ELSE NoFault
          /\ Fail(c, n)
          /\ UNCHANGED <<disk, temp>>
    /\ UNCHANGED <<config, served, raced, refreshes, configures>>

-----------------------------------------------------------------------------
(* Seeded fault: the first failure returns, and the workers are left.      *)
BugCollect(c) ==
    /\ call[c].at = "fetch"
    /\ IF With(c, {"failed"}) # {} THEN Return(c, FALSE)
       ELSE /\ With(c, {"queued"} \cup Busy) = {}
            /\ call' = [call EXCEPT ![c].at = "read", ![c].cancelled = FALSE]
    /\ UNCHANGED <<config, served, disk, temp, raced, counters>>

(* Seeded fault: the outcomes of the workers are not looked at.            *)
BugCollectAny(c) ==
    /\ call[c].at = "fetch"
    /\ With(c, {"queued"} \cup Busy) = {}
    /\ call' = [call EXCEPT ![c].at = "read", ![c].cancelled = FALSE]
    /\ UNCHANGED <<config, served, disk, temp, raced, counters>>

(* The results channel is closed when the workers are done; one source     *)
(* that failed, or was not reached, fails the refresh.                     *)
Collect(c) ==
    /\ call[c].at = "fetch"
    /\ With(c, {"queued"} \cup Busy) = {}
    /\ IF call[c].cancelled \/ With(c, {"failed"}) # {} THEN Return(c, FALSE)
       ELSE call' = [call EXCEPT ![c].at = "read", ![c].cancelled = FALSE]
    /\ UNCHANGED <<config, served, disk, temp, raced, counters>>

(* The artifact of a source that was not selected: one that is missing is  *)
(* left out with a warning, one that does not decode fails the refresh.    *)
Read(c, s) ==
    /\ call[c].at = "read"
    /\ s \in call[c].sources
    /\ call[c].job[s] = "none"
    /\ \/ /\ ~disk[s].exists
          /\ SetJob(c, s, "missing")
       \/ /\ disk[s].exists /\ disk[s].whole
          /\ call' = [call EXCEPT ![c].job[s] = "read", ![c].docs[s] = disk[s].doc[s]]
       \/ /\ disk[s].exists /\ ~disk[s].whole
          /\ Return(c, FALSE)
    /\ UNCHANGED <<config, served, disk, temp, raced, counters>>

-----------------------------------------------------------------------------
(* subscriptions_configure replaces the source list.                       *)
Configure ==
    /\ configures < MaxConfigures
    /\ configures' = configures + 1
    /\ config' \in SourceLists
    /\ UNCHANGED <<served, disk, temp, call, raced, refreshes, faults>>

(* The process of a call dies, and leaves its files as they are.           *)
Die(c) ==
    /\ c \in Active
    /\ Fault
    /\ Return(c, FALSE)
    /\ disk' = [n \in Names |-> [disk[n] EXCEPT !.open = @ \ {c}]]
    /\ temp' = [n \in Names |-> [temp[n] EXCEPT !.open = @ \ {c}]]
    /\ UNCHANGED <<config, served, raced, refreshes, configures>>

Write(c, n) == OpenTemp(c, n) \/ Encode(c, n) \/ Rename(c, n)

Step(c) ==
    \/ \E s \in Sources : Dispatch(c, s) \/ Abort(c, s) \/ Read(c, s)
    \/ \E n \in Names : Write(c, n)
    \/ Drop(c) \/ Collect(c)

Next ==
    \/ \E c \in Calls :
          \/ Begin(c) \/ Timeout(c) \/ Die(c) \/ Step(c)
          \/ \E s \in Sources : Answer(c, s)
    \/ Configure

Spec == Init /\ [][Next]_vars

-----------------------------------------------------------------------------
(* A refresh that has returned, whatever it returned, writes nothing any   *)
(* more: it waits for its workers when one of them fails and when it is    *)
(* cancelled.                                                              *)
QuietAfterReturn ==
    \A c \in Calls : c \notin Active =>
        \A n \in Names : c \notin disk[n].open \cup temp[n].open

(* As long as refreshes do not overlap no reader ever meets a file that is *)
(* half written, whenever a process dies and whichever write fails.        *)
ReadersSeeWholeFiles ==
    ~raced => \A n \in Names : disk[n].exists => disk[n].whole

(* As long as refreshes do not overlap the artifacts are at least as new   *)
(* as the merged file, so that merging them again never goes back.         *)
ArtifactsLead ==
    ~raced => \A s \in Sources : disk[Merged].doc[s] <= disk[s].doc[s]

(* A refresh that overlaps with no other and reports success leaves the    *)
(* selected artifacts and the merged file as it fetched them, and only     *)
(* sources of its list, whatever a refresh that failed or died had left.   *)
SoleRefreshRepairs ==
    [][\A c \in Calls :
          call[c].alone /\ call[c].at # "idle" /\ call'[c].ok
            => LET fetched == With(c, {"done"})
                   left == disk'[Merged]
               IN  /\ left.whole /\ left.doc = call[c].docs
                   /\ \A s \in Sources : left.doc[s] # 0 => s \in call[c].sources
                   /\ With(c, {"none", "queued", "failed"}) \cap call[c].sources = {}
                   /\ \A s \in fetched : disk'[s].whole /\ disk'[s].doc = Only(s, left.doc[s])
      ]_vars
=============================================================================
