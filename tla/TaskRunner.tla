----------------------------- MODULE TaskRunner -----------------------------
(***************************************************************************)
(* The tasks of the server.  A long tool call runs in the request's        *)
(* goroutine or, queued, in one of its own; either way it has a status     *)
(* file, a log and a monitor, a goroutine that samples it and writes one   *)
(* snapshot of diagnostics when it burns CPU or a stage takes too long.    *)
(* Beginning a task deletes the oldest files of others.  A server that is  *)
(* shut down cancels its tasks and waits for them.                         *)
(*                                                                         *)
(* Sources: internal/mcp/tasks.go, task_monitor.go, and Shutdown and       *)
(* ListenAndServeHTTPWithState in server.go.                               *)
(*                                                                         *)
(* Abstractions.  A status file is its status.  A log is how many lines it *)
(* has and which of those matter are among them; its size is in lines.     *)
(* Each file has a modification time of its own.  What makes the monitor   *)
(* write diagnostics may occur at any sample.                              *)
(***************************************************************************)
EXTENDS Naturals, FiniteSets

CONSTANTS
    Tasks,        \* tool calls that leave a log
    Earlier,      \* those that an earlier server died with
    Retain,       \* taskLogRetainedTasks
    MaxLines,     \* lines of a log that is full, taskLogMaxBytes
    MaxActive,    \* bound: tasks that are under way at once
    MaxEvents,    \* bound: stages logged, diagnostics, and calls of the file
                  \* system that fail
    MaxSpent      \* bound: tasks begun and such events together

ASSUME TaskAssumption ==
    /\ IsFiniteSet(Tasks) /\ Earlier \subseteq Tasks
    /\ Retain \in Nat \ {0} /\ MaxLines \in Nat \ {0, 1}
    /\ {MaxActive, MaxEvents, MaxSpent} \subseteq Nat

(* The files in mcp-tasks that the retention counts; a rotated log is not  *)
(* among them.                                                             *)
Files == Tasks \X {"status", "log"}

(* The lines that matter: the diagnostics written or failed, and  *)
(* a summary that says diagnostics were written.                           *)
Lines == {"final", "diagnostics", "told"}

Log == [size : 0 .. MaxLines, holds : SUBSET Lines]
NoLog == [size |-> 0, holds |-> {}]
EarlierLog == [size |-> MaxLines, holds |-> {}]

(* Where an appendTaskLog is: about to look at the size, having found the  *)
(* log full, or about to write its line.                                   *)
Appending == {"stat", "rotate", "write"}
Logging == {"log2", "stage", "summary", "log3"}

(* The stages of a task: those of the call that begins it, and those of    *)
(* the goroutine that runs it.                                             *)
Beginning == {"remove", "status1", "log1"}
Running == {"begin", "log2", "run", "stage", "summary", "status2", "log3", "stop"}
Ended == {"ended", "refused", "dead"}

VARIABLES
    server,    \* "up", shutting down, or "down"
    clean,     \* whether Shutdown returned nil after the requests had ended
    at,        \* stage of each task
    sync,      \* whether its caller waits for it
    append,    \* how far the task is with the line it logs
    said,      \* diagnostics_written in the task's summary
    events,    \* stages, diagnostics and failures so far
    victims,   \* files the task has found too old
    monitor,   \* stage of each monitor
    flagged,   \* diagnosticsWritten
    snapshot,  \* whether task_snapshot.json exists
    status,    \* contents of each status file
    log,       \* contents of each log
    rotated,   \* contents of each log.1
    order,     \* the files that exist, in pairs of which the second was written last
    lost,      \* history: tasks one of whose files the retention deleted
    faulty,    \* history: tasks a status of which was not written
    dropped,   \* history: lines of each task that were not written
    stuck,     \* history: files that could not be deleted
    peak       \* history: the most tasks there were at once

controlVars == <<server, clean, at, sync, victims, peak>>
monitorVars == <<monitor, flagged, snapshot>>
fileVars == <<status, log, rotated, order, lost>>
faultVars == <<faulty, dropped, stuck>>
oddVars == <<faultVars, events>>
vars == <<controlVars, append, said, monitorVars, fileVars, oddVars>>

(* The orders in which some files can have been written last, and the      *)
(* files that exist.                                                       *)
Orders(files) ==
    {r \in SUBSET (files \X files) :
        /\ \A f, g \in files : <<f, g>> \in r \/ <<g, f>> \in r
        /\ \A f, g \in files : <<f, g>> \in r /\ <<g, f>> \in r => f = g
        /\ \A f, g, h \in files : <<f, g>> \in r /\ <<g, h>> \in r => <<f, h>> \in r}

Existing == {f \in Files : <<f, f>> \in order}

TypeOK ==
    /\ server \in {"up", "draining", "stopping", "failing", "down"}
    /\ clean \in BOOLEAN
    /\ at \in [Tasks -> {"idle"} \cup Beginning \cup Running \cup Ended]
    /\ sync \in [Tasks -> BOOLEAN]
    /\ append \in [Tasks -> Appending]
    /\ said \in [Tasks -> BOOLEAN]
    /\ events \in 0 .. MaxEvents
    /\ victims \in [Tasks -> SUBSET Files]
    /\ monitor \in [Tasks -> {"off", "loop", "write", "stat", "rotate", "append"}]
    /\ flagged \in [Tasks -> BOOLEAN]
    /\ snapshot \in [Tasks -> BOOLEAN]
    /\ status \in [Tasks -> {"none", "queued", "running", "final", "torn"}]
    /\ log \in [Tasks -> Log] /\ rotated \in [Tasks -> SUBSET Lines]
    /\ order \subseteq Files \X Files
    /\ lost \subseteq Tasks /\ faulty \subseteq Tasks
    /\ dropped \in [Tasks -> SUBSET Lines] /\ stuck \subseteq Files
    /\ peak \in Nat

Init ==
    /\ server = "up" /\ clean = FALSE
    /\ at = [t \in Tasks |-> IF t \in Earlier THEN "dead" ELSE "idle"]
    /\ sync = [t \in Tasks |-> FALSE]
    /\ append = [t \in Tasks |-> "stat"]
    /\ said = [t \in Tasks |-> FALSE]
    /\ events = 0
    /\ victims = [t \in Tasks |-> {}]
    /\ monitor = [t \in Tasks |-> "off"]
    /\ flagged = [t \in Tasks |-> FALSE]
    /\ snapshot = [t \in Tasks |-> FALSE]
    /\ status = [t \in Tasks |-> IF t \in Earlier THEN "running" ELSE "none"]
    /\ log = [t \in Tasks |-> IF t \in Earlier THEN EarlierLog ELSE NoLog]
    /\ rotated = [t \in Tasks |-> {}]
    /\ order \in Orders(Earlier \X {"status", "log"})
    /\ \A t \in Earlier : <<<<t, "status">>, <<t, "log">>>> \in order
    /\ lost = {} /\ faulty = {}
    /\ dropped = [t \in Tasks |-> {}] /\ stuck = {}
    /\ peak = Cardinality(Earlier)

Active == {t \in Tasks : at[t] \notin {"idle"} \cup Ended}

(* Requests of the HTTP server that have not been answered.                *)
Requests == {t \in Active : sync[t] \/ at[t] \in Beginning}

(* The wait group counts the goroutines of queued tasks.                   *)
Counted == Active \ Requests

Goto(t, stage) == at' = [at EXCEPT ![t] = stage]

-----------------------------------------------------------------------------
Affordable == events + Cardinality({t \in Tasks \ Earlier : at[t] # "idle"}) < MaxSpent
Event == events < MaxEvents /\ Affordable /\ events' = events + 1

(* A file is written, the newest one from then on; files are removed.      *)
Touch(f) == {p \in order : f \notin {p[1], p[2]}} \cup {<<g, f>> : g \in Existing \cup {f}}
Without(files) == {p \in order : p[1] \notin files /\ p[2] \notin files}

(* writeTaskStatus, whose error only the caller of queueAsyncTool sees:    *)
(* the file may have been truncated by then.                               *)
WriteStatus(t, value) ==
    /\ status' = [status EXCEPT ![t] = value]
    /\ order' = Touch(<<t, "status">>)
    /\ UNCHANGED <<log, rotated, lost, oddVars>>

FailStatus(t) ==
    /\ Event
    /\ faulty' = faulty \cup {t}
    /\ \/ UNCHANGED <<status, order>>
       \/ /\ status' = [status EXCEPT ![t] = "torn"]
          /\ order' = Touch(<<t, "status">>)
    /\ UNCHANGED <<log, rotated, lost, dropped, stuck>>

(* appendTaskLog of the task or of its monitor, `next' being the next step *)
(* of the one that appends.                                                *)
StatLog(t, next) ==
    /\ next = IF log[t].size >= MaxLines THEN "rotate" ELSE "write"
    /\ UNCHANGED <<fileVars, oddVars>>

(* Nobody sees it when the log cannot be renamed: it grows on, and the     *)
(* rotated one may be deleted already.                                     *)
RotateLog(t) ==
    /\ \/ /\ IF <<t, "log">> \in Existing
             THEN /\ rotated' = [rotated EXCEPT ![t] = log[t].holds]
                  /\ log' = [log EXCEPT ![t] = NoLog]
                  /\ order' = Without({<<t, "log">>})
             ELSE /\ rotated' = [rotated EXCEPT ![t] = {}]
                  /\ UNCHANGED <<log, order>>
          /\ UNCHANGED events
       \/ /\ Event
          /\ \E left \in {rotated[t], {}} : rotated' = [rotated EXCEPT ![t] = left]
          /\ UNCHANGED <<log, order>>
    /\ UNCHANGED <<status, lost, faultVars>>

Grow(t, lines) ==
    /\ log' = [log EXCEPT ![t] =
                  [size |-> IF @.size < MaxLines THEN @.size + 1 ELSE @.size,
                   holds |-> @.holds \cup lines]]
    /\ order' = Touch(<<t, "log">>)

(* Seeded fault: the file is opened to be truncated.                       *)
BugWriteLine(t, lines) ==
    /\ log' = [log EXCEPT ![t] = [size |-> 1, holds |-> lines]]
    /\ order' = Touch(<<t, "log">>)
    /\ UNCHANGED <<status, rotated, lost, oddVars>>

WriteLine(t, lines) ==
    /\ Grow(t, lines)
    /\ UNCHANGED <<status, rotated, lost, oddVars>>

(* Nor when the log cannot be opened or the line not be written, in part   *)
(* or at all.                                                              *)
LoseLine(t, lines) ==
    /\ Event
    /\ dropped' = [dropped EXCEPT ![t] = @ \cup lines]
    /\ Grow(t, {}) \/ UNCHANGED <<log, order>>
    /\ UNCHANGED <<status, rotated, lost, faulty, stuck>>

AddLine(t, lines) == WriteLine(t, lines) \/ LoseLine(t, lines)

-----------------------------------------------------------------------------
Newest(n) == {f \in Existing : Cardinality({g \in Existing : <<f, g>> \in order}) <= n}

(* Seeded fault: a call whose caller waits deletes nothing.                *)
BugBegin(t) ==
    /\ server \in {"up", "failing"}
    /\ at[t] = "idle" /\ Cardinality(Active) < MaxActive /\ Affordable
    /\ Goto(t, "remove")
    /\ \E wait \in BOOLEAN :
          /\ sync' = [sync EXCEPT ![t] = wait]
          /\ victims' = [victims EXCEPT ![t] = IF wait THEN {}
                            ELSE Existing \ Newest(2 * Retain)]
    /\ peak' = IF peak > Cardinality(Active) THEN peak ELSE Cardinality(Active) + 1
    /\ UNCHANGED <<server, clean, append, said,
                   monitorVars, fileVars, oddVars>>

(* A request for a tool that runs as a task, in its own goroutine or not:  *)
(* cleanupTaskLogDir finds the files beyond the newest two per task ...    *)
Begin(t) ==
    /\ server \in {"up", "failing"}
    /\ at[t] = "idle" /\ Cardinality(Active) < MaxActive /\ Affordable
    /\ Goto(t, "remove")
    /\ \E wait \in BOOLEAN : sync' = [sync EXCEPT ![t] = wait]
    /\ victims' = [victims EXCEPT ![t] = Existing \ Newest(2 * Retain)]
    /\ peak' = IF peak > Cardinality(Active) THEN peak ELSE Cardinality(Active) + 1
    /\ UNCHANGED <<server, clean, append, said,
                   monitorVars, fileVars, oddVars>>

(* ... and deletes them by name, whatever was written to them since and    *)
(* whether or not it can.                                                  *)
RemoveFiles(t) ==
    /\ at[t] = "remove"
    /\ Goto(t, "status1")
    /\ victims' = [victims EXCEPT ![t] = {}]
    /\ \E left \in SUBSET (victims[t] \cap Existing) :
          LET gone == victims[t] \ left
          IN  /\ IF left = {} THEN UNCHANGED events ELSE Event
              /\ stuck' = (stuck \ gone) \cup left
              /\ order' = Without(gone)
              /\ status' = [u \in Tasks |-> IF <<u, "status">> \in gone THEN "none" ELSE status[u]]
              /\ log' = [u \in Tasks |-> IF <<u, "log">> \in gone THEN NoLog ELSE log[u]]
              /\ lost' = lost \cup {u \in Tasks : {<<u, "status">>, <<u, "log">>} \cap gone # {}}
    /\ UNCHANGED <<server, clean, sync, peak, append, said,
                   monitorVars, rotated, faulty, dropped>>

(* A queued task is not begun when its status cannot be written.           *)
FirstStatus(t) ==
    /\ at[t] = "status1"
    /\ \/ /\ WriteStatus(t, IF sync[t] THEN "running" ELSE "queued")
          /\ Goto(t, "log1")
       \/ /\ FailStatus(t)
          /\ Goto(t, IF sync[t] THEN "log1" ELSE "refused")
    /\ UNCHANGED <<server, clean, sync, victims, peak, append, said,
                   monitorVars>>

(* The goroutine starts its monitor and says that it runs.                 *)
Start(t) ==
    /\ at[t] = "begin"
    /\ monitor' = [monitor EXCEPT ![t] = "loop"]
    /\ WriteStatus(t, "running") \/ FailStatus(t)
    /\ Goto(t, "log2")
    /\ UNCHANGED <<server, clean, sync, victims, peak, append, said,
                   flagged, snapshot>>

(* The tool logs the stages it goes through, ...                           *)
Progress(t) ==
    /\ at[t] = "run"
    /\ Event
    /\ Goto(t, "stage")
    /\ UNCHANGED <<server, clean, sync, victims, peak, append, said,
                   monitorVars, fileVars, faultVars>>

(* ... and returns, at the latest when its context is cancelled.           *)
Finish(t) ==
    /\ at[t] = "run"
    /\ said' = [said EXCEPT ![t] = flagged[t]]
    /\ Goto(t, "summary")
    /\ UNCHANGED <<server, clean, sync, victims, peak, append,
                   monitorVars, fileVars, oddVars>>

(* Seeded fault: an outcome of its own for a task that was cancelled.      *)
BugFinalStatus(t) ==
    /\ at[t] = "status2"
    /\ WriteStatus(t, IF server = "stopping" THEN "cancelled" ELSE "final") \/ FailStatus(t)
    /\ Goto(t, "log3")
    /\ UNCHANGED <<server, clean, sync, victims, peak, append, said,
                   monitorVars>>

(* Its final status, written before the last line of the log.              *)
FinalStatus(t) ==
    /\ at[t] = "status2"
    /\ WriteStatus(t, "final") \/ FailStatus(t)
    /\ Goto(t, "log3")
    /\ UNCHANGED <<server, clean, sync, victims, peak, append, said,
                   monitorVars>>

(* The first line of a log, that nobody else writes yet.  The monitor of a *)
(* call whose caller waits starts after it; the goroutine of a queued one  *)
(* is counted before it starts.                                            *)
FirstLine(t) ==
    /\ at[t] = "log1"
    /\ AddLine(t, {})
    /\ Goto(t, IF sync[t] THEN "run" ELSE "begin")
    /\ monitor' = IF sync[t] THEN [monitor EXCEPT ![t] = "loop"] ELSE monitor
    /\ UNCHANGED <<server, clean, sync, victims, peak, append, said,
                   flagged, snapshot>>

(* The stage that follows a line.                                          *)
Logged(t) ==
    CASE at[t] \in {"log2", "stage"} -> "run"
      [] at[t] = "summary" -> "status2"
      [] at[t] = "log3" -> "stop"

LinesOf(t) ==
    CASE at[t] = "summary" /\ said[t] -> {"told"}
      [] at[t] = "log3" -> {"final"}
      [] OTHER -> {}

AppendLog(t) ==
    /\ at[t] \in Logging
    /\ \/ /\ append[t] = "stat"
          /\ \E next \in {"rotate", "write"} :
                StatLog(t, next) /\ append' = [append EXCEPT ![t] = next]
          /\ UNCHANGED at
       \/ /\ append[t] = "rotate"
          /\ RotateLog(t)
          /\ append' = [append EXCEPT ![t] = "write"]
          /\ UNCHANGED at
       \/ /\ append[t] = "write"
          /\ AddLine(t, LinesOf(t))
          /\ append' = [append EXCEPT ![t] = "stat"]
          /\ Goto(t, Logged(t))
    /\ UNCHANGED <<server, clean, sync, victims, peak, said, monitorVars>>

(* The deferred Stop closes the monitor's channel and waits for its loop.  *)
Stop(t) ==
    /\ at[t] = "stop"
    /\ monitor[t] = "loop"
    /\ monitor' = [monitor EXCEPT ![t] = "off"]
    /\ Goto(t, "ended")
    /\ UNCHANGED <<server, clean, sync, victims, peak, append, said,
                   flagged, snapshot, fileVars, oddVars>>

-----------------------------------------------------------------------------
(* The monitor's loop.  A tick may come before the closed channel is seen. *)

(* A sample that finds a reason, under the monitor's mutex.                *)
Trigger(t) ==
    /\ monitor[t] = "loop"
    /\ ~flagged[t]
    /\ Event
    /\ flagged' = [flagged EXCEPT ![t] = TRUE]
    /\ monitor' = [monitor EXCEPT ![t] = "write"]
    /\ UNCHANGED <<controlVars, append, said, snapshot, fileVars, faultVars>>

(* Seeded fault: only diagnostics that are complete are logged.            *)
BugWriteDiagnostics(t) ==
    /\ monitor[t] = "write"
    /\ \E written, complete \in BOOLEAN :
          /\ snapshot' = [snapshot EXCEPT ![t] = @ \/ written]
          /\ monitor' = [monitor EXCEPT ![t] = IF written /\ complete THEN "stat" ELSE "loop"]
    /\ UNCHANGED <<controlVars, append, said, flagged, fileVars, oddVars>>

(* writeDiagnostics, outside it: the snapshot is the first of four files.  *)
WriteDiagnostics(t) ==
    /\ monitor[t] = "write"
    /\ \E written \in BOOLEAN : snapshot' = [snapshot EXCEPT ![t] = @ \/ written]
    /\ monitor' = [monitor EXCEPT ![t] = "stat"]
    /\ UNCHANGED <<controlVars, append, said, flagged, fileVars, oddVars>>

(* ... and its line, which says what was written or what failed.           *)
ReportDiagnostics(t) ==
    /\ \/ /\ monitor[t] = "stat"
          /\ \E next \in {"rotate", "write"} :
                StatLog(t, next) /\ monitor' = [monitor EXCEPT ![t] = IF next = "write" THEN "append" ELSE next]
       \/ /\ monitor[t] = "rotate"
          /\ RotateLog(t)
          /\ monitor' = [monitor EXCEPT ![t] = "append"]
       \/ /\ monitor[t] = "append"
          /\ AddLine(t, {"diagnostics"})
          /\ monitor' = [monitor EXCEPT ![t] = "loop"]
    /\ UNCHANGED <<controlVars, append, said, flagged, snapshot>>

-----------------------------------------------------------------------------
(* ListenAndServeHTTPWithState.  The caller's context ends: the HTTP       *)
(* server takes no more requests and waits for those it has.               *)
Drain ==
    /\ server = "up"
    /\ server' = "draining"
    /\ UNCHANGED <<clean, at, sync, victims, peak, append, said,
                   monitorVars, fileVars, oddVars>>

(* Shutdown cancels the context of the tasks ...                           *)
Cancel ==
    /\ server = "draining"
    /\ Requests = {}
    /\ server' = "stopping"
    /\ UNCHANGED <<clean, at, sync, victims, peak, append, said,
                   monitorVars, fileVars, oddVars>>

(* ... as it does when the listener fails, with requests under way.        *)
ListenerFails ==
    /\ server = "up"
    /\ server' = "failing"
    /\ UNCHANGED <<clean, at, sync, victims, peak, append, said,
                   monitorVars, fileVars, oddVars>>

(* The process is gone, and every goroutine with it.                       *)
Exit(ended) ==
    /\ server' = "down"
    /\ clean' = ended
    /\ at' = [t \in Tasks |-> IF t \in Active THEN "dead" ELSE at[t]]
    /\ append' = [t \in Tasks |-> "stat"]
    /\ victims' = [t \in Tasks |-> {}]
    /\ monitor' = [t \in Tasks |-> "off"]
    /\ UNCHANGED <<sync, peak, said, flagged, snapshot,
                   fileVars, oddVars>>

(* Seeded fault: Shutdown does not wait.                                   *)
BugShutdown ==
    /\ server \in {"stopping", "failing"}
    /\ Exit(server = "stopping")

(* The wait group is empty.                                                *)
Shutdown ==
    /\ server \in {"stopping", "failing"}
    /\ Counted = {}
    /\ Exit(server = "stopping")

(* The deadline of the shutdown passes, or the process dies.               *)
Die ==
    /\ server # "down"
    /\ Exit(FALSE)

-----------------------------------------------------------------------------
Step(t) ==
    \/ RemoveFiles(t) \/ FirstStatus(t) \/ FirstLine(t) \/ Start(t)
    \/ Finish(t) \/ FinalStatus(t) \/ AppendLog(t) \/ Stop(t)
    \/ WriteDiagnostics(t) \/ ReportDiagnostics(t)

Next ==
    \/ \E t \in Tasks : Begin(t) \/ Progress(t) \/ Trigger(t) \/ Step(t)
    \/ Drain \/ Cancel \/ ListenerFails \/ Shutdown \/ Die

Spec == Init /\ [][Next]_vars

-----------------------------------------------------------------------------
(* After a shutdown that returned nil no status file says that a task is   *)
(* queued or running, unless a write of it failed or an earlier server     *)
(* left it: the requests are drained first and the wait group covers every *)
(* goroutine.                                                              *)
CleanStop ==
    clean => \A t \in Tasks \ (Earlier \cup faulty) : status[t] \notin {"queued", "running"}

(* The line with the outcome of a task that has ended, if it could be      *)
(* written at all, is in its log or in the log before it, should its       *)
(* monitor have rotated that away: two goroutines rotate the log without a *)
(* lock, but each at most once from then on.                               *)
OutcomeLogged ==
    \A t \in Tasks \ lost :
        at[t] \in {"stop", "ended"} => "final" \in log[t].holds \cup rotated[t] \cup dropped[t]

(* Diagnostics that a task left behind are told of, by its summary or by a *)
(* line of its monitor, in whatever order the two write and rotate and     *)
(* whichever rotation fails, unless the line itself could not be written.  *)
DiagnosticsTold ==
    \A t \in Tasks \ lost :
        at[t] = "ended" /\ snapshot[t]
            => {"diagnostics", "told"} \cap (log[t].holds \cup rotated[t] \cup dropped[t]) # {}

(* The retention bounds the directory although tasks list, delete and      *)
(* write in any order: beyond what is retained, and what could not be      *)
(* deleted, there are two files for each of the tasks there ever were at   *)
(* once.                                                                   *)
FilesBounded == Cardinality(Existing \ stuck) <= 2 * (Retain + peak)
=============================================================================
