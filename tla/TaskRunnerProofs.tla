-------------------------- MODULE TaskRunnerProofs --------------------------
(***************************************************************************)
(* What TLAPS proves of TaskRunner, for any tasks, retention, limits of    *)
(* logs and number of events: first the invariant of what a task writes    *)
(* and logs, which does not depend on the files that are deleted, then the *)
(* one of the retention, which rests on it.                                *)
(***************************************************************************)
EXTENDS TaskRunner, FiniteSetTheorems, TLAPS

Types ==
    /\ server \in {"up", "draining", "stopping", "failing", "down"}
    /\ clean \in BOOLEAN
    /\ at \in [Tasks -> {"idle"} \cup Beginning \cup Running \cup Ended]
    /\ sync \in [Tasks -> BOOLEAN]
    /\ append \in [Tasks -> Appending]
    /\ said \in [Tasks -> BOOLEAN]
    /\ monitor \in [Tasks -> {"off", "loop", "write", "stat", "rotate", "append"}]
    /\ flagged \in [Tasks -> BOOLEAN]
    /\ snapshot \in [Tasks -> BOOLEAN]
    /\ status \in [Tasks -> {"none", "queued", "running", "final", "torn"}]
    /\ log \in [Tasks -> [size : Nat, holds : SUBSET Lines]]
    /\ rotated \in [Tasks -> SUBSET Lines] /\ dropped \in [Tasks -> SUBSET Lines]

(* A shutdown that drains begins with no request, and none comes; once the *)
(* process is gone nothing of it goes on.                                  *)
Stopping ==
    /\ server = "stopping" => Requests = {}
    /\ clean => server = "down"
    /\ server = "down" => Active = {}

(* A task that has not begun has no status, one that is through has its    *)
(* final one, unless a write of it failed; before the process is gone only *)
(* an earlier server's tasks are dead.                                     *)
Statuses(t) ==
    t \notin Earlier \cup faulty =>
        /\ at[t] = "idle" => status[t] = "none"
        /\ at[t] \in {"log3", "stop", "ended"} => status[t] \in {"final", "none"}
        /\ at[t] # "refused"
        /\ at[t] = "dead" => server = "down" /\ ~clean

(* A monitor is idle before its task runs and after, and one that has left *)
(* its loop, or found diagnostics to write, does so no second time.        *)
Monitors(t) ==
    /\ at[t] \in {"idle"} \cup Beginning \cup {"begin"} \cup Ended => monitor[t] = "off"
    /\ monitor[t] \notin {"off", "loop"} => flagged[t]
    /\ snapshot[t] => flagged[t]
    /\ at[t] \notin Logging => append[t] = "stat"

(* The last line was lost, or is in the log, or a monitor has rotated it   *)
(* away and will not rotate again.                                         *)
Outcome(t) ==
    at[t] \in {"stop", "ended"} =>
        \/ "final" \in log[t].holds \cup dropped[t]
        \/ /\ "final" \in rotated[t]
           /\ flagged[t] /\ monitor[t] \in {"append", "loop", "off"}

(* Where the line is that tells of diagnostics, once the monitor is done   *)
(* with them: a line in the rotated log is not rotated away, since the log *)
(* is too short to be rotated again before the task ends.  Nothing has to  *)
(* be said of a task one such line of which was lost.                      *)
Telling == {"diagnostics", "told"}
Unwritten(t) == Telling \cap dropped[t] # {}
InLog(t) == Telling \cap log[t].holds # {}
InRotated(t) == Telling \cap rotated[t] # {}

Told(t) ==
    (flagged[t] /\ monitor[t] \in {"loop", "off"} /\ ~Unwritten(t)) =>
        /\ at[t] = "summary" /\ ~said[t] =>
              InLog(t) \/ (InRotated(t) /\ append[t] = "write" /\ log[t].size = 0)
        /\ at[t] = "status2" => InLog(t) \/ (InRotated(t) /\ log[t].size <= 1)
        /\ at[t] = "log3" =>
              \/ InLog(t)
              \/ InRotated(t) /\ append[t] = "write"
              \/ InRotated(t) /\ append[t] = "stat" /\ log[t].size <= 1
        /\ at[t] \in {"stop", "ended"} => InLog(t) \/ InRotated(t)

Task(t) ==
    /\ Statuses(t) /\ Monitors(t)
    /\ t \notin lost => Outcome(t) /\ Told(t)

Inv ==
    /\ Types /\ Stopping
    /\ \A t \in Tasks : Task(t)

-----------------------------------------------------------------------------
(* The beginning, and what each step does to the three parts of Inv.       *)
LEMMA InitKeeps == ASSUME TaskAssumption, Init PROVE Inv
  <1>1. Types
    BY DEF TaskAssumption, Init, Types, Beginning, Running, Ended, Appending, Lines,
           NoLog, EarlierLog
  <1>2. Stopping
    BY DEF Init, Stopping, Active, Ended
  <1>3. \A t \in Tasks : Task(t)
    BY DEF Init, Task, Statuses, Monitors, Outcome, Told, Beginning, Ended, Logging
  <1> QED
    BY <1>1, <1>2, <1>3 DEF Inv

LEMMA BeginKeeps ==
    ASSUME TaskAssumption, Inv, NEW t \in Tasks, Begin(t)
    PROVE  Inv'
  <1>1. Types'
    BY DEF TaskAssumption, oddVars, faultVars, Inv, Begin, Goto, monitorVars, fileVars, Types,
           Beginning, Running, Ended, Appending
  <1>2. Stopping'
    BY DEF Inv, Begin, Goto, Types, Beginning, Running, Ended, Stopping,
           Requests, Active
  <1>3. ASSUME NEW u \in Tasks PROVE Task(u)'
    <2>1. CASE u = t
      BY <1>1, <2>1, SMTT(30) DEF TaskAssumption, Inv, Begin, Goto, monitorVars, fileVars,
             oddVars, faultVars, Task, Statuses, Monitors, Outcome, Told, Unwritten, InLog,
             InRotated, Telling, Unwritten, Types, Beginning, Running, Ended, Logging
    <2>2. CASE u # t
      BY <1>1, <2>2, SMTT(30) DEF TaskAssumption, Inv, Begin, Goto, monitorVars, fileVars,
             oddVars, faultVars, Task, Statuses, Monitors, Outcome, Told, Unwritten, InLog,
             InRotated, Telling, Unwritten, Types, Beginning, Running, Ended, Logging
    <2> QED
      BY <2>1, <2>2
  <1> QED
    BY <1>1, <1>2, <1>3 DEF Inv

LEMMA RemoveFilesKeeps ==
    ASSUME TaskAssumption, Inv, NEW t \in Tasks, RemoveFiles(t)
    PROVE  Inv'
  <1>1. Types'
    BY DEF TaskAssumption, Inv, RemoveFiles, Goto, monitorVars, NoLog, Lines,
           Types, Beginning, Running, Ended, Appending
  <1>2. Stopping'
    BY DEF Inv, RemoveFiles, Goto, Types, Beginning, Running, Ended,
           Stopping, Requests, Active
  <1>3. ASSUME NEW u \in Tasks PROVE Task(u)'
    BY <1>1, SMTT(30) DEF TaskAssumption, Inv, RemoveFiles, Goto, monitorVars, oddVars, faultVars,
           NoLog, Task, Statuses, Monitors, Outcome, Told, Unwritten, InLog, InRotated,
           Telling, Unwritten, Types, Beginning, Running, Ended, Logging
  <1> QED
    BY <1>1, <1>2, <1>3 DEF Inv

LEMMA FirstStatusKeeps ==
    ASSUME TaskAssumption, Inv, NEW t \in Tasks, FirstStatus(t)
    PROVE  Inv'
  <1>1. Types'
    BY ZenonT(60) DEF TaskAssumption, oddVars, faultVars, Inv, FirstStatus, Goto, monitorVars, WriteStatus,
           FailStatus, Types, Beginning, Running, Ended, Appending
  <1>2. Stopping'
    BY DEF Inv, FirstStatus, Goto, Types, Beginning, Running, Ended,
           Stopping, Requests, Active
  <1>3. ASSUME NEW u \in Tasks PROVE Task(u)'
    <2>1. CASE u = t
      BY <1>1, <2>1, SMTT(30) DEF Inv, FirstStatus, Goto, WriteStatus, FailStatus, monitorVars,
             oddVars, faultVars, Types, Beginning, Running, Ended, Task, Statuses, Monitors,
             Outcome, Told, Logging
    <2>2. CASE u # t
      <3>1. /\ at'[u] = at[u] /\ status'[u] = status[u]
            /\ UNCHANGED <<log, rotated, lost, dropped, monitorVars, said, append, server, clean>>
            /\ faulty \subseteq faulty'
        BY <2>2 DEF Inv, Types, FirstStatus, Goto, WriteStatus, FailStatus, oddVars, faultVars
      <3> QED
        BY <3>1 DEF Inv, Task, Statuses, Monitors, Outcome, Told, Unwritten, InLog, InRotated, monitorVars
    <2> QED
      BY <2>1, <2>2
  <1> QED
    BY <1>1, <1>2, <1>3 DEF Inv

LEMMA StartKeeps ==
    ASSUME TaskAssumption, Inv, NEW t \in Tasks, Start(t)
    PROVE  Inv'
  <1>1. Types'
    BY DEF TaskAssumption, oddVars, faultVars, Inv, Start, Goto, WriteStatus, FailStatus, Types,
           Beginning, Running, Ended, Appending
  <1>2. Stopping'
    BY DEF Inv, Start, Goto, Types, Beginning, Running, Ended, Stopping,
           Requests, Active
  <1>3. ASSUME NEW u \in Tasks PROVE Task(u)'
    BY <1>1, SMTT(30) DEF TaskAssumption, Inv, Start, Goto, oddVars, faultVars, WriteStatus,
           FailStatus, Task, Statuses, Monitors, Outcome, Told, Unwritten, InLog,
           InRotated, Telling, Unwritten, Types, Beginning, Running, Ended, Logging
  <1> QED
    BY <1>1, <1>2, <1>3 DEF Inv

LEMMA ProgressKeeps ==
    ASSUME TaskAssumption, Inv, NEW t \in Tasks, Progress(t)
    PROVE  Inv'
  <1>1. Types'
    BY DEF TaskAssumption, oddVars, faultVars, Inv, Progress, Goto, monitorVars, fileVars, Types,
           Beginning, Running, Ended, Appending
  <1>2. Stopping'
    BY DEF Inv, Progress, Goto, Types, Beginning, Running, Ended, Stopping,
           Requests, Active
  <1>3. ASSUME NEW u \in Tasks PROVE Task(u)'
    BY <1>1, SMTT(30) DEF TaskAssumption, faultVars, Inv, Progress, Goto, monitorVars, fileVars,
           Task, Statuses, Monitors, Outcome, Told, Unwritten, InLog, InRotated,
           Telling, Unwritten, Types, Beginning, Running, Ended, Logging
  <1> QED
    BY <1>1, <1>2, <1>3 DEF Inv

LEMMA FinishKeeps ==
    ASSUME TaskAssumption, Inv, NEW t \in Tasks, Finish(t)
    PROVE  Inv'
  <1>1. Types'
    BY DEF TaskAssumption, oddVars, faultVars, Inv, Finish, Goto, monitorVars, fileVars, Types,
           Beginning, Running, Ended, Appending
  <1>2. Stopping'
    BY DEF Inv, Finish, Goto, Types, Beginning, Running, Ended, Stopping,
           Requests, Active
  <1>3. ASSUME NEW u \in Tasks PROVE Task(u)'
    BY <1>1 DEF TaskAssumption, Inv, Finish, Goto, monitorVars, fileVars,
           oddVars, faultVars, Task, Statuses, Monitors, Outcome, Told, Unwritten, InLog,
           InRotated, Telling, Unwritten, Types, Beginning, Running, Ended, Logging
  <1> QED
    BY <1>1, <1>2, <1>3 DEF Inv

LEMMA FinalStatusKeeps ==
    ASSUME TaskAssumption, Inv, NEW t \in Tasks, FinalStatus(t)
    PROVE  Inv'
  <1>1. Types'
    BY DEF TaskAssumption, oddVars, faultVars, Inv, FinalStatus, Goto, monitorVars, WriteStatus,
           FailStatus, Types, Beginning, Running, Ended, Appending
  <1>2. Stopping'
    BY DEF Inv, FinalStatus, Goto, Types, Beginning, Running, Ended,
           Stopping, Requests, Active
  <1>3. ASSUME NEW u \in Tasks PROVE Task(u)'
    BY <1>1, SMTT(30) DEF TaskAssumption, Inv, FinalStatus, Goto, monitorVars, oddVars, faultVars,
           WriteStatus, FailStatus, Task, Statuses, Monitors, Outcome, Told,
           InLog, InRotated, Telling, Unwritten, Types, Beginning, Running, Ended,
           Logging
  <1> QED
    BY <1>1, <1>2, <1>3 DEF Inv

LEMMA StopKeeps ==
    ASSUME TaskAssumption, Inv, NEW t \in Tasks, Stop(t)
    PROVE  Inv'
  <1>1. Types'
    BY DEF TaskAssumption, oddVars, faultVars, Inv, Stop, Goto, fileVars, Types, Beginning,
           Running, Ended, Appending
  <1>2. Stopping'
    BY DEF Inv, Stop, Goto, Types, Beginning, Running, Ended, Stopping,
           Requests, Active
  <1>3. ASSUME NEW u \in Tasks PROVE Task(u)'
    BY <1>1 DEF TaskAssumption, Inv, Stop, Goto, fileVars, oddVars, faultVars, Task,
           Statuses, Monitors, Outcome, Told, Unwritten, InLog, InRotated, Telling,
           Types, Beginning, Running, Ended, Logging
  <1> QED
    BY <1>1, <1>2, <1>3 DEF Inv

LEMMA TriggerKeeps ==
    ASSUME TaskAssumption, Inv, NEW t \in Tasks, Trigger(t)
    PROVE  Inv'
  <1>1. Types'
    BY DEF TaskAssumption, oddVars, faultVars, Inv, Trigger, controlVars, fileVars, Types,
           Beginning, Running, Ended, Appending
  <1>2. Stopping'
    BY DEF Inv, Trigger, controlVars, Types, Beginning, Running, Ended,
           Stopping, Requests, Active
  <1>3. ASSUME NEW u \in Tasks PROVE Task(u)'
    BY <1>1, SMTT(30) DEF TaskAssumption, faultVars, Inv, Trigger, controlVars, fileVars, Task,
           Statuses, Monitors, Outcome, Told, Unwritten, InLog, InRotated, Telling,
           Types, Beginning, Running, Ended, Logging
  <1> QED
    BY <1>1, <1>2, <1>3 DEF Inv

LEMMA WriteDiagnosticsKeeps ==
    ASSUME TaskAssumption, Inv, NEW t \in Tasks, WriteDiagnostics(t)
    PROVE  Inv'
  <1>1. Types'
    BY DEF TaskAssumption, oddVars, faultVars, Inv, WriteDiagnostics, controlVars, fileVars,
           Types, Beginning, Running, Ended, Appending
  <1>2. Stopping'
    BY DEF Inv, WriteDiagnostics, controlVars, Types, Beginning, Running,
           Ended, Stopping, Requests, Active
  <1>3. ASSUME NEW u \in Tasks PROVE Task(u)'
    BY <1>1 DEF TaskAssumption, Inv, WriteDiagnostics, controlVars, fileVars,
           oddVars, faultVars, Task, Statuses, Monitors, Outcome, Told, Unwritten, InLog,
           InRotated, Telling, Unwritten, Types, Beginning, Running, Ended, Logging
  <1> QED
    BY <1>1, <1>2, <1>3 DEF Inv

(* A rotation, of the task or of its monitor, leaves the lines of the log  *)
(* where they are, or moves all of them to the rotated log.                *)
LEMMA Rotation ==
    ASSUME Inv, NEW t \in Tasks, RotateLog(t)
    PROVE  /\ \/ log' = log /\ (rotated' = rotated \/ rotated' = [rotated EXCEPT ![t] = {}])
              \/ log' = [log EXCEPT ![t] = NoLog] /\ rotated' = [rotated EXCEPT ![t] = log[t].holds]
           /\ log' \in [Tasks -> [size : Nat, holds : SUBSET Lines]]
           /\ rotated' \in [Tasks -> SUBSET Lines]
           /\ UNCHANGED <<status, lost, faultVars>>
  <1>1. /\ log \in [Tasks -> [size : Nat, holds : SUBSET Lines]]
        /\ rotated \in [Tasks -> SUBSET Lines]
    BY DEF Inv, Types
  <1>2. NoLog \in [size : Nat, holds : SUBSET Lines] /\ log[t].holds \in SUBSET Lines
    BY <1>1 DEF NoLog
  <1>3. \/ log' = log /\ rotated' = [rotated EXCEPT ![t] = rotated[t]]
        \/ log' = log /\ rotated' = [rotated EXCEPT ![t] = {}]
        \/ log' = [log EXCEPT ![t] = NoLog] /\ rotated' = [rotated EXCEPT ![t] = log[t].holds]
    BY DEF RotateLog
  <1>4. [rotated EXCEPT ![t] = rotated[t]] = rotated
    BY <1>1
  <1> QED
    BY <1>1, <1>2, <1>3, <1>4 DEF RotateLog

(* A line is appended to those that the log holds, or is lost.             *)
LEMMA Line ==
    ASSUME TaskAssumption, Inv, NEW t \in Tasks, NEW lines \in SUBSET Lines, AddLine(t, lines)
    PROVE  /\ log' \in [Tasks -> [size : Nat, holds : SUBSET Lines]]
           /\ dropped' \in [Tasks -> SUBSET Lines]
           /\ log[t].holds \subseteq log'[t].holds /\ dropped[t] \subseteq dropped'[t]
           /\ lines \subseteq log'[t].holds \cup dropped'[t]
           /\ log'[t].size <= log[t].size + 1
           /\ \A u \in Tasks \ {t} : log'[u] = log[u] /\ dropped'[u] = dropped[u]
           /\ UNCHANGED <<status, rotated, lost, faulty>>
  <1>1. /\ log \in [Tasks -> [size : Nat, holds : SUBSET Lines]]
        /\ dropped \in [Tasks -> SUBSET Lines]
    BY DEF Inv, Types
  <1>2. CASE WriteLine(t, lines)
    BY <1>1, <1>2 DEF TaskAssumption, WriteLine, Grow, oddVars, faultVars
  <1>3. CASE LoseLine(t, lines)
    <2>1. /\ dropped' = [dropped EXCEPT ![t] = @ \cup lines]
          /\ UNCHANGED <<status, rotated, lost, faulty>>
      BY <1>3 DEF LoseLine
    <2>2. CASE UNCHANGED <<log, order>>
      BY <1>1, <2>1, <2>2
    <2>3. CASE Grow(t, {})
      BY <1>1, <2>1, <2>3 DEF TaskAssumption, Grow
    <2> QED
      BY <1>3, <2>2, <2>3 DEF LoseLine
  <1> QED
    BY <1>2, <1>3 DEF AddLine

LEMMA FirstLineKeeps ==
    ASSUME TaskAssumption, Inv, NEW t \in Tasks, FirstLine(t)
    PROVE  Inv'
  <1>1. /\ log' \in [Tasks -> [size : Nat, holds : SUBSET Lines]]
        /\ dropped' \in [Tasks -> SUBSET Lines]
        /\ \A u \in Tasks \ {t} : log'[u] = log[u] /\ dropped'[u] = dropped[u]
        /\ UNCHANGED <<status, rotated, lost, faulty>>
    BY Line DEF FirstLine
  <1>2. Types'
    BY <1>1 DEF Inv, FirstLine, Goto, Types, Beginning, Running, Ended, Appending
  <1>3. Stopping'
    BY DEF Inv, FirstLine, Goto, Types, Beginning, Running, Ended, Stopping,
           Requests, Active
  <1>4. ASSUME NEW u \in Tasks PROVE Task(u)'
    <2>1. CASE u = t
      BY <1>1, <1>2, <2>1, SMTT(30) DEF Inv, FirstLine, Goto, Task, Statuses, Monitors, Outcome,
             Told, Types, Beginning, Running, Ended, Logging
    <2>2. CASE u # t
      <3>1. /\ at'[u] = at[u] /\ monitor'[u] = monitor[u]
            /\ log'[u] = log[u] /\ dropped'[u] = dropped[u]
            /\ UNCHANGED <<status, rotated, lost, faulty, flagged, snapshot, said, append, server, clean>>
        BY <1>1, <2>2 DEF Inv, Types, FirstLine, Goto
      <3> QED
        BY <3>1 DEF Inv, Task, Statuses, Monitors, Outcome, Told, Unwritten, InLog, InRotated
    <2> QED
      BY <2>1, <2>2
  <1> QED
    BY <1>2, <1>3, <1>4 DEF Inv

LEMMA AppendLogKeeps ==
    ASSUME TaskAssumption, Inv, NEW t \in Tasks, AppendLog(t)
    PROVE  Inv'
  <1>1. /\ at[t] \in Logging
        /\ UNCHANGED <<server, clean, sync, said, monitor, flagged, snapshot>>
    BY DEF AppendLog, monitorVars
  <1>2. CASE append[t] = "stat"
    <2>1. /\ append' = [append EXCEPT ![t] = IF log[t].size >= MaxLines THEN "rotate" ELSE "write"]
          /\ UNCHANGED <<at, status, log, rotated, lost, faulty, dropped>>
      BY <1>2 DEF AppendLog, StatLog, fileVars, oddVars, faultVars
    <2>2. Types'
      BY <1>1, <2>1 DEF Inv, Types, Appending
    <2>3. Stopping'
      BY <1>1, <2>1 DEF Inv, Stopping, Requests, Active
    <2>4. ASSUME NEW u \in Tasks PROVE Task(u)'
      <3>1. (Statuses(u) /\ Monitors(u) /\ (u \notin lost => Outcome(u)))'
        BY <1>1, <2>1 DEF Inv, Types, Task, Statuses, Monitors, Outcome
      <3>2. (u \notin lost => Told(u))'
        BY <1>1, <1>2, <2>1 DEF TaskAssumption, Inv, Types, Task, Told, Unwritten, InLog, InRotated
      <3> QED
        BY <3>1, <3>2 DEF Task
    <2> QED
      BY <2>2, <2>3, <2>4 DEF Inv
  <1>3. CASE append[t] = "rotate"
    <2>1. append' = [append EXCEPT ![t] = "write"] /\ at' = at /\ RotateLog(t)
      BY <1>3 DEF AppendLog
    <2>5. /\ \/ log' = log /\ (rotated' = rotated \/ rotated' = [rotated EXCEPT ![t] = {}])
             \/ log' = [log EXCEPT ![t] = NoLog] /\ rotated' = [rotated EXCEPT ![t] = log[t].holds]
          /\ log' \in [Tasks -> [size : Nat, holds : SUBSET Lines]]
          /\ rotated' \in [Tasks -> SUBSET Lines]
          /\ UNCHANGED <<status, lost, faulty, dropped>>
      BY <2>1, Rotation DEF faultVars
    <2>2. Types'
      BY <1>1, <2>1, <2>5 DEF Inv, Types, Appending, NoLog
    <2>3. Stopping'
      BY <1>1, <2>1 DEF Inv, Stopping, Requests, Active
    <2>4. ASSUME NEW u \in Tasks PROVE Task(u)'
      <3>1. (Statuses(u) /\ Monitors(u))'
        BY <1>1, <2>1, <2>5 DEF Inv, Types, Task, Statuses, Monitors
      <3>2. CASE u # t
        <4>1. /\ log'[u] = log[u] /\ rotated'[u] = rotated[u]
              /\ at'[u] = at[u] /\ append'[u] = append[u]
          BY <2>1, <2>5, <3>2 DEF Inv, Types
        <4> QED
          BY <1>1, <2>5, <3>1, <4>1 DEF Inv, Task, Outcome, Told, Unwritten, InLog, InRotated
      <3>3. CASE u = t /\ t \notin lost
        <4>1. Outcome(t)'
          BY <1>1, <2>1 DEF Outcome, Logging
        <4>2. /\ \/ log'[t] = log[t]
                 \/ log'[t] = NoLog /\ rotated'[t] = log[t].holds
              /\ at'[t] = at[t] /\ append'[t] = "write"
          <5>1. t \in DOMAIN log /\ t \in DOMAIN rotated /\ t \in DOMAIN append
            BY DEF Inv, Types
          <5>2. \/ log' = log
                \/ log' = [log EXCEPT ![t] = NoLog] /\ rotated' = [rotated EXCEPT ![t] = log[t].holds]
            BY <2>5
          <5> QED
            BY <2>1, <5>1, <5>2
        <4>3. Told(t)'
          BY <1>1, <1>3, <2>5, <3>3, <4>2
             DEF Inv, Task, Told, Unwritten, InLog, InRotated, NoLog, Logging
        <4> QED
          BY <3>1, <3>3, <4>1, <4>3 DEF Task
      <3> QED
        BY <2>5, <3>1, <3>2, <3>3 DEF Task
    <2> QED
      BY <2>2, <2>3, <2>4 DEF Inv
  <1>4. CASE append[t] = "write"
    <2>1. /\ AddLine(t, LinesOf(t)) /\ append' = [append EXCEPT ![t] = "stat"]
          /\ at' = [at EXCEPT ![t] = Logged(t)]
      BY <1>4 DEF AppendLog, Goto
    <2>2. /\ LinesOf(t) \in SUBSET Lines
          /\ at[t] = "summary" /\ said[t] => "told" \in LinesOf(t)
          /\ at[t] = "log3" => "final" \in LinesOf(t)
      BY <1>1 DEF LinesOf, Lines, Logging
    <2>3. \/ at[t] \in {"log2", "stage"} /\ Logged(t) = "run"
          \/ at[t] = "summary" /\ Logged(t) = "status2"
          \/ at[t] = "log3" /\ Logged(t) = "stop"
      BY <1>1 DEF Logged, Logging
    <2>7. /\ log' \in [Tasks -> [size : Nat, holds : SUBSET Lines]]
          /\ dropped' \in [Tasks -> SUBSET Lines]
          /\ log[t].holds \subseteq log'[t].holds /\ dropped[t] \subseteq dropped'[t]
          /\ LinesOf(t) \subseteq log'[t].holds \cup dropped'[t]
          /\ log'[t].size <= log[t].size + 1
          /\ \A u \in Tasks \ {t} : log'[u] = log[u] /\ dropped'[u] = dropped[u]
          /\ UNCHANGED <<status, rotated, lost, faulty>>
      BY <2>1, <2>2, Line
    <2>4. Types'
      BY <1>1, <2>1, <2>3, <2>7 DEF Inv, Types, Appending, Running
    <2>5. Stopping'
      BY <1>1, <2>1, <2>3
         DEF Inv, Types, Stopping, Requests, Active, Logging, Beginning, Running, Ended
    <2>6. ASSUME NEW u \in Tasks PROVE Task(u)'
      <3>1. CASE u # t
        <4>1. /\ at'[u] = at[u] /\ append'[u] = append[u]
              /\ log'[u] = log[u] /\ dropped'[u] = dropped[u]
          BY <2>1, <2>7, <3>1 DEF Inv, Types
        <4>2. Task(u)
          BY DEF Inv
        <4> QED
          BY <1>1, <2>7, <4>1, <4>2
             DEF Task, Statuses, Monitors, Outcome, Told, Unwritten, InLog, InRotated
      <3>2. CASE u = t
        <4>1. (Statuses(t) /\ Monitors(t) /\ Outcome(t))'
          BY <1>1, <2>1, <2>2, <2>3, <2>7
             DEF Inv, Types, Task, Statuses, Monitors, Outcome, Logging, Beginning, Ended
        <4>2. (t \notin lost => Told(t))'
          <5>1. at'[t] = Logged(t) /\ log'[t].size \in Nat /\ log[t].size \in Nat
            BY <2>1, <2>7 DEF Inv, Types
          <5>2. CASE at[t] \in {"log2", "stage"}
            BY <2>3, <5>1, <5>2 DEF Told
          <5>3. CASE at[t] = "summary" /\ said[t]
            BY <2>2, <2>3, <2>7, <5>1, <5>3 DEF Told, Unwritten, InLog, Telling
          <5>4. CASE at[t] = "summary" /\ ~said[t] /\ t \notin lost
            BY <1>1, <2>3, <2>7, <5>1, <5>4 DEF Inv, Task, Told, Unwritten, InLog, InRotated
          <5>5. CASE at[t] = "log3" /\ t \notin lost
            BY <1>1, <1>4, <2>3, <2>7, <5>1, <5>5 DEF Inv, Task, Told, Unwritten, InLog, InRotated
          <5> QED
            BY <1>1, <2>7, <5>2, <5>3, <5>4, <5>5 DEF Logging
        <4> QED
          BY <3>2, <4>1, <4>2 DEF Task
      <3> QED
        BY <3>1, <3>2
    <2> QED
      BY <2>4, <2>5, <2>6 DEF Inv
  <1> QED
    BY <1>2, <1>3, <1>4 DEF AppendLog

LEMMA ReportDiagnosticsKeeps ==
    ASSUME TaskAssumption, Inv, NEW t \in Tasks, ReportDiagnostics(t)
    PROVE  Inv'
  <1>1. UNCHANGED <<server, clean, at, sync, append, said, flagged, snapshot>>
    BY DEF ReportDiagnostics, controlVars
  <1>2. flagged[t] /\ at[t] \notin {"idle", "begin"} \cup Beginning \cup Ended
    BY DEF ReportDiagnostics, Inv, Task, Monitors
  <1>3. Stopping'
    BY <1>1 DEF Inv, Stopping, Requests, Active
  <1>4. CASE monitor[t] = "stat"
    <2>1. /\ monitor' = [monitor EXCEPT ![t] = IF log[t].size >= MaxLines THEN "rotate" ELSE "append"]
          /\ UNCHANGED <<status, log, rotated, lost, faulty, dropped>>
      BY <1>4 DEF ReportDiagnostics, StatLog, fileVars, oddVars, faultVars
    <2>2. Types'
      BY <1>1, <2>1 DEF Inv, Types
    <2>3. ASSUME NEW u \in Tasks PROVE Task(u)'
      BY <1>1, <1>2, <1>4, <2>1
         DEF Inv, Types, Task, Statuses, Monitors, Outcome, Told, Unwritten, InLog, InRotated
    <2> QED
      BY <1>3, <2>2, <2>3 DEF Inv
  <1>5. CASE monitor[t] = "rotate"
    <2>1. monitor' = [monitor EXCEPT ![t] = "append"] /\ RotateLog(t)
      BY <1>5 DEF ReportDiagnostics
    <2>5. /\ \/ log' = log /\ (rotated' = rotated \/ rotated' = [rotated EXCEPT ![t] = {}])
             \/ log' = [log EXCEPT ![t] = NoLog] /\ rotated' = [rotated EXCEPT ![t] = log[t].holds]
          /\ log' \in [Tasks -> [size : Nat, holds : SUBSET Lines]]
          /\ rotated' \in [Tasks -> SUBSET Lines]
          /\ UNCHANGED <<status, lost, faulty, dropped>>
      BY <2>1, Rotation DEF faultVars
    <2>2. Types'
      BY <1>1, <2>1, <2>5 DEF Inv, Types, NoLog
    <2>3. ASSUME NEW u \in Tasks PROVE Task(u)'
      <3>1. (Statuses(u) /\ Monitors(u))'
        BY <1>1, <1>2, <2>1, <2>5 DEF Inv, Types, Task, Statuses, Monitors
      <3>2. CASE u # t
        <4>1. log'[u] = log[u] /\ rotated'[u] = rotated[u] /\ monitor'[u] = monitor[u]
          BY <2>1, <2>5, <3>2 DEF Inv, Types
        <4> QED
          BY <1>1, <2>5, <3>1, <4>1 DEF Inv, Task, Outcome, Told, Unwritten, InLog, InRotated
      <3>3. CASE u = t /\ t \notin lost
        <4>1. /\ \/ log'[t] = log[t]
                 \/ log'[t] = NoLog /\ rotated'[t] = log[t].holds
              /\ monitor'[t] = "append"
          <5>1. t \in DOMAIN log /\ t \in DOMAIN rotated /\ t \in DOMAIN monitor
            BY DEF Inv, Types
          <5>2. \/ log' = log
                \/ log' = [log EXCEPT ![t] = NoLog] /\ rotated' = [rotated EXCEPT ![t] = log[t].holds]
            BY <2>5
          <5> QED
            BY <2>1, <5>1, <5>2
        <4>2. Outcome(t)'
          BY <1>1, <1>2, <1>5, <2>5, <3>3, <4>1 DEF Inv, Task, Outcome
        <4>3. Told(t)'
          BY <4>1 DEF Told
        <4> QED
          BY <3>1, <3>3, <4>2, <4>3 DEF Task
      <3> QED
        BY <2>5, <3>1, <3>2, <3>3 DEF Task
    <2> QED
      BY <1>3, <2>2, <2>3 DEF Inv
  <1>6. CASE monitor[t] = "append"
    <2>1. AddLine(t, {"diagnostics"}) /\ monitor' = [monitor EXCEPT ![t] = "loop"]
      BY <1>6 DEF ReportDiagnostics
    <2>2. {"diagnostics"} \in SUBSET Lines
      BY DEF Lines
    <2>5. /\ log' \in [Tasks -> [size : Nat, holds : SUBSET Lines]]
          /\ dropped' \in [Tasks -> SUBSET Lines]
          /\ log[t].holds \subseteq log'[t].holds /\ dropped[t] \subseteq dropped'[t]
          /\ {"diagnostics"} \subseteq log'[t].holds \cup dropped'[t]
          /\ \A u \in Tasks \ {t} : log'[u] = log[u] /\ dropped'[u] = dropped[u]
          /\ UNCHANGED <<status, rotated, lost, faulty>>
      BY <2>1, <2>2, Line
    <2>3. Types'
      BY <1>1, <2>1, <2>5 DEF Inv, Types
    <2>4. ASSUME NEW u \in Tasks PROVE Task(u)'
      <3>1. (Statuses(u) /\ Monitors(u) /\ (u \notin lost => Outcome(u)))'
        BY <1>1, <1>2, <1>6, <2>1, <2>5
           DEF Inv, Types, Task, Statuses, Monitors, Outcome
      <3>2. CASE u = t
        <4>1. InLog(t)' \/ Unwritten(t)'
          BY <2>5 DEF InLog, Unwritten, Telling
        <4> QED
          BY <3>1, <3>2, <4>1 DEF Task, Told, Unwritten, InLog
      <3>3. CASE u # t
        <4>1. (u \notin lost => Told(u))'
          BY <1>1, <2>1, <2>5, <3>3 DEF Inv, Types, Task, Told, Unwritten, InLog, InRotated
        <4> QED
          BY <3>1, <4>1 DEF Task
      <3> QED
        BY <3>2, <3>3
    <2> QED
      BY <1>3, <2>3, <2>4 DEF Inv
  <1> QED
    BY <1>4, <1>5, <1>6 DEF ReportDiagnostics

(* The process ends, after a shutdown that has waited or without.          *)
LEMMA ExitKeeps ==
    ASSUME TaskAssumption, Inv, NEW ended \in BOOLEAN, Exit(ended), server # "down",
           ended => Active = {}
    PROVE  Inv'
  <1>1. Types'
    BY DEF oddVars, faultVars, Inv, Exit, Types, Ended, Appending, fileVars
  <1>2. Stopping'
    BY DEF Inv, Exit, Types, Stopping, Active, Ended
  <1>3. ~clean
    BY DEF Inv, Stopping
  <1>4. ASSUME NEW t \in Tasks PROVE Task(t)'
    <2>1. Task(t)
      BY DEF Inv
    <2>2. CASE t \in Active
      <3>1. at'[t] = "dead" /\ ~ended /\ append'[t] = "stat" /\ monitor'[t] = "off"
        BY <2>2 DEF Exit
      <3> QED
        BY <2>1, <3>1 DEF Exit, Task, Statuses, Monitors, Outcome, Told
    <2>3. CASE t \notin Active
      <3>1. /\ at'[t] = at[t] /\ at[t] \in {"idle"} \cup Ended
            /\ append'[t] = "stat" /\ monitor'[t] = "off" /\ monitor[t] = "off"
        BY <2>1, <2>3 DEF Exit, Active, Task, Monitors
      <3>2. at[t] # "dead" \/ t \in Earlier \cup faulty
        BY <2>1 DEF Task, Statuses
      <3> QED
        BY <2>1, <3>1, <3>2
           DEF Exit, Task, Statuses, Monitors, Outcome, Told, Unwritten, InLog, InRotated, Ended,
               fileVars, oddVars, faultVars
    <2> QED
      BY <2>2, <2>3
  <1> QED
    BY <1>1, <1>2, <1>4 DEF Inv

(* Steps of the server that leave its tasks alone.                         *)
LEMMA ServerKeeps ==
    ASSUME TaskAssumption, Inv, Drain \/ Cancel \/ ListenerFails \/ UNCHANGED vars
    PROVE  Inv'
  <1>1. Types' /\ Stopping'
    BY DEF Inv, Types, Stopping, Requests, Active, Drain, Cancel, ListenerFails, vars,
           controlVars, monitorVars, fileVars, oddVars, faultVars
  <1>2. ASSUME NEW t \in Tasks PROVE Task(t)'
    <2>1. Task(t)
      BY DEF Inv
    <2>2. /\ UNCHANGED <<at, append, said, monitor, flagged, snapshot, status, log, rotated,
                         lost, faulty, dropped, clean>>
          /\ server = "down" => server' = "down"
      BY DEF Drain, Cancel, ListenerFails, vars, controlVars, monitorVars, fileVars, oddVars, faultVars
    <2> QED
      BY <2>1, <2>2 DEF Task, Statuses, Monitors, Outcome, Told, Unwritten, InLog, InRotated
  <1> QED
    BY <1>1, <1>2 DEF Inv

LEMMA NextKeeps == ASSUME TaskAssumption, Inv, [Next]_vars PROVE Inv'
  <1>1. CASE \E t \in Tasks : Begin(t) \/ Progress(t) \/ Trigger(t) \/ Step(t)
    BY <1>1, BeginKeeps, RemoveFilesKeeps, FirstStatusKeeps, FirstLineKeeps, StartKeeps,
       ProgressKeeps, FinishKeeps, FinalStatusKeeps, AppendLogKeeps, StopKeeps,
       TriggerKeeps, WriteDiagnosticsKeeps, ReportDiagnosticsKeeps DEF Step
  <1>2. CASE Drain \/ Cancel \/ ListenerFails \/ UNCHANGED vars
    BY <1>2, ServerKeeps
  <1>3. CASE Shutdown
    <2>1. server = "stopping" => Active = {}
      BY <1>3 DEF Shutdown, Counted, Inv, Stopping
    <2>2. Exit(server = "stopping") /\ server # "down"
      BY <1>3 DEF Shutdown
    <2> QED
      BY <2>1, <2>2, ExitKeeps
  <1>4. CASE Die
    BY <1>4, ExitKeeps DEF Die
  <1> QED
    BY <1>1, <1>2, <1>3, <1>4 DEF Next

\* The status, the log and the monitor of every task agree with the step that its
\* goroutine is at.
THEOREM Invariance == Spec => []Inv
  <1>1. Init => Inv
    BY TaskAssumption, InitKeeps
  <1>2. Inv /\ [Next]_vars => Inv'
    BY TaskAssumption, NextKeeps
  <1> QED
    BY <1>1, <1>2, PTL DEF Spec

(* A shutdown that drains the requests and waits for the goroutines leaves *)
(* no status that is not final.                                            *)
THEOREM CleanShutdown == Spec => []CleanStop
  <1>1. Inv => CleanStop
    <2> SUFFICES ASSUME Inv, clean, NEW t \in Tasks \ (Earlier \cup faulty)
                 PROVE  status[t] \notin {"queued", "running"}
      BY DEF CleanStop
    <2>1. server = "down" /\ at[t] \in {"idle"} \cup Ended
      BY DEF Inv, Stopping, Active
    <2> QED
      BY <2>1 DEF Inv, Task, Statuses, Ended
  <1> QED
    BY <1>1, Invariance, PTL

(* The outcome of a task that has ended is in its log or its rotated log.  *)
THEOREM LoggedOutcome == Spec => []OutcomeLogged
  <1>1. Inv => OutcomeLogged
    BY DEF Inv, Task, Outcome, OutcomeLogged
  <1> QED
    BY <1>1, Invariance, PTL

(* Diagnostics that were written are told of in one of the two.            *)
THEOREM ToldDiagnostics == Spec => []DiagnosticsTold
  <1>1. Inv => DiagnosticsTold
    BY DEF Inv, Task, Monitors, Told, Unwritten, InLog, InRotated, Telling, Ended, DiagnosticsTold
  <1> QED
    BY <1>1, Invariance, PTL

-----------------------------------------------------------------------------
(* The retention.  A task deletes what it found too old when it began; how *)
(* many files others have made since is what the bound is about.           *)
Kinds == {"status", "log"}
FilesOf(tasks) == tasks \X Kinds

(* The tasks that have deleted what they found, and those that have not.   *)
Writing == {t \in Active : at[t] # "remove"}
Removing == {t \in Tasks : at[t] = "remove"}

(* What the order of the files and the counts are.                         *)
Counts ==
    /\ order \in Orders(Existing)
    /\ victims \in [Tasks -> SUBSET Files]
    /\ log \in [Tasks -> Log]
    /\ events \in 0 .. MaxEvents
    /\ lost \subseteq Tasks /\ faulty \subseteq Tasks /\ stuck \subseteq Files
    /\ peak \in Nat

(* Of some tasks that have yet to delete, the one that began last knew all *)
(* of them and all that write.  Once it has deleted, what there is are the *)
(* files its listing retained and those of the tasks it knew; if there are *)
(* no such tasks one has deleted already, and that is what there is.  What *)
(* could not be deleted comes on top.                                      *)
Retained(some) ==
    \E kept \in SUBSET Files, tasks \in SUBSET Tasks, old \in {{}} \cup {victims[s] : s \in some} :
        /\ Cardinality(kept) <= 2 * Retain
        /\ Cardinality(tasks) <= peak
        /\ some \cup Writing \subseteq tasks
        /\ (Existing \ stuck) \ old \subseteq kept \cup FilesOf(tasks)

Retention == Counts /\ \A some \in SUBSET Removing : Retained(some)

LEMMA Finite ==
    ASSUME TaskAssumption
    PROVE  /\ IsFiniteSet(Files) /\ IsFiniteSet(Existing)
           /\ IsFiniteSet(Kinds) /\ Cardinality(Kinds) = 2
  <1>1. IsFiniteSet(Kinds) /\ Cardinality(Kinds) = 2
    <2>1. Kinds = {"status"} \cup {"log"} /\ "log" \notin {"status"}
      BY DEF Kinds
    <2>2. IsFiniteSet({"status"}) /\ Cardinality({"status"}) = 1
      BY FS_Singleton
    <2> QED
      BY <2>1, <2>2, FS_AddElement
  <1>2. IsFiniteSet(Files)
    BY <1>1, FS_Product DEF TaskAssumption, Files, Kinds
  <1>3. Existing \in SUBSET Files
    BY DEF Existing
  <1> QED
    BY <1>1, <1>2, <1>3, FS_Subset

LEMMA Least ==
    ASSUME NEW S \in SUBSET Nat, S # {}
    PROVE  \E n \in S : \A k \in S : n <= k
  <1> DEFINE Less == OpToRel(<, Nat)
  <1>1. IsWellFoundedOn(Less, Nat)
    BY NatLessThanWellFounded
  <1> HIDE DEF Less
  <1>2. PICK n \in S : \A k \in S : <<k, n>> \notin Less
    BY <1>1, WFMin
  <1>3. ASSUME NEW k \in S, k < n PROVE <<k, n>> \in Less
    <2>1. <<k, n>> \in Nat \X Nat /\ <<k, n>>[1] < <<k, n>>[2]
      BY <1>3
    <2> QED
      BY <2>1 DEF Less, OpToRel
  <1>4. \A k \in S : ~(k < n)
    BY <1>2, <1>3
  <1> QED
    BY <1>4

(* No more files are among the newest than were asked for: the one of them *)
(* that most files were written after is older than the rest of them.      *)
LEMMA NewestFew ==
    ASSUME TaskAssumption, order \in Orders(Existing), NEW n \in Nat
    PROVE  Newest(n) \in SUBSET Files /\ Cardinality(Newest(n)) <= n
  <1> DEFINE After(f) == {g \in Existing : <<f, g>> \in order}
             Many == {k \in Nat : \E f \in Newest(n) : Cardinality(After(f)) = n - k}
  <1>1. ASSUME NEW f
        PROVE  IsFiniteSet(After(f)) /\ Cardinality(After(f)) \in Nat
    <2>1. After(f) \in SUBSET Existing
      OBVIOUS
    <2> QED
      BY <2>1, Finite, FS_Subset, FS_CardinalityType
  <1>2. \A f \in Newest(n) : f \in Existing /\ Cardinality(After(f)) <= n
    BY DEF Newest
  <1>3. Newest(n) \in SUBSET Files
    BY DEF Newest, Existing
  <1> HIDE DEF After
  <1>4. CASE Newest(n) = {}
    BY <1>3, <1>4, FS_EmptySet
  <1>5. CASE Newest(n) # {}
    <2>1. \A f \in Newest(n) : n - Cardinality(After(f)) \in Many
      BY <1>1, <1>2
    <2>2. PICK k \in Many : \A j \in Many : k <= j
      BY <1>5, <2>1, Least
    <2>3. PICK f \in Newest(n) : Cardinality(After(f)) = n - k
      BY <2>2
    <2>4. ASSUME NEW g \in Newest(n) PROVE g \in After(f)
      <3>1. Cardinality(After(g)) <= Cardinality(After(f))
        BY <1>1, <2>1, <2>2, <2>3
      <3>2. <<f, g>> \in order \/ <<g, f>> \in order
        BY <1>2 DEF Orders
      <3>3. ASSUME g # f, <<g, f>> \in order PROVE FALSE
        <4>1. After(f) \subseteq After(g) /\ g \notin After(f) /\ g \in After(g)
          BY <1>2, <3>3 DEF Orders, After
        <4>2. After(f) \in SUBSET After(g) /\ After(f) # After(g)
          BY <4>1
        <4> QED
          BY <1>1, <3>1, <4>2, FS_Subset
      <3>4. <<f, g>> \in order
        BY <3>2, <3>3
      <3> QED
        BY <1>2, <3>4 DEF After
    <2>5. Newest(n) \in SUBSET After(f)
      BY <2>4
    <2>6. Cardinality(Newest(n)) <= Cardinality(After(f)) /\ Cardinality(Newest(n)) \in Nat
      BY <1>1, <2>5, FS_Subset, FS_CardinalityType
    <2> QED
      BY <1>1, <1>2, <1>3, <2>6
  <1> QED
    BY <1>4, <1>5

(* A write adds one file and makes it the newest, a removal leaves the     *)
(* order of the rest.                                                      *)
LEMMA Touched ==
    ASSUME order \in Orders(Existing), NEW f \in Files, order' = Touch(f)
    PROVE  order' \in Orders(Existing') /\ Existing' = Existing \cup {f}
  <1>1. \A g, h : <<g, h>> \in order' <=>
            \/ <<g, h>> \in order /\ g # f /\ h # f
            \/ g \in Existing \cup {f} /\ h = f
    <2>1. \A g, h : <<g, h>> \in {p \in order : f \notin {p[1], p[2]}}
                       <=> <<g, h>> \in order /\ g # f /\ h # f
      OBVIOUS
    <2>2. \A g, h : <<g, h>> \in {<<x, f>> : x \in Existing \cup {f}}
                       <=> g \in Existing \cup {f} /\ h = f
      OBVIOUS
    <2> QED
      BY <2>1, <2>2 DEF Touch
  <1>2. Existing' = Existing \cup {f}
    BY <1>1 DEF Existing
  <1>3. order' \in SUBSET (Existing' \X Existing')
    BY <1>2 DEF Touch, Orders
  <1> QED
    BY <1>1, <1>2, <1>3 DEF Orders

LEMMA Removed ==
    ASSUME order \in Orders(Existing), NEW old \in SUBSET Files, order' = Without(old)
    PROVE  order' \in Orders(Existing') /\ Existing' = Existing \ old
  <1>1. order \subseteq Files \X Files
    BY DEF Orders, Existing
  <1>2. \A g, h : <<g, h>> \in order' <=> <<g, h>> \in order /\ g \notin old /\ h \notin old
    BY <1>1 DEF Without
  <1>3. Existing' = Existing \ old
    BY <1>2 DEF Existing
  <1>4. order' \in SUBSET (Existing' \X Existing')
    BY <1>2, <1>3 DEF Without, Orders
  <1> QED
    BY <1>2, <1>3, <1>4 DEF Orders

(* What a step does to the files of its task.                              *)
FileStep(t) ==
    \/ \E value \in {"none", "queued", "running", "final"} : WriteStatus(t, value)
    \/ FailStatus(t)
    \/ \E lines \in SUBSET Lines : AddLine(t, lines)
    \/ RotateLog(t)
    \/ UNCHANGED fileVars

LEMMA OwnFiles ==
    ASSUME order \in Orders(Existing), NEW t \in Tasks, FileStep(t)
    PROVE  order' \in Orders(Existing') /\ Existing' \subseteq Existing \cup FilesOf({t})
  <1>1. <<t, "status">> \in Files /\ <<t, "log">> \in Files
    BY DEF Files
  <1>2. <<t, "status">> \in FilesOf({t}) /\ <<t, "log">> \in FilesOf({t})
    BY DEF FilesOf, Kinds
  <1>3. CASE \E kind \in Kinds : order' = Touch(<<t, kind>>)
    BY <1>1, <1>2, <1>3, Touched DEF Kinds
  <1>4. CASE order' = Without({<<t, "log">>})
    <2>1. {<<t, "log">>} \in SUBSET Files
      BY <1>1
    <2> QED
      BY <1>4, <2>1, Removed
  <1>5. CASE order' = order
    BY <1>5 DEF Existing
  <1>6. \/ \E kind \in Kinds : order' = Touch(<<t, kind>>)
        \/ order' = Without({<<t, "log">>})
        \/ order' = order
    BY DEF FileStep, WriteStatus, FailStatus, AddLine, WriteLine, LoseLine, Grow, RotateLog,
           fileVars, Kinds
  <1> QED
    BY <1>3, <1>4, <1>5, <1>6

(* Sizes and histories, after such a step.                                 *)
LEMMA FileTypes ==
    ASSUME TaskAssumption, Counts, NEW t \in Tasks, FileStep(t)
    PROVE  log' \in [Tasks -> Log] /\ lost' \subseteq Tasks
  <1>1. log \in [Tasks -> Log] /\ lost \subseteq Tasks /\ NoLog \in Log
    BY DEF Counts, NoLog, Log, TaskAssumption
  <1>2. lost' = lost
    BY DEF FileStep, WriteStatus, FailStatus, AddLine, WriteLine, LoseLine, RotateLog, fileVars
  <1>3. CASE log' = log \/ log' = [log EXCEPT ![t] = NoLog]
    BY <1>1, <1>2, <1>3
  <1>4. ASSUME NEW lines \in SUBSET Lines, Grow(t, lines) PROVE log' \in [Tasks -> Log]
    <2>1. log[t] \in Log /\ log[t].size \in 0 .. MaxLines /\ log[t].holds \in SUBSET Lines
      BY <1>1 DEF Log
    <2>2. [size |-> IF log[t].size < MaxLines THEN log[t].size + 1 ELSE log[t].size,
           holds |-> log[t].holds \cup lines] \in Log
      BY <2>1 DEF Log, TaskAssumption
    <2> QED
      BY <1>1, <1>4, <2>2 DEF Grow
  <1>5. CASE \E lines \in SUBSET Lines : Grow(t, lines)
    BY <1>1, <1>2, <1>4, <1>5
  <1>6. \/ log' = log \/ log' = [log EXCEPT ![t] = NoLog]
        \/ \E lines \in SUBSET Lines : Grow(t, lines)
    BY DEF FileStep, WriteStatus, FailStatus, AddLine, WriteLine, LoseLine, RotateLog, fileVars
  <1> QED
    BY <1>3, <1>5, <1>6

(* While tasks that write do no more than write, the limits hold.          *)
LEMMA WritesStay ==
    ASSUME Retention, Removing' \subseteq Removing, Writing' \subseteq Writing,
           \A t \in Removing' : victims'[t] = victims[t], peak' = peak, stuck' = stuck,
           Existing' \subseteq Existing \cup FilesOf(Writing)
    PROVE  (\A some \in SUBSET Removing : Retained(some))'
  <1> SUFFICES ASSUME NEW some \in SUBSET Removing'
               PROVE  Retained(some)'
    OBVIOUS
  <1>1. PICK kept \in SUBSET Files, tasks \in SUBSET Tasks,
             old \in {{}} \cup {victims[s] : s \in some} :
               /\ Cardinality(kept) <= 2 * Retain
               /\ Cardinality(tasks) <= peak
               /\ some \cup Writing \subseteq tasks
               /\ (Existing \ stuck) \ old \subseteq kept \cup FilesOf(tasks)
    <2>1. Retained(some)
      BY DEF Retention
    <2> QED
      BY <2>1 DEF Retained
  <1>2. old \in {{}} \cup {victims'[s] : s \in some}
    BY <1>1
  <1>3. some \cup Writing' \subseteq tasks
    BY <1>1
  <1>4. FilesOf(Writing) \subseteq FilesOf(tasks)
    BY <1>1 DEF FilesOf
  <1>5. (Existing' \ stuck') \ old \subseteq kept \cup FilesOf(tasks)
    BY <1>1, <1>4
  <1> QED
    BY <1>1, <1>2, <1>3, <1>5 DEF Retained

(* A task begins: with those of the tasks that have yet to delete it is    *)
(* the last one, and its own listing gives the limits.                     *)
LEMMA BeginRetains ==
    ASSUME TaskAssumption, Inv, Retention, NEW t \in Tasks, Begin(t)
    PROVE  Retention'
  <1> DEFINE new == Newest(2 * Retain)
  <1>1. /\ at \in [Tasks -> {"idle"} \cup Beginning \cup Running \cup Ended] /\ at[t] = "idle"
        /\ at' = [at EXCEPT ![t] = "remove"] /\ order' = order
        /\ victims' = [victims EXCEPT ![t] = Existing \ new]
        /\ peak' = IF peak > Cardinality(Active) THEN peak ELSE Cardinality(Active) + 1
        /\ UNCHANGED <<log, lost, faulty, stuck, events>>
    BY DEF Inv, Types, Begin, Goto, fileVars, oddVars, faultVars
  <1>2. Existing' = Existing /\ Writing' = Writing /\ Removing' = Removing \cup {t}
    BY <1>1 DEF Existing, Writing, Active, Removing, Ended
  <1>3. 2 * Retain \in Nat /\ order \in Orders(Existing)
    BY DEF TaskAssumption, Retention, Counts
  <1>4. new \in SUBSET Files /\ Cardinality(new) <= 2 * Retain
    BY <1>3, NewestFew
  <1> HIDE DEF new
  <1>5. /\ IsFiniteSet(Active) /\ Cardinality(Active) \in Nat
        /\ Cardinality(Active \cup {t}) = Cardinality(Active) + 1
    <2>1. Active \in SUBSET Tasks /\ t \notin Active
      BY <1>1 DEF Active
    <2> QED
      BY <2>1, FS_Subset, FS_CardinalityType, FS_AddElement DEF TaskAssumption
  <1>6. peak' \in Nat /\ peak <= peak' /\ Cardinality(Active \cup {t}) <= peak'
    BY <1>1, <1>5 DEF Retention, Counts
  <1>7. Existing \ new \in SUBSET Files
    BY DEF Existing
  <1>8. Counts'
    BY <1>1, <1>2, <1>6, <1>7 DEF Retention, Counts
  <1>9. ASSUME NEW some \in SUBSET Removing' PROVE Retained(some)'
    <2>1. CASE t \in some
      <3>1. Active \cup {t} \in SUBSET Tasks /\ some \cup Writing' \subseteq Active \cup {t}
        BY <1>2 DEF Active, Writing, Removing, Ended
      <3>2. Existing \ new \in {{}} \cup {victims'[s] : s \in some}
        BY <1>1, <2>1 DEF Retention, Counts
      <3>3. (Existing' \ stuck') \ (Existing \ new) \subseteq new \cup FilesOf(Active \cup {t})
        BY <1>2
      <3> QED
        BY <1>4, <1>6, <3>1, <3>2, <3>3 DEF Retained
    <2>2. CASE t \notin some
      <3>1. some \in SUBSET Removing
        BY <1>2, <2>2
      <3>2. PICK kept \in SUBSET Files, tasks \in SUBSET Tasks,
                 old \in {{}} \cup {victims[s] : s \in some} :
                   /\ Cardinality(kept) <= 2 * Retain
                   /\ Cardinality(tasks) <= peak
                   /\ some \cup Writing \subseteq tasks
                   /\ (Existing \ stuck) \ old \subseteq kept \cup FilesOf(tasks)
        BY <3>1 DEF Retention, Retained
      <3>3. old \in {{}} \cup {victims'[s] : s \in some}
        BY <1>1, <2>2, <3>1, <3>2 DEF Retention, Counts, Removing
      <3>4. Cardinality(tasks) <= peak'
        BY <1>6, <3>2, FS_Subset, FS_CardinalityType DEF TaskAssumption, Retention, Counts
      <3> QED
        <4>1. (Existing' \ stuck') \ old \subseteq kept \cup FilesOf(tasks)
          BY <1>1, <1>2, <3>2
        <4>2. some \cup Writing' \subseteq tasks
          BY <1>2, <3>2
        <4> QED
          BY <3>2, <3>3, <3>4, <4>1, <4>2 DEF Retained
    <2> QED
      BY <2>1, <2>2
  <1> QED
    BY <1>8, <1>9 DEF Retention

(* ... and deletes: the limits that it had with others are those of the    *)
(* others, or those that hold by now.                                      *)
LEMMA RemoveFilesRetains ==
    ASSUME TaskAssumption, Inv, Retention, NEW t \in Tasks, RemoveFiles(t)
    PROVE  Retention'
  <1> USE DEF Counts
  <1>1. /\ at \in [Tasks -> {"idle"} \cup Beginning \cup Running \cup Ended] /\ at[t] = "remove"
        /\ at' = [at EXCEPT ![t] = "status1"] /\ victims' = [victims EXCEPT ![t] = {}]
        /\ victims[t] \in SUBSET Files
        /\ UNCHANGED <<peak, faulty>>
    BY DEF Inv, Types, Retention, RemoveFiles, Goto
  <1>7. PICK left \in SUBSET (victims[t] \cap Existing) :
           LET gone == victims[t] \ left
           IN  /\ events' = events \/ Event
               /\ stuck' = (stuck \ gone) \cup left
               /\ order' = Without(gone)
               /\ log' = [u \in Tasks |-> IF <<u, "log">> \in gone THEN NoLog ELSE log[u]]
               /\ lost' = lost \cup {u \in Tasks : {<<u, "status">>, <<u, "log">>} \cap gone # {}}
    BY DEF RemoveFiles
  <1> DEFINE gone == victims[t] \ left
  <1>8. /\ order' = Without(gone) /\ gone \in SUBSET Files
        /\ stuck' = (stuck \ gone) \cup left /\ left \subseteq victims[t]
        /\ log' = [u \in Tasks |-> IF <<u, "log">> \in gone THEN NoLog ELSE log[u]]
        /\ lost' \subseteq Tasks /\ events' \in 0 .. MaxEvents
    BY <1>1, <1>7 DEF Retention, Event, TaskAssumption
  <1> HIDE DEF gone
  <1>2. order' \in Orders(Existing') /\ Existing' = Existing \ gone
    BY <1>8, Removed DEF Retention
  <1>9. (Existing' \ stuck') \subseteq (Existing \ stuck) \ victims[t]
    BY <1>2, <1>8 DEF gone
  <1>3. Writing' = Writing \cup {t} /\ Removing' = Removing \ {t} /\ t \in Removing
    BY <1>1 DEF Writing, Active, Removing, Ended
  <1>4. NoLog \in Log
    BY DEF NoLog, Log, TaskAssumption
  <1>5. Counts'
    <2>1. stuck' \subseteq Files
      BY <1>1, <1>8 DEF Retention
    <2> QED
      BY <1>1, <1>2, <1>4, <1>8, <2>1 DEF Retention
  <1>6. ASSUME NEW some \in SUBSET Removing' PROVE Retained(some)'
    <2>1. some \cup {t} \in SUBSET Removing
      BY <1>3
    <2>2. PICK kept \in SUBSET Files, tasks \in SUBSET Tasks,
               old \in {{}} \cup {victims[s] : s \in some \cup {t}} :
                 /\ Cardinality(kept) <= 2 * Retain
                 /\ Cardinality(tasks) <= peak
                 /\ (some \cup {t}) \cup Writing \subseteq tasks
                 /\ (Existing \ stuck) \ old \subseteq kept \cup FilesOf(tasks)
      BY <2>1 DEF Retention, Retained
    <2>3. \A s \in some : victims'[s] = victims[s]
      BY <1>1, <1>3 DEF Retention, Counts, Removing
    <2>4. PICK now \in {{}} \cup {victims'[s] : s \in some} : now = old \/ old = victims[t]
      BY <2>2, <2>3
    <2>5. (Existing' \ stuck') \ now \subseteq kept \cup FilesOf(tasks)
      BY <1>9, <2>2, <2>4
    <2>6. some \cup Writing' \subseteq tasks
      BY <1>3, <2>2
    <2>7. /\ kept \in SUBSET Files /\ tasks \in SUBSET Tasks
          /\ now \in {{}} \cup {victims'[s] : s \in some}
          /\ Cardinality(kept) <= 2 * Retain /\ Cardinality(tasks) <= peak'
      BY <1>1, <2>2, <2>4
    <2>8. \E few \in SUBSET Files, known \in SUBSET Tasks, late \in {{}} \cup {victims'[s] : s \in some} :
             /\ Cardinality(few) <= 2 * Retain
             /\ Cardinality(known) <= peak'
             /\ some \cup Writing' \subseteq known
             /\ (Existing' \ stuck') \ late \subseteq few \cup FilesOf(known)
      <3> USE <2>7
      <3> WITNESS kept \in SUBSET Files, tasks \in SUBSET Tasks,
                  now \in {{}} \cup {victims'[s] : s \in some}
      <3> QED
        BY <2>5, <2>6
    <2> QED
      BY <2>8 DEF Retained
  <1> QED
    BY <1>5, <1>6 DEF Retention

(* What a task and its monitor do after that.                              *)
LEMMA WritingRetains ==
    ASSUME TaskAssumption, Inv, Retention, NEW t \in Writing, FileStep(t),
           \/ UNCHANGED at
           \/ \E stage \in (Beginning \cup Running \cup Ended) \ {"remove"} : Goto(t, stage),
           UNCHANGED <<victims, peak, stuck>>,
           faulty' \subseteq Tasks, events' \in 0 .. MaxEvents
    PROVE  Retention'
  <1>1. t \in Tasks /\ at[t] \notin {"remove", "idle"}
    BY DEF Writing, Active
  <1>2. order' \in Orders(Existing') /\ Existing' \subseteq Existing \cup FilesOf({t})
    BY <1>1, OwnFiles DEF Retention, Counts
  <1>3. log' \in [Tasks -> Log] /\ lost' \subseteq Tasks
    BY <1>1, FileTypes DEF Retention
  <1>4. Counts'
    BY <1>2, <1>3 DEF Retention, Counts
  <1>5. Removing' \subseteq Removing /\ Writing' \subseteq Writing
    BY <1>1 DEF Inv, Types, Goto, Removing, Writing, Active
  <1>6. Existing' \subseteq Existing \cup FilesOf(Writing)
    BY <1>2 DEF FilesOf
  <1> QED
    BY <1>4, <1>5, <1>6, WritesStay DEF Retention

(* The event of a step, if it is one.                                      *)
OddStep(t) ==
    \/ FailStatus(t)
    \/ \E lines \in SUBSET Lines : LoseLine(t, lines)
    \/ RotateLog(t)
    \/ UNCHANGED oddVars

LEMMA Happens ==
    ASSUME TaskAssumption, Counts, NEW t \in Tasks, OddStep(t)
    PROVE  faulty' \subseteq Tasks /\ events' \in 0 .. MaxEvents /\ stuck' = stuck
  <1>1. CASE FailStatus(t)
    BY <1>1 DEF TaskAssumption, Counts, FailStatus, Event
  <1>2. CASE \E lines \in SUBSET Lines : LoseLine(t, lines)
    BY <1>2 DEF TaskAssumption, Counts, LoseLine, Event
  <1>3. CASE RotateLog(t)
    <2>1. (UNCHANGED events \/ Event) /\ UNCHANGED <<faulty, stuck>>
      BY <1>3 DEF RotateLog, faultVars
    <2> QED
      BY <2>1 DEF TaskAssumption, Counts, Event
  <1>4. CASE UNCHANGED oddVars
    BY <1>4 DEF Counts, oddVars, faultVars
  <1> QED
    BY <1>1, <1>2, <1>3, <1>4 DEF OddStep

LEMMA StepRetains ==
    ASSUME TaskAssumption, Inv, Retention, NEW t \in Tasks,
           Progress(t) \/ Trigger(t) \/ Step(t)
    PROVE  Retention'
  <1> DEFINE Stages == (Beginning \cup Running \cup Ended) \ {"remove"}
             Elsewhere == UNCHANGED at \/ \E stage \in Stages : Goto(t, stage)
  <1>1. Types /\ Monitors(t) /\ Counts
    BY DEF Inv, Task, Retention
  <1>2. monitor[t] # "off" => t \in Writing
    BY <1>1 DEF Types, Monitors, Writing, Active, Beginning, Ended
  <1>3. at[t] \in (Beginning \cup Running) \ {"remove"} => t \in Writing
    BY DEF Writing, Active, Beginning, Running, Ended
  <1>4. CASE RemoveFiles(t)
    BY <1>4, RemoveFilesRetains
  <1>5. CASE FirstStatus(t)
    <2>1. t \in Writing
      BY <1>3, <1>5 DEF FirstStatus, Beginning, Running
    <2>2. FileStep(t)
      BY <1>5 DEF FirstStatus, FileStep
    <2>3. OddStep(t)
      BY <1>5 DEF FirstStatus, WriteStatus, OddStep
    <2>4. Elsewhere /\ UNCHANGED <<victims, peak>>
      BY <1>5 DEF FirstStatus, Beginning, Ended
    <2> QED
      BY <1>1, <2>1, <2>2, <2>3, <2>4, Happens, WritingRetains
  <1>6. CASE Start(t) \/ FinalStatus(t)
    <2>1. t \in Writing
      BY <1>3, <1>6 DEF Start, FinalStatus, Beginning, Running
    <2>2. FileStep(t)
      BY <1>6 DEF Start, FinalStatus, FileStep
    <2>3. OddStep(t)
      BY <1>6 DEF Start, FinalStatus, WriteStatus, OddStep
    <2>4. Elsewhere /\ UNCHANGED <<victims, peak>>
      BY <1>6 DEF Start, FinalStatus, Running, Beginning
    <2> QED
      BY <1>1, <2>1, <2>2, <2>3, <2>4, Happens, WritingRetains
  <1>7. CASE FirstLine(t)
    <2>1. t \in Writing
      BY <1>3, <1>7 DEF FirstLine, Beginning, Running
    <2>2. FileStep(t) /\ OddStep(t)
      BY <1>7 DEF FirstLine, FileStep, AddLine, WriteLine, OddStep
    <2>3. Elsewhere /\ UNCHANGED <<victims, peak>>
      BY <1>7 DEF FirstLine, Running, Beginning
    <2> QED
      BY <1>1, <2>1, <2>2, <2>3, Happens, WritingRetains
  <1>8. CASE AppendLog(t)
    <2>1. t \in Writing
      BY <1>3, <1>8 DEF AppendLog, Logging, Beginning, Running
    <2>2. LinesOf(t) \in SUBSET Lines
      BY DEF LinesOf, Lines
    <2>3. FileStep(t) /\ OddStep(t)
      BY <1>8, <2>2 DEF AppendLog, StatLog, FileStep, AddLine, WriteLine, OddStep
    <2>4. UNCHANGED at \/ Goto(t, Logged(t))
      BY <1>8 DEF AppendLog
    <2>5. Logged(t) \in Stages
      BY <1>8 DEF AppendLog, Logging, Logged, Running, Beginning
    <2>6. Elsewhere /\ UNCHANGED <<victims, peak>>
      BY <1>8, <2>4, <2>5 DEF AppendLog
    <2> QED
      BY <1>1, <2>1, <2>3, <2>6, Happens, WritingRetains
  <1>9. CASE Stop(t) \/ Finish(t)
    <2>1. t \in Writing
      BY <1>3, <1>9 DEF Stop, Finish, Beginning, Running
    <2>2. FileStep(t) /\ OddStep(t)
      BY <1>9 DEF Stop, Finish, FileStep, OddStep
    <2>3. Elsewhere /\ UNCHANGED <<victims, peak>>
      BY <1>9 DEF Stop, Finish, Ended, Running, Beginning
    <2> QED
      BY <1>1, <2>1, <2>2, <2>3, Happens, WritingRetains
  <1>10. CASE Progress(t)
    <2>1. t \in Writing
      BY <1>3, <1>10 DEF Progress, Beginning, Running
    <2>2. /\ FileStep(t) /\ faulty' \subseteq Tasks /\ events' \in 0 .. MaxEvents
          /\ stuck' = stuck
      BY <1>1, <1>10 DEF Progress, FileStep, Event, Counts, TaskAssumption, faultVars
    <2>3. Elsewhere /\ UNCHANGED <<victims, peak>>
      BY <1>10 DEF Progress, Running, Beginning
    <2> QED
      BY <2>1, <2>2, <2>3, WritingRetains
  <1>11. CASE Trigger(t)
    <2>1. t \in Writing
      BY <1>2, <1>11 DEF Trigger
    <2>2. /\ FileStep(t) /\ faulty' \subseteq Tasks /\ events' \in 0 .. MaxEvents
          /\ stuck' = stuck
      BY <1>1, <1>11 DEF Trigger, FileStep, Event, Counts, TaskAssumption, faultVars
    <2>3. Elsewhere /\ UNCHANGED <<victims, peak>>
      BY <1>11 DEF Trigger, controlVars
    <2> QED
      BY <2>1, <2>2, <2>3, WritingRetains
  <1>12. CASE WriteDiagnostics(t)
    <2>1. t \in Writing
      BY <1>2, <1>12 DEF WriteDiagnostics
    <2>2. FileStep(t) /\ OddStep(t)
      BY <1>12 DEF WriteDiagnostics, FileStep, OddStep
    <2>3. Elsewhere /\ UNCHANGED <<victims, peak>>
      BY <1>12 DEF WriteDiagnostics, controlVars
    <2> QED
      BY <1>1, <2>1, <2>2, <2>3, Happens, WritingRetains
  <1>13. CASE ReportDiagnostics(t)
    <2>1. t \in Writing
      BY <1>2, <1>13 DEF ReportDiagnostics
    <2>2. {"diagnostics"} \in SUBSET Lines
      BY DEF Lines
    <2>3. FileStep(t) /\ OddStep(t)
      BY <1>13, <2>2 DEF ReportDiagnostics, StatLog, FileStep, AddLine, WriteLine, OddStep
    <2>4. Elsewhere /\ UNCHANGED <<victims, peak>>
      BY <1>13 DEF ReportDiagnostics, controlVars
    <2> QED
      BY <1>1, <2>1, <2>3, <2>4, Happens, WritingRetains
  <1> QED
    BY <1>4, <1>5, <1>6, <1>7, <1>8, <1>9, <1>10, <1>11, <1>12, <1>13 DEF Step

(* The server, and its end.                                                *)
LEMMA ServerRetains ==
    ASSUME TaskAssumption, Inv, Retention,
           Drain \/ Cancel \/ ListenerFails \/ (\E ended : Exit(ended)) \/ UNCHANGED vars
    PROVE  Retention'
  <1>1. UNCHANGED <<order, log, lost, faulty, stuck, events, peak>>
    BY DEF Drain, Cancel, ListenerFails, Exit, vars, controlVars, fileVars, oddVars, faultVars
  <1>2. Existing' = Existing
    BY <1>1 DEF Existing
  <1>3. CASE UNCHANGED <<at, victims>>
    <2>1. Counts'
      BY <1>1, <1>2, <1>3 DEF Retention, Counts
    <2>2. Removing' = Removing /\ Writing' = Writing
      BY <1>3 DEF Removing, Writing, Active
    <2> QED
      BY <1>1, <1>2, <1>3, <2>1, <2>2, WritesStay DEF Retention
  <1>4. CASE \E ended : Exit(ended)
    <2>1. /\ at' = [t \in Tasks |-> IF t \in Active THEN "dead" ELSE at[t]]
          /\ victims' = [t \in Tasks |-> {}]
      BY <1>4 DEF Exit
    <2>2. Counts'
      BY <1>1, <1>2, <2>1 DEF Retention, Counts
    <2>3. Removing' = {} /\ Writing' = {}
      BY <2>1 DEF Removing, Writing, Active, Ended
    <2> QED
      BY <1>1, <1>2, <2>2, <2>3, WritesStay DEF Retention
  <1> QED
    BY <1>3, <1>4 DEF Drain, Cancel, ListenerFails, vars, controlVars

LEMMA InitRetains == ASSUME TaskAssumption, Init PROVE Retention
  <1> DEFINE files == Earlier \X {"status", "log"}
  <1>1. files \subseteq Files
    BY DEF TaskAssumption, Files
  <1>2. order \in Orders(files) /\ Existing = files
    <2>1. order \in Orders(files)
      BY DEF Init
    <2> QED
      BY <1>1, <2>1 DEF Existing, Orders
  <1>3. Cardinality(Earlier) \in Nat
    BY FS_Subset, FS_CardinalityType DEF TaskAssumption
  <1>4. Counts
    BY <1>2, <1>3 DEF Init, Counts, Log, NoLog, EarlierLog, Lines, TaskAssumption
  <1>5. Removing = {} /\ Writing = {}
    BY DEF Init, Removing, Writing, Active, Ended
  <1>6. Retained({})
    <2>1. {} \in SUBSET Files /\ Cardinality({}) <= 2 * Retain
      BY FS_EmptySet DEF TaskAssumption
    <2>2. (Existing \ stuck) \ {} \subseteq {} \cup FilesOf(Earlier)
      BY <1>2 DEF FilesOf, Kinds
    <2>3. Earlier \in SUBSET Tasks /\ Cardinality(Earlier) <= peak
      BY <1>3 DEF Init, TaskAssumption
    <2> QED
      BY <1>5, <2>1, <2>2, <2>3 DEF Retained
  <1> QED
    BY <1>4, <1>5, <1>6 DEF Retention

\* Whatever the removers under way still hold in hand, the files that there are
\* belong to the tasks retained and to the tasks there once were at a time.
THEOREM RetentionHolds == Spec => []Retention
  <1>1. Init => Retention
    BY TaskAssumption, InitRetains
  <1>2. Inv /\ Retention /\ [Next]_vars => Retention'
    <2> SUFFICES ASSUME Inv, Retention, [Next]_vars
                 PROVE  Retention'
      OBVIOUS
    <2>1. CASE \E t \in Tasks : Begin(t) \/ Progress(t) \/ Trigger(t) \/ Step(t)
      BY <2>1, TaskAssumption, BeginRetains, StepRetains
    <2>2. CASE Drain \/ Cancel \/ ListenerFails \/ Shutdown \/ Die \/ UNCHANGED vars
      BY <2>2, TaskAssumption, ServerRetains DEF Shutdown, Die
    <2> QED
      BY <2>1, <2>2 DEF Next
  <1> QED
    BY <1>1, <1>2, Invariance, PTL DEF Spec

(* Every variable of a task, of its files and of its monitor keeps its     *)
(* type.                                                                   *)
THEOREM TypeInvariant == Spec => []TypeOK
  <1>1. Inv /\ Retention => TypeOK
    <2> SUFFICES ASSUME Inv, Retention
                 PROVE  TypeOK
      OBVIOUS
    <2>1. order \subseteq Files \X Files
      <3>1. order \in Orders(Existing) /\ Existing \subseteq Files
        BY DEF Retention, Counts, Existing
      <3> QED
        BY <3>1 DEF Orders
    <2>2. /\ victims \in [Tasks -> SUBSET Files] /\ log \in [Tasks -> Log]
          /\ events \in 0 .. MaxEvents /\ lost \subseteq Tasks /\ faulty \subseteq Tasks
          /\ stuck \subseteq Files
          /\ peak \in Nat
      BY DEF Retention, Counts
    <2> QED
      BY <2>1, <2>2 DEF Inv, Types, TypeOK
  <1> QED
    BY <1>1, Invariance, RetentionHolds, PTL

(* However tasks list, delete and write beside one another, the directory  *)
(* holds two files for each task that is retained and for each of those    *)
(* there ever were at once, and no more.                                   *)
THEOREM BoundedFiles == Spec => []FilesBounded
  <1>1. Inv /\ Retention => FilesBounded
    <2> SUFFICES ASSUME Retention
                 PROVE  FilesBounded
      OBVIOUS
    <2>1. PICK kept \in SUBSET Files, tasks \in SUBSET Tasks :
                 /\ Cardinality(kept) <= 2 * Retain
                 /\ Cardinality(tasks) <= peak
                 /\ Existing \ stuck \subseteq kept \cup FilesOf(tasks)
      <3>1. Retained({})
        BY DEF Retention
      <3> QED
        BY <3>1 DEF Retained
    <2>2. IsFiniteSet(kept) /\ IsFiniteSet(tasks)
      BY <2>1, TaskAssumption, Finite, FS_Subset DEF TaskAssumption
    <2>3. /\ IsFiniteSet(FilesOf(tasks))
          /\ Cardinality(FilesOf(tasks)) = Cardinality(tasks) * 2
      BY <2>2, TaskAssumption, Finite, FS_Product DEF FilesOf
    <2>4. /\ IsFiniteSet(kept \cup FilesOf(tasks))
          /\ Cardinality(kept \cup FilesOf(tasks))
                = Cardinality(kept) + Cardinality(FilesOf(tasks)) - Cardinality(kept \cap FilesOf(tasks))
      BY <2>2, <2>3, FS_Union
    <2>5. /\ Cardinality(kept) \in Nat /\ Cardinality(tasks) \in Nat
          /\ Cardinality(kept \cap FilesOf(tasks)) \in Nat
      BY <2>2, FS_Intersection, FS_CardinalityType
    <2>6. /\ Cardinality(Existing \ stuck) <= Cardinality(kept \cup FilesOf(tasks))
          /\ Cardinality(Existing \ stuck) \in Nat
      <3>1. Existing \ stuck \in SUBSET (kept \cup FilesOf(tasks))
        BY <2>1
      <3> QED
        BY <2>4, <3>1, FS_Subset, FS_CardinalityType
    <2> QED
      BY <2>1, <2>3, <2>4, <2>5, <2>6, TaskAssumption
         DEF FilesBounded, TaskAssumption, Retention, Counts
  <1> QED
    BY <1>1, Invariance, RetentionHolds, PTL
=============================================================================
