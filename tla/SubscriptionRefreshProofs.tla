--------------------- MODULE SubscriptionRefreshProofs ---------------------
(***************************************************************************)
(* What TLAPS proves of SubscriptionRefresh, for any calls, sources,       *)
(* workers and bounds.                                                     *)
(***************************************************************************)
EXTENDS SubscriptionRefresh, TLAPS

Encodes(c, n) == IF n = Merged THEN call[c].at = "encode" ELSE call[c].job[n] = "encode"
Renames(c, n) == IF n = Merged THEN call[c].at = "rename" ELSE call[c].job[n] = "rename"

(* The control state of a call: its stage bounds what its jobs can be, and *)
(* its jobs what it holds of their sources.                                *)
Control(c) ==
    /\ call[c].at # "fetch" => \A s \in Sources : call[c].job[s] \notin {"queued"} \cup Busy
    /\ call[c].at \notin {"idle", "fetch"} => \A s \in Sources : call[c].job[s] # "failed"
    /\ call[c].at \in {"encode", "rename"}
         => \A s \in call[c].sources : call[c].job[s] # "none"
    /\ call[c].at # "idle" => ~call[c].ok
    /\ call[c].at = "idle" => ~call[c].alone
    /\ \A s \in Sources : call[c].job[s] # "none" => s \in call[c].sources
    /\ \A s \in Sources : call[c].docs[s] <= served[s]
    /\ \A s \in Sources :
          call[c].job[s] \in {"none", "queued", "fetch", "missing"} => call[c].docs[s] = 0

(* A call that has a file open is writing it.                              *)
Opens ==
    \A c \in Calls : \A n \in Names :
        c \in disk[n].open \cup temp[n].open => Encodes(c, n)

(* A call that is alone is the only one, and without races all are.        *)
Sole == \A c, d \in Calls : call[c].alone /\ d # c => call[d].at = "idle"
Raced == ~raced => \A c \in Active : call[c].alone

(* No file is newer than what its provider has served.                     *)
Served ==
    \A s \in Sources : disk[s].doc[s] <= served[s] /\ temp[s].doc[s] <= served[s]

(* What a call that is alone knows of the files it is writing, and of the  *)
(* artifacts it has written or read.                                       *)
Writes(c) ==
    /\ \A n \in Names : disk[n].open = {}
    /\ \A n \in Names :
          Encodes(c, n) => temp[n].exists /\ ~temp[n].mixed /\ temp[n].open = {c}
    /\ \A n \in Names :
          Renames(c, n) => /\ temp[n].exists /\ temp[n].whole /\ temp[n].open = {}
                           /\ temp[n].doc = Contents(c, n)

Holds(c) ==
    /\ \A s \in Sources :
          call[c].job[s] = "done" => disk[s].whole /\ disk[s].doc = Only(s, call[c].docs[s])
    /\ \A s \in Sources :
          call[c].job[s] = "read" => disk[s].doc[s] = call[c].docs[s]
    /\ \A s \in Sources :
          call[c].job[s] \in Writing => disk[s].doc[s] <= call[c].docs[s]

Files(c) == call[c].alone => Writes(c) /\ Holds(c)

Inv ==
    /\ TypeOK
    /\ \A c \in Calls : Control(c) /\ Files(c)
    /\ Opens /\ Sole /\ Raced /\ Served
    /\ ReadersSeeWholeFiles
    /\ ArtifactsLead

-----------------------------------------------------------------------------
(* The constants, and the documents and files that are built of them.      *)
LEMMA Constants ==
    ASSUME SubscriptionAssumption
    PROVE  /\ Merged \notin Sources
           /\ MaxServed \in Nat /\ 0 \in 0 .. MaxServed
           /\ MaxRefreshes \in Nat /\ MaxConfigures \in Nat /\ MaxFaults \in Nat
  BY DEF SubscriptionAssumption

LEMMA Documents ==
    ASSUME SubscriptionAssumption
    PROVE  /\ Nothing \in Doc
           /\ \A s \in Sources : \A v \in 0 .. MaxServed :
                 Only(s, v) \in Doc /\ Only(s, v)[s] = v
           /\ NoFile \in File
           /\ \A ok \in BOOLEAN : Returned(ok) \in Call
  BY Constants DEF Nothing, Doc, Only, NoFile, File, Returned, Call, Job, Busy, Writing

(* A call stays one when some of its fields change.                        *)
LEMMA CallUpdates ==
    ASSUME NEW x \in Call
    PROVE  /\ [x EXCEPT !.alone = FALSE] \in Call
           /\ [x EXCEPT !.cancelled = TRUE] \in Call
           /\ [x EXCEPT !.at = "read", !.cancelled = FALSE] \in Call
           /\ \A job \in [Sources -> Job] : [x EXCEPT !.job = job] \in Call
           /\ \A s \in Sources, job \in Job, version \in 0 .. MaxServed :
                 [x EXCEPT !.job[s] = job, !.docs[s] = version] \in Call
  <1>1. /\ [x EXCEPT !.alone = FALSE] \in Call
        /\ [x EXCEPT !.cancelled = TRUE] \in Call
    BY DEF Call
  <1>2. [x EXCEPT !.at = "read", !.cancelled = FALSE] \in Call
    BY DEF Call
  <1>3. \A job \in [Sources -> Job] : [x EXCEPT !.job = job] \in Call
    BY DEF Call
  <1>4. ASSUME NEW s \in Sources, NEW job \in Job, NEW version \in 0 .. MaxServed
        PROVE  [x EXCEPT !.job[s] = job, !.docs[s] = version] \in Call
    <2>1. [x.job EXCEPT ![s] = job] \in [Sources -> Job]
      BY DEF Call
    <2>2. [x.docs EXCEPT ![s] = version] \in Doc
      BY DEF Call, Doc
    <2> QED
      BY <2>1, <2>2 DEF Call
  <1> QED
    BY <1>1, <1>2, <1>3, <1>4

(* What a call may do to its own state.                                    *)
LEMMA ReturnEffect ==
    ASSUME SubscriptionAssumption, TypeOK, NEW c \in Calls, NEW ok \in BOOLEAN,
           Return(c, ok)
    PROVE  /\ call' \in [Calls -> Call]
           /\ call'[c] = Returned(ok)
           /\ \A d \in Calls \ {c} : call'[d] = call[d]
  BY Documents DEF TypeOK, Return

LEMMA SetJobEffect ==
    ASSUME TypeOK, NEW c \in Calls, NEW s \in Sources, NEW job \in Job,
           SetJob(c, s, job)
    PROVE  /\ call' \in [Calls -> Call]
           /\ call'[c] = [call[c] EXCEPT !.job[s] = job]
           /\ \A d \in Calls \ {c} : call'[d] = call[d]
  <1> DEFINE new == [call[c] EXCEPT !.job[s] = job]
  <1>1. call \in [Calls -> Call] /\ call[c] \in Call
    BY DEF TypeOK
  <1>2. new \in Call
    <2>1. [call[c].job EXCEPT ![s] = job] \in [Sources -> Job]
      BY <1>1 DEF Call
    <2> QED
      BY <1>1, <2>1, CallUpdates
  <1>3. call' = [call EXCEPT ![c] = new]
    BY <1>1 DEF SetJob
  <1> HIDE DEF new
  <1>4. call' \in [Calls -> Call] /\ call'[c] = new /\ \A d \in Calls \ {c} : call'[d] = call[d]
    BY <1>1, <1>2, <1>3
  <1> QED
    BY <1>4 DEF new

LEMMA SetAtEffect ==
    ASSUME TypeOK, NEW c \in Calls, NEW at \in {"idle", "fetch", "read", "encode", "rename"},
           call' = [call EXCEPT ![c].at = at]
    PROVE  /\ call' \in [Calls -> Call]
           /\ call'[c] = [call[c] EXCEPT !.at = at]
           /\ \A d \in Calls \ {c} : call'[d] = call[d]
  <1> DEFINE new == [call[c] EXCEPT !.at = at]
  <1>1. call \in [Calls -> Call] /\ call[c] \in Call
    BY DEF TypeOK
  <1>2. new \in Call
    BY <1>1 DEF Call
  <1>3. call' = [call EXCEPT ![c] = new]
    BY <1>1
  <1> HIDE DEF new
  <1>4. call' \in [Calls -> Call] /\ call'[c] = new /\ \A d \in Calls \ {c} : call'[d] = call[d]
    BY <1>1, <1>2, <1>3
  <1> QED
    BY <1>4 DEF new

(* The steps of the file of a name, as its writer sees them.               *)
LEMMA ProgressOf ==
    ASSUME TypeOK, SubscriptionAssumption, NEW c \in Calls, NEW n \in Names
    PROVE  /\ Progress(c, n) = "encode" <=> Encodes(c, n)
           /\ Progress(c, n) = "rename" <=> Renames(c, n)
           /\ Progress(c, n) = "open" =>
                 IF n = Merged
                 THEN /\ call[c].at = "read"
                      /\ \A s \in call[c].sources : call[c].job[s] # "none"
                 ELSE call[c].job[n] = "open"
  BY DEF Progress, Encodes, Renames, With, TypeOK, Call, Names

(* How a call changes that stays active and keeps what it has selected.    *)
Stays(c) ==
    /\ call'[c].alone = call[c].alone
    /\ call'[c].ok = call[c].ok
    /\ call'[c].sources = call[c].sources

(* A step of a name's file, the same.                                      *)
LEMMA ProceedEffect ==
    ASSUME SubscriptionAssumption, TypeOK, NEW c \in Calls, NEW n \in Names,
           NEW step \in {"encode", "rename"}, Proceed(c, n, step)
    PROVE  /\ call' \in [Calls -> Call]
           /\ n = Merged => call'[c].at = step /\ call'[c].job = call[c].job
           /\ n # Merged => /\ call'[c].at = call[c].at /\ call'[c].job[n] = step
                            /\ \A s \in Sources \ {n} : call'[c].job[s] = call[c].job[s]
           /\ Stays(c) /\ call'[c].docs = call[c].docs
           /\ \A d \in Calls \ {c} : call'[d] = call[d]
  <1>1. CASE n = Merged
    <2>1. call' = [call EXCEPT ![c].at = step]
      BY <1>1 DEF Proceed
    <2>2. call' \in [Calls -> Call]
      BY <2>1, SetAtEffect
    <2> QED
      BY <1>1, <2>1, <2>2 DEF TypeOK, Call, Stays
  <1>2. CASE n # Merged
    <2>1. n \in Sources /\ step \in Job
      BY <1>2 DEF Names, Job, Busy, Writing
    <2>2. SetJob(c, n, step)
      BY <1>2 DEF Proceed
    <2>3. call' \in [Calls -> Call]
      BY <2>1, <2>2, SetJobEffect
    <2> QED
      BY <1>2, <2>1, <2>2, <2>3 DEF SetJob, TypeOK, Call, Stays
  <1> QED
    BY <1>1, <1>2

LEMMA FailEffect ==
    ASSUME SubscriptionAssumption, TypeOK, NEW c \in Calls, NEW n \in Names, Fail(c, n)
    PROVE  /\ call' \in [Calls -> Call]
           /\ call'[c] = IF n = Merged THEN Returned(FALSE)
                         ELSE [call[c] EXCEPT !.job[n] = "failed"]
           /\ \A d \in Calls \ {c} : call'[d] = call[d]
  <1>1. CASE n = Merged
    BY <1>1, ReturnEffect DEF Fail
  <1>2. CASE n # Merged
    <2>1. n \in Sources /\ "failed" \in Job
      BY <1>2 DEF Names, Job
    <2> QED
      BY <1>2, <2>1, SetJobEffect DEF Fail
  <1> QED
    BY <1>1, <1>2

(* Contents and outcomes of a write are documents and files.               *)
LEMMA ContentsType ==
    ASSUME SubscriptionAssumption, TypeOK, NEW c \in Calls, NEW n \in Names
    PROVE  Contents(c, n) \in Doc
  BY Documents, Constants DEF Contents, TypeOK, Call, Doc, Names

LEMMA ClosedType ==
    ASSUME SubscriptionAssumption, NEW file \in File, NEW c \in Calls, NEW doc \in Doc
    PROVE  Closed(file, c, doc) \subseteq File
  <1> DEFINE closed == [file EXCEPT !.open = @ \ {c}]
             held == [closed EXCEPT !.whole = TRUE, !.doc = doc]
             torn == [closed EXCEPT !.whole = FALSE, !.doc = Nothing]
  <1>1. closed \in File
    BY DEF File
  <1>2. held \in File
    BY <1>1 DEF File
  <1>3. torn \in File
    BY <1>1, Documents DEF File
  <1>4. Closed(file, c, doc) \subseteq {held, torn, closed}
    BY DEF Closed
  <1> HIDE DEF closed, held, torn
  <1> QED
    BY <1>1, <1>2, <1>3, <1>4

LEMMA ClosedParts ==
    ASSUME NEW file \in File, NEW c \in Calls, NEW doc \in Doc,
           NEW left \in Closed(file, c, doc)
    PROVE  /\ left.open = file.open \ {c}
           /\ left.exists = file.exists
           /\ left.doc \in {doc, Nothing, file.doc}
           /\ ~file.mixed => left.whole /\ left.doc = doc
  BY DEF Closed, File

-----------------------------------------------------------------------------
LEMMA InitTypes ==
    ASSUME SubscriptionAssumption, Init
    PROVE  TypeOK
  <1>1. 1 \in 1 .. MaxServed
    BY DEF SubscriptionAssumption
  <1>2. served \in [Sources -> 1 .. MaxServed] /\ config \subseteq Sources /\ raced \in BOOLEAN
    BY <1>1 DEF Init
  <1>3. disk \in [Names -> File] /\ temp \in [Names -> File]
    BY Documents DEF Init
  <1>4. call \in [Calls -> Call]
    BY Documents DEF Init
  <1>5. /\ refreshes \in 0 .. MaxRefreshes /\ configures \in 0 .. MaxConfigures
        /\ faults \in 0 .. MaxFaults
    BY Constants DEF Init
  <1> QED
    BY <1>2, <1>3, <1>4, <1>5 DEF TypeOK

(* Every action keeps the types.                                           *)
LEMMA BeginTypes ==
    ASSUME SubscriptionAssumption, TypeOK, NEW c \in Calls, Begin(c)
    PROVE  TypeOK'
  <1>1. PICK ids \in SUBSET config \ {{}} :
          call' = [d \in Calls |->
             IF d = c
             THEN [at |-> "fetch", cancelled |-> FALSE, alone |-> Active = {},
                   sources |-> config,
                   job |-> [s \in Sources |-> IF s \in ids THEN "queued" ELSE "none"],
                   docs |-> Nothing, ok |-> FALSE]
             ELSE [call[d] EXCEPT !.alone = FALSE]]
    BY DEF Begin, Selectable
  <1>2. call'[c] \in Call
    BY <1>1, Documents DEF TypeOK, Call, Job
  <1>3. \A d \in Calls \ {c} : call'[d] \in Call
    BY <1>1, CallUpdates DEF TypeOK
  <1>4. call' \in [Calls -> Call]
    BY <1>1, <1>2, <1>3
  <1>5. raced' \in BOOLEAN /\ refreshes' \in 0 .. MaxRefreshes
    BY Constants DEF Begin, Selectable, TypeOK
  <1> QED
    BY <1>4, <1>5 DEF Begin, Selectable, TypeOK

LEMMA PoolTypes ==
    ASSUME SubscriptionAssumption, TypeOK, NEW c \in Calls, NEW s \in Sources,
           Dispatch(c, s) \/ Abort(c, s) \/ Answer(c, s) \/ Read(c, s)
    PROVE  TypeOK'
  <1>1. {"fetch", "failed", "missing"} \subseteq Job
    BY DEF Job, Busy, Writing
  <1>2. CASE Dispatch(c, s)
    BY <1>1, <1>2, SetJobEffect DEF Dispatch, TypeOK, counters
  <1>3. CASE Abort(c, s)
    BY <1>1, <1>3, SetJobEffect DEF Abort, TypeOK, counters
  <1>4. CASE Answer(c, s)
    <2>1. CASE SetJob(c, s, "failed") /\ UNCHANGED served
      BY <1>1, <1>4, <2>1, SetJobEffect DEF Answer, TypeOK, counters
    <2>2. ASSUME NEW version \in served[s] .. MaxServed,
                 served' = [served EXCEPT ![s] = version],
                 call' = [call EXCEPT ![c].job[s] = "open", ![c].docs[s] = version]
          PROVE  TypeOK'
      <3>1. version \in 1 .. MaxServed /\ version \in 0 .. MaxServed
        BY Constants DEF TypeOK
      <3>2. served' \in [Sources -> 1 .. MaxServed]
        BY <2>2, <3>1 DEF TypeOK
      <3>3. call' \in [Calls -> Call]
        <4>1. [call[c] EXCEPT !.job[s] = "open", !.docs[s] = version] \in Call
          BY <3>1, CallUpdates DEF TypeOK, Job, Busy, Writing
        <4> QED
          BY <2>2, <4>1 DEF TypeOK
      <3> QED
        BY <1>4, <3>2, <3>3 DEF Answer, TypeOK, counters
    <2> QED
      BY <1>4, <2>1, <2>2 DEF Answer
  <1>5. CASE Read(c, s)
    <2>1. s \in Names
      BY DEF Names
    <2>2. CASE SetJob(c, s, "missing")
      BY <1>1, <1>5, <2>2, SetJobEffect DEF Read, TypeOK, counters
    <2>3. CASE Return(c, FALSE)
      BY <1>5, <2>3, ReturnEffect DEF Read, TypeOK, counters
    <2>4. CASE call' = [call EXCEPT ![c].job[s] = "read", ![c].docs[s] = disk[s].doc[s]]
      <3>1. disk[s].doc[s] \in 0 .. MaxServed
        BY <2>1 DEF TypeOK, File, Doc
      <3>2. call' \in [Calls -> Call]
        <4>1. [call[c] EXCEPT !.job[s] = "read", !.docs[s] = disk[s].doc[s]] \in Call
          BY <3>1, CallUpdates DEF TypeOK, Job
        <4> QED
          BY <2>4, <4>1 DEF TypeOK
      <3> QED
        BY <1>5, <3>2 DEF Read, TypeOK, counters
    <2> QED
      BY <1>5, <2>2, <2>3, <2>4 DEF Read
  <1> QED
    BY <1>2, <1>3, <1>4, <1>5

LEMMA CallTypes ==
    ASSUME SubscriptionAssumption, TypeOK, NEW c \in Calls,
           Timeout(c) \/ Drop(c) \/ Collect(c)
    PROVE  TypeOK'
  <1>1. CASE Timeout(c)
    BY <1>1, CallUpdates DEF Timeout, TypeOK, counters
  <1>2. CASE Drop(c)
    <2> DEFINE job == [s \in Sources |-> IF call[c].job[s] = "queued" THEN "failed"
                                         ELSE call[c].job[s]]
    <2>0. job \in [Sources -> Job]
      BY DEF TypeOK, Call, Job
    <2>1. call' = [call EXCEPT ![c].job = job]
      BY <1>2 DEF Drop
    <2>2. [call[c] EXCEPT !.job = job] \in Call
      BY <2>0, CallUpdates DEF TypeOK
    <2>3. call' \in [Calls -> Call]
      BY <2>1, <2>2 DEF TypeOK
    <2> QED
      BY <1>2, <2>3 DEF Drop, TypeOK, counters
  <1>3. CASE Collect(c)
    <2>0. [call[c] EXCEPT !.at = "read", !.cancelled = FALSE] \in Call
      BY CallUpdates DEF TypeOK
    <2>1. call' \in [Calls -> Call]
      BY <1>3, <2>0, ReturnEffect DEF Collect, TypeOK
    <2> QED
      BY <1>3, <2>1 DEF Collect, TypeOK, counters
  <1> QED
    BY <1>1, <1>2, <1>3

LEMMA FaultTypes ==
    ASSUME SubscriptionAssumption, TypeOK, Fault \/ NoFault
    PROVE  faults' \in 0 .. MaxFaults
  BY Constants DEF Fault, NoFault, TypeOK

LEMMA OpenTempTypes ==
    ASSUME SubscriptionAssumption, TypeOK, NEW c \in Calls, NEW n \in Names, OpenTemp(c, n)
    PROVE  TypeOK'
  <1>1. Opened(temp[n], c) \in File
    BY Documents DEF TypeOK, Opened, File
  <1>2. temp' \in [Names -> File]
    BY <1>1 DEF OpenTemp, TypeOK
  <1>3. call' \in [Calls -> Call]
    BY ProceedEffect, FailEffect DEF OpenTemp
  <1>4. faults' \in 0 .. MaxFaults
    BY FaultTypes DEF OpenTemp
  <1> QED
    BY <1>2, <1>3, <1>4 DEF OpenTemp, TypeOK

LEMMA EncodeTypes ==
    ASSUME SubscriptionAssumption, TypeOK, NEW c \in Calls, NEW n \in Names, Encode(c, n)
    PROVE  TypeOK'
  <1>1. Closed(temp[n], c, Contents(c, n)) \cup Closed(disk[n], c, Contents(c, n)) \subseteq File
    BY ContentsType, ClosedType DEF TypeOK
  <1>2. [disk[n] EXCEPT !.open = @ \ {c}] \in File
    BY DEF TypeOK, File
  <1>3. temp' \in [Names -> File] /\ disk' \in [Names -> File]
    <2>1. temp \in [Names -> File] /\ disk \in [Names -> File] /\ NoFile \in File
      BY Documents DEF TypeOK, NoFile, File
    <2>2. \E file \in File : temp' = [temp EXCEPT ![n] = file]
      BY <1>1, <2>1 DEF Encode
    <2>3. \E file \in File : disk' = [disk EXCEPT ![n] = file]
      BY <1>1, <1>2, <2>1 DEF Encode
    <2> QED
      BY <2>1, <2>2, <2>3
  <1>4. call' \in [Calls -> Call]
    BY ProceedEffect, FailEffect DEF Encode
  <1>5. faults' \in 0 .. MaxFaults
    BY FaultTypes DEF Encode
  <1> QED
    BY <1>3, <1>4, <1>5 DEF Encode, TypeOK

LEMMA RenameTypes ==
    ASSUME SubscriptionAssumption, TypeOK, NEW c \in Calls, NEW n \in Names, Rename(c, n)
    PROVE  TypeOK'
  <1>1. temp' \in [Names -> File] /\ disk' \in [Names -> File]
    BY Documents DEF Rename, TypeOK
  <1>2. "done" \in Job /\ (n # Merged => n \in Sources)
    BY DEF Job, Names
  <1>3. call' \in [Calls -> Call]
    BY <1>2, ReturnEffect, SetJobEffect, FailEffect DEF Rename
  <1>4. faults' \in 0 .. MaxFaults
    BY FaultTypes DEF Rename
  <1> QED
    BY <1>1, <1>3, <1>4 DEF Rename, TypeOK

LEMMA DieTypes ==
    ASSUME SubscriptionAssumption, TypeOK, NEW c \in Calls, Die(c)
    PROVE  TypeOK'
  <1>1. \A n \in Names : /\ [disk[n] EXCEPT !.open = @ \ {c}] \in File
                         /\ [temp[n] EXCEPT !.open = @ \ {c}] \in File
    BY DEF TypeOK, File
  <1>2. temp' \in [Names -> File] /\ disk' \in [Names -> File]
    BY <1>1 DEF Die
  <1>3. call' \in [Calls -> Call]
    BY ReturnEffect DEF Die
  <1>4. faults' \in 0 .. MaxFaults
    BY FaultTypes DEF Die
  <1> QED
    BY <1>2, <1>3, <1>4 DEF Die, TypeOK

LEMMA ConfigureTypes ==
    ASSUME SubscriptionAssumption, TypeOK, Configure
    PROVE  TypeOK'
  BY Constants DEF Configure, SourceLists, TypeOK

LEMMA NextTypes ==
    ASSUME SubscriptionAssumption, TypeOK, [Next]_vars
    PROVE  TypeOK'
  <1>1. CASE Next
    BY <1>1, BeginTypes, PoolTypes, CallTypes, OpenTempTypes, EncodeTypes, RenameTypes,
       DieTypes, ConfigureTypes DEF Next, Step, Write
  <1>2. CASE UNCHANGED vars
    BY <1>2 DEF vars, counters, TypeOK
  <1> QED
    BY <1>1, <1>2

(* Every variable keeps its type.                                          *)
THEOREM TypeInvariant == Spec => []TypeOK
  <1>1. Init => TypeOK
    BY SubscriptionAssumption, InitTypes
  <1>2. TypeOK /\ [Next]_vars => TypeOK'
    BY SubscriptionAssumption, NextTypes
  <1> QED
    BY <1>1, <1>2, PTL DEF Spec

-----------------------------------------------------------------------------
(* The invariant, for the calls that do not move.                          *)

(* What a step of an active call leaves alone.                             *)
Acts(c) ==
    /\ call[c].at # "idle"
    /\ call' \in [Calls -> Call]
    /\ \A d \in Calls \ {c} : call'[d] = call[d]
    /\ raced' = raced
    /\ served' \in [Sources -> 1 .. MaxServed]
    /\ \A s \in Sources : served[s] <= served'[s]

LEMMA OthersKept ==
    ASSUME SubscriptionAssumption, Inv, NEW c \in Calls, Acts(c)
    PROVE  \A d \in Calls \ {c} : Control(d)' /\ Files(d)'
  <1> SUFFICES ASSUME NEW d \in Calls \ {c} PROVE Control(d)' /\ Files(d)'
    OBVIOUS
  <1>1. call'[d] = call[d]
    BY DEF Acts
  <1>2. ~call[d].alone
    BY DEF Inv, Sole, Acts
  <1>3. Files(d)'
    BY <1>1, <1>2 DEF Files
  <1>4. \A s \in Sources : call[d].docs[s] <= served'[s]
    <2> SUFFICES ASSUME NEW s \in Sources PROVE call[d].docs[s] <= served'[s]
      OBVIOUS
    <2>1. call[d].docs[s] \in Nat /\ served[s] \in Nat /\ served'[s] \in Nat
      BY Constants DEF Inv, TypeOK, Call, Doc, Acts
    <2>2. call[d].docs[s] <= served[s] /\ served[s] <= served'[s]
      BY DEF Inv, Control, Acts
    <2> QED
      BY <2>1, <2>2
  <1>5. Control(d)
    BY DEF Inv
  <1>6. Control(d)'
    BY <1>1, <1>4, <1>5 DEF Control
  <1> QED
    BY <1>3, <1>6

(* Sole and Raced speak of who is active and alone only.                   *)
LEMMA CallsKept ==
    ASSUME SubscriptionAssumption, Inv, NEW c \in Calls, Acts(c), Control(c)', Files(c)',
           call'[c].at = "idle" \/ call'[c].alone = call[c].alone
    PROVE  (\A d \in Calls : Control(d)' /\ Files(d)') /\ Sole' /\ Raced'
  <1>1. \A d \in Calls : Control(d)' /\ Files(d)'
    BY OthersKept
  <1>2. call'[c].alone => call[c].alone
    BY DEF Control
  <1>3. Sole'
    <2> SUFFICES ASSUME NEW a \in Calls, NEW d \in Calls, call'[a].alone, d # a
                 PROVE  call'[d].at = "idle"
      BY DEF Sole
    <2>1. a = c
      BY DEF Inv, Sole, Acts
    <2> QED
      BY <1>2, <2>1 DEF Inv, Sole, Acts
  <1>4. Raced'
    BY DEF Inv, Raced, Active, Acts
  <1> QED
    BY <1>1, <1>3, <1>4

(* A step that touches no file.                                            *)
LEMMA MemoryStep ==
    ASSUME SubscriptionAssumption, Inv, TypeOK', NEW c \in Calls, Acts(c),
           UNCHANGED <<disk, temp>>, Control(c)', Files(c)',
           call'[c].at = "idle" \/ call'[c].alone = call[c].alone,
           \A n \in Names : Encodes(c, n) => Encodes(c, n)'
    PROVE  Inv'
  <1>1. (\A d \in Calls : Control(d)' /\ Files(d)') /\ Sole' /\ Raced'
    BY CallsKept
  <1>2. Opens'
    BY DEF Inv, Opens, Encodes, Acts
  <1>3. Served'
    <2> SUFFICES ASSUME NEW s \in Sources
                 PROVE  disk[s].doc[s] <= served'[s] /\ temp[s].doc[s] <= served'[s]
      BY DEF Served
    <2>1. s \in Names
      BY DEF Names
    <2>2. /\ disk[s].doc[s] \in Nat /\ temp[s].doc[s] \in Nat
          /\ served[s] \in Nat /\ served'[s] \in Nat
      BY <2>1, Constants DEF Inv, TypeOK, File, Doc, Acts
    <2> QED
      BY <2>2 DEF Inv, Served, Acts
  <1>4. ReadersSeeWholeFiles' /\ ArtifactsLead'
    BY DEF Inv, ReadersSeeWholeFiles, ArtifactsLead, Acts
  <1> QED
    BY <1>1, <1>2, <1>3, <1>4 DEF Inv

(* A call that has returned.                                               *)
LEMMA ReturnedKept ==
    ASSUME SubscriptionAssumption, NEW c \in Calls, NEW ok \in BOOLEAN,
           call'[c] = Returned(ok), served' \in [Sources -> 1 .. MaxServed]
    PROVE  Control(c)' /\ Files(c)' /\ call'[c].at = "idle"
  <1>1. \A s \in Sources : Nothing[s] = 0 /\ 0 <= served'[s]
    BY Constants DEF Nothing
  <1>2. /\ call'[c].at = "idle" /\ ~call'[c].alone /\ call'[c].sources = {}
        /\ call'[c].docs = Nothing /\ \A s \in Sources : call'[c].job[s] = "none"
    BY DEF Returned
  <1> QED
    BY <1>1, <1>2 DEF Control, Files, Busy, Writing

(* A call whose job with one source moves on, in memory.                   *)
Moves(c, s, job) ==
    \/ /\ call[c].job[s] \in {"queued", "fetch"}
       /\ job # "missing"
    \/ /\ call[c].job[s] \in {"open", "rename"}
       /\ job = "failed"
    \/ /\ call[c].at = "read" /\ call[c].job[s] = "none" /\ s \in call[c].sources
       /\ job = "missing"

LEMMA JobMoves ==
    ASSUME SubscriptionAssumption, Inv, TypeOK', NEW c \in Calls, NEW s \in Sources,
           NEW job \in {"fetch", "failed", "missing"}, SetJob(c, s, job),
           UNCHANGED <<served, disk, temp, raced>>,
           Moves(c, s, job)
    PROVE  Inv'
  <1>1. job \in Job
    BY DEF Job, Busy, Writing
  <1>2. /\ call' \in [Calls -> Call]
        /\ call'[c] = [call[c] EXCEPT !.job[s] = job]
        /\ \A d \in Calls \ {c} : call'[d] = call[d]
    BY <1>1, SetJobEffect DEF Inv
  <1>3. /\ Stays(c)
        /\ call'[c].at = call[c].at /\ call'[c].docs = call[c].docs
        /\ call'[c].job[s] = job
        /\ \A r \in Sources \ {s} : call'[c].job[r] = call[c].job[r]
    BY <1>2 DEF Inv, TypeOK, Call, Stays
  <1>4. call[c].at \in {"fetch", "read"}
    BY DEF Inv, Control, Busy, Writing, TypeOK, Call, Moves
  <1>5. Acts(c)
    <2>1. \A r \in Sources : served[r] <= served[r]
      BY Constants DEF Inv, TypeOK
    <2> QED
      BY <1>2, <1>4, <2>1 DEF Inv, TypeOK, Acts
  <1>6. Control(c)'
    BY <1>3, <1>4 DEF Inv, Control, Stays, Busy, Writing, Moves
  <1>7. /\ \A n \in Names : Encodes(c, n)' <=> Encodes(c, n)
        /\ \A n \in Names : Renames(c, n)' => Renames(c, n)
        /\ \A n \in Names : Contents(c, n)' = Contents(c, n)
    BY <1>3 DEF Encodes, Renames, Contents, Names, Moves
  <1>8. Files(c)'
    <2>1. Writes(c) => Writes(c)'
      BY <1>7 DEF Writes
    <2>2. Holds(c) => Holds(c)'
      BY <1>3 DEF Holds, Writing
    <2> QED
      BY <1>3, <2>1, <2>2 DEF Inv, Files, Stays
  <1> QED
    BY <1>3, <1>5, <1>6, <1>7, <1>8, MemoryStep DEF Stays

-----------------------------------------------------------------------------
(* The invariant, action by action.                                        *)
LEMMA InitInv ==
    ASSUME SubscriptionAssumption, Init
    PROVE  Inv
  <1>1. TypeOK
    BY InitTypes
  <1>2. \A s \in Sources : Nothing[s] = 0 /\ served[s] = 1 /\ 0 <= 1
    BY DEF Nothing, Init
  <1>3. \A c \in Calls : call[c] = Returned(FALSE)
    BY DEF Init
  <1>4. \A c \in Calls : Control(c) /\ Files(c)
    BY <1>2, <1>3 DEF Control, Files, Returned, Busy, Writing
  <1>5. \A n \in Names : disk[n] = NoFile /\ temp[n] = NoFile
    BY DEF Init
  <1>6. Opens /\ Sole /\ Raced /\ ReadersSeeWholeFiles
    BY <1>3, <1>5 DEF Opens, Sole, Raced, Active, ReadersSeeWholeFiles, Returned, NoFile
  <1>7. Served /\ ArtifactsLead
    BY <1>2, <1>5 DEF Served, ArtifactsLead, NoFile, Names
  <1> QED
    BY <1>1, <1>4, <1>6, <1>7 DEF Inv

LEMMA BeginKeeps ==
    ASSUME SubscriptionAssumption, Inv, NEW c \in Calls, Begin(c)
    PROVE  Inv'
  <1>1. TypeOK'
    BY BeginTypes DEF Inv
  <1>2. PICK ids \in SUBSET config \ {{}} :
          call' = [d \in Calls |->
             IF d = c
             THEN [at |-> "fetch", cancelled |-> FALSE, alone |-> Active = {},
                   sources |-> config,
                   job |-> [s \in Sources |-> IF s \in ids THEN "queued" ELSE "none"],
                   docs |-> Nothing, ok |-> FALSE]
             ELSE [call[d] EXCEPT !.alone = FALSE]]
    BY DEF Begin, Selectable
  <1>3. /\ call'[c].at = "fetch" /\ ~call'[c].ok /\ (call'[c].alone <=> Active = {})
        /\ call'[c].sources = config /\ call'[c].docs = Nothing
        /\ \A s \in Sources : call'[c].job[s] = IF s \in ids THEN "queued" ELSE "none"
    BY <1>2
  <1>4. \A d \in Calls \ {c} :
          /\ call'[d].at = call[d].at /\ call'[d].ok = call[d].ok
          /\ ~call'[d].alone /\ call'[d].sources = call[d].sources
          /\ call'[d].docs = call[d].docs /\ call'[d].job = call[d].job
    BY <1>2 DEF Inv, TypeOK, Call
  <1>5. UNCHANGED <<served, disk, temp>> /\ call[c].at = "idle"
        /\ raced' = (raced \/ Active # {})
    BY DEF Begin, Selectable, Active
  <1>6. Control(c)'
    <2>1. \A s \in Sources : Nothing[s] = 0 /\ 0 <= served'[s]
      BY <1>1, Constants DEF Nothing, TypeOK
    <2>2. \A s \in Sources : s \in ids => s \in config
      BY <1>2
    <2> QED
      BY <1>3, <2>1, <2>2 DEF Control
  <1>7. \A d \in Calls \ {c} : Control(d)' /\ Files(d)'
    BY <1>4, <1>5 DEF Inv, Control, Files
  <1>8. ASSUME Active = {}
        PROVE  \A n \in Names : disk[n].open = {} /\ temp[n].open = {}
    <2>1. \A d \in Calls : \A n \in Names : ~Encodes(d, n)
      BY <1>8 DEF Inv, Control, Active, Encodes, Names, Busy, Writing
    <2> QED
      BY <2>1 DEF Inv, Opens, TypeOK, File
  <1>9. Files(c)'
    <2> SUFFICES ASSUME Active = {} PROVE Writes(c)' /\ Holds(c)'
      BY <1>3 DEF Files
    <2>1. Writes(c)'
      BY <1>3, <1>5, <1>8 DEF Writes, Encodes, Renames, Names
    <2>2. Holds(c)'
      BY <1>3 DEF Holds, Writing
    <2> QED
      BY <2>1, <2>2
  <1>10. Sole' /\ Raced'
    BY <1>3, <1>4, <1>5, ZenonT(60) DEF Sole, Raced, Active
  <1>11. Opens'
    <2>1. \A n \in Names : ~Encodes(c, n)
      BY <1>5 DEF Inv, Control, Encodes, Names, Busy, Writing
    <2>2. \A d \in Calls \ {c} : \A n \in Names : Encodes(d, n)' <=> Encodes(d, n)
      BY <1>4 DEF Encodes
    <2> QED
      BY <1>5, <2>1, <2>2 DEF Inv, Opens
  <1>12. Served' /\ ReadersSeeWholeFiles' /\ ArtifactsLead'
    BY <1>5 DEF Inv, Served, ReadersSeeWholeFiles, ArtifactsLead
  <1> QED
    BY <1>1, <1>6, <1>7, <1>9, <1>10, <1>11, <1>12 DEF Inv

LEMMA DispatchKeeps ==
    ASSUME SubscriptionAssumption, Inv, NEW c \in Calls, NEW s \in Sources,
           Dispatch(c, s) \/ Abort(c, s)
    PROVE  Inv'
  <1>1. TypeOK'
    BY PoolTypes DEF Inv
  <1>2. CASE Dispatch(c, s)
    <2>1. SetJob(c, s, "fetch") /\ UNCHANGED <<served, disk, temp, raced>>
      BY <1>2 DEF Dispatch
    <2>2. Moves(c, s, "fetch")
      BY <1>2 DEF Dispatch, Moves
    <2> QED
      BY <1>1, <2>1, <2>2, JobMoves
  <1>3. CASE Abort(c, s)
    <2>1. SetJob(c, s, "failed") /\ UNCHANGED <<served, disk, temp, raced>>
      BY <1>3 DEF Abort
    <2>2. Moves(c, s, "failed")
      BY <1>3 DEF Abort, Moves
    <2> QED
      BY <1>1, <2>1, <2>2, JobMoves
  <1> QED
    BY <1>2, <1>3

LEMMA AnswerKeeps ==
    ASSUME SubscriptionAssumption, Inv, NEW c \in Calls, NEW s \in Sources, Answer(c, s)
    PROVE  Inv'
  <1>1. TypeOK'
    BY PoolTypes DEF Inv
  <1>2. call[c].job[s] = "fetch" /\ call[c].at = "fetch"
    BY DEF Answer, Inv, Control, Busy, TypeOK, Call
  <1>3. CASE SetJob(c, s, "failed") /\ UNCHANGED served
    <2>1. Moves(c, s, "failed") /\ UNCHANGED <<served, disk, temp, raced>>
      BY <1>2, <1>3 DEF Moves, Answer
    <2> QED
      BY <1>1, <1>3, <2>1, JobMoves
  <1>4. ASSUME NEW version \in served[s] .. MaxServed,
               served' = [served EXCEPT ![s] = version],
               call' = [call EXCEPT ![c].job[s] = "open", ![c].docs[s] = version]
        PROVE  Inv'
    <2>1. /\ Stays(c) /\ call'[c].at = "fetch"
          /\ call'[c].job[s] = "open" /\ call'[c].docs[s] = version
          /\ \A r \in Sources \ {s} : /\ call'[c].job[r] = call[c].job[r]
                                      /\ call'[c].docs[r] = call[c].docs[r]
          /\ \A d \in Calls \ {c} : call'[d] = call[d]
      <3>1. call'[c] = [call[c] EXCEPT !.job[s] = "open", !.docs[s] = version]
        BY <1>4 DEF Inv, TypeOK
      <3>2. \A d \in Calls \ {c} : call'[d] = call[d]
        BY <1>4 DEF Inv, TypeOK
      <3> QED
        BY <1>2, <3>1, <3>2 DEF Inv, TypeOK, Call, Doc, Stays
    <2>2. /\ served'[s] = version /\ served[s] <= version
          /\ \A r \in Sources \ {s} : served'[r] = served[r]
          /\ \A r \in Sources : served[r] \in Nat /\ served'[r] \in Nat
      BY <1>1, <1>4, Constants DEF Inv, TypeOK
    <2>3. Acts(c) /\ UNCHANGED <<disk, temp>>
      BY <1>1, <1>2, <2>1, <2>2 DEF Answer, TypeOK, Acts
    <2>4. /\ \A r \in Sources : call'[c].docs[r] <= served'[r]
          /\ disk[s].doc[s] <= version
      <3>1. \A r \in Sources \ {s} : call[c].docs[r] <= served[r]
        BY DEF Inv, Control
      <3>2. disk[s].doc[s] \in Nat
        BY Constants DEF Inv, TypeOK, File, Doc, Names
      <3>3. disk[s].doc[s] <= served[s]
        BY DEF Inv, Served
      <3> QED
        BY <2>1, <2>2, <3>1, <3>2, <3>3
    <2>5. Control(c)'
      BY <1>2, <2>1, <2>4 DEF Inv, Control, Stays, Busy, Writing
    <2>6. \A n \in Names : /\ Encodes(c, n)' <=> Encodes(c, n)
                           /\ Renames(c, n)' <=> Renames(c, n)
      BY <1>2, <2>1 DEF Encodes, Renames, Names
    <2>7. \A n \in Names : Renames(c, n) => Contents(c, n)' = Contents(c, n)
      BY <1>2, <2>1 DEF Renames, Contents, Names
    <2>8. Files(c)'
      <3>1. Writes(c) => Writes(c)'
        BY <2>3, <2>6, <2>7 DEF Writes
      <3>2. Holds(c) => Holds(c)'
        BY <2>1, <2>3, <2>4 DEF Holds, Writing
      <3> QED
        BY <2>1, <3>1, <3>2 DEF Inv, Files, Stays
    <2> QED
      BY <1>1, <2>1, <2>3, <2>5, <2>6, <2>8, MemoryStep DEF Stays
  <1> QED
    BY <1>3, <1>4 DEF Answer

LEMMA TimeoutKeeps ==
    ASSUME SubscriptionAssumption, Inv, NEW c \in Calls, Timeout(c)
    PROVE  Inv'
  <1>1. TypeOK'
    BY CallTypes DEF Inv
  <1>2. /\ Stays(c) /\ call[c].at = "fetch" /\ call'[c].at = "fetch"
        /\ call'[c].job = call[c].job /\ call'[c].docs = call[c].docs
        /\ \A d \in Calls \ {c} : call'[d] = call[d]
    BY DEF Timeout, Inv, TypeOK, Call, Stays
  <1>3. Acts(c) /\ UNCHANGED <<served, disk, temp>>
    <2>1. \A s \in Sources : served[s] <= served[s]
      BY Constants DEF Inv, TypeOK
    <2> QED
      BY <1>1, <1>2, <2>1 DEF Timeout, TypeOK, Acts
  <1>4. Control(c)'
    BY <1>2, <1>3 DEF Inv, Control, Stays
  <1>5. \A n \in Names : /\ Encodes(c, n)' <=> Encodes(c, n)
                         /\ Renames(c, n)' <=> Renames(c, n)
                         /\ Contents(c, n)' = Contents(c, n)
    BY <1>2 DEF Encodes, Renames, Contents
  <1>6. Files(c)'
    <2>1. Writes(c) => Writes(c)'
      BY <1>3, <1>5 DEF Writes
    <2>2. Holds(c) => Holds(c)'
      BY <1>2, <1>3 DEF Holds
    <2> QED
      BY <1>2, <2>1, <2>2 DEF Inv, Files, Stays
  <1> QED
    BY <1>1, <1>2, <1>3, <1>4, <1>5, <1>6, MemoryStep DEF Stays

LEMMA DropKeeps ==
    ASSUME SubscriptionAssumption, Inv, NEW c \in Calls, Drop(c)
    PROVE  Inv'
  <1>1. TypeOK'
    BY CallTypes DEF Inv
  <1> DEFINE job == [s \in Sources |-> IF call[c].job[s] = "queued" THEN "failed"
                                       ELSE call[c].job[s]]
  <1>2. call' = [call EXCEPT ![c].job = job]
    BY DEF Drop
  <1> HIDE DEF job
  <1>3. /\ Stays(c) /\ call'[c].at = call[c].at
        /\ call'[c].job = job /\ call'[c].docs = call[c].docs
        /\ \A d \in Calls \ {c} : call'[d] = call[d]
    BY <1>2 DEF Inv, TypeOK, Call, Stays
  <1>4. \A s \in Sources : job[s] = IF call[c].job[s] = "queued" THEN "failed"
                                    ELSE call[c].job[s]
    BY DEF job
  <1>5. call[c].at = "fetch"
    BY DEF Drop, With, Inv, Control
  <1>6. Acts(c) /\ UNCHANGED <<served, disk, temp>>
    <2>1. \A s \in Sources : served[s] <= served[s]
      BY Constants DEF Inv, TypeOK
    <2> QED
      BY <1>1, <1>3, <1>5, <2>1 DEF Drop, TypeOK, Acts
  <1>7. Control(c)'
    BY <1>3, <1>4, <1>5, <1>6 DEF Inv, Control, Stays
  <1>8. \A n \in Names : /\ Encodes(c, n)' <=> Encodes(c, n)
                         /\ Renames(c, n)' <=> Renames(c, n)
                         /\ Contents(c, n)' = Contents(c, n)
    BY <1>3, <1>4 DEF Encodes, Renames, Contents, Names
  <1>9. Files(c)'
    <2>1. Writes(c) => Writes(c)'
      BY <1>6, <1>8 DEF Writes
    <2>2. Holds(c) => Holds(c)'
      BY <1>3, <1>4, <1>6 DEF Holds, Writing
    <2> QED
      BY <1>3, <2>1, <2>2 DEF Inv, Files, Stays
  <1> QED
    BY <1>1, <1>3, <1>6, <1>7, <1>8, <1>9, MemoryStep DEF Stays

(* A call that returns when it is writing nothing.                         *)
LEMMA ReturnKeeps ==
    ASSUME SubscriptionAssumption, Inv, TypeOK', NEW c \in Calls, NEW ok \in BOOLEAN,
           call[c].at # "idle", Return(c, ok), UNCHANGED <<served, disk, temp, raced>>,
           \A n \in Names : ~Encodes(c, n)
    PROVE  Inv'
  <1>1. /\ call' \in [Calls -> Call] /\ call'[c] = Returned(ok)
        /\ \A d \in Calls \ {c} : call'[d] = call[d]
    BY ReturnEffect DEF Inv
  <1>2. Acts(c)
    <2>1. \A s \in Sources : served[s] <= served[s]
      BY Constants DEF Inv, TypeOK
    <2> QED
      BY <1>1, <2>1 DEF Inv, TypeOK, Acts
  <1>3. Control(c)' /\ Files(c)' /\ call'[c].at = "idle"
    BY <1>1, ReturnedKept DEF TypeOK
  <1> QED
    BY <1>2, <1>3, MemoryStep

LEMMA CollectKeeps ==
    ASSUME SubscriptionAssumption, Inv, NEW c \in Calls, Collect(c)
    PROVE  Inv'
  <1>1. TypeOK'
    BY CallTypes DEF Inv
  <1>2. /\ call[c].at = "fetch" /\ UNCHANGED <<served, disk, temp, raced>>
        /\ \A s \in Sources : call[c].job[s] \notin {"queued"} \cup Busy
    BY DEF Collect, With
  <1>3. \A n \in Names : ~Encodes(c, n) /\ ~Renames(c, n)
    BY <1>2 DEF Encodes, Renames, Names, Busy, Writing
  <1>4. CASE Return(c, FALSE)
    BY <1>1, <1>2, <1>3, <1>4, ReturnKeeps
  <1>5. CASE /\ With(c, {"failed"}) = {}
             /\ call' = [call EXCEPT ![c].at = "read", ![c].cancelled = FALSE]
    <2>1. /\ Stays(c) /\ call'[c].at = "read"
          /\ call'[c].job = call[c].job /\ call'[c].docs = call[c].docs
          /\ \A d \in Calls \ {c} : call'[d] = call[d]
      <3>1. call'[c] = [call[c] EXCEPT !.at = "read", !.cancelled = FALSE]
        BY <1>5 DEF Inv, TypeOK
      <3>2. \A d \in Calls \ {c} : call'[d] = call[d]
        BY <1>5 DEF Inv, TypeOK
      <3> QED
        BY <3>1, <3>2 DEF Inv, TypeOK, Call, Stays
    <2>2. \A s \in Sources : call[c].job[s] # "failed"
      BY <1>5 DEF With
    <2>3. Acts(c)
      <3>1. \A s \in Sources : served[s] <= served[s]
        BY Constants DEF Inv, TypeOK
      <3> QED
        BY <1>1, <1>2, <2>1, <3>1 DEF TypeOK, Acts
    <2>4. Control(c)'
      BY <1>2, <2>1, <2>2 DEF Inv, Control, Stays
    <2>5. \A n \in Names : ~Encodes(c, n)' /\ ~Renames(c, n)'
      BY <1>2, <2>1 DEF Encodes, Renames, Names, Busy, Writing
    <2>6. Files(c)'
      <3>1. Writes(c) => Writes(c)'
        BY <1>2, <2>5 DEF Writes
      <3>2. Holds(c) => Holds(c)'
        BY <1>2, <2>1 DEF Holds
      <3> QED
        BY <2>1, <3>1, <3>2 DEF Inv, Files, Stays
    <2> QED
      BY <1>1, <1>2, <1>3, <2>1, <2>3, <2>4, <2>6, MemoryStep DEF Stays
  <1> QED
    BY <1>4, <1>5 DEF Collect

LEMMA ReadKeeps ==
    ASSUME SubscriptionAssumption, Inv, NEW c \in Calls, NEW s \in Sources, Read(c, s)
    PROVE  Inv'
  <1>1. TypeOK'
    BY PoolTypes DEF Inv
  <1>2. /\ call[c].at = "read" /\ s \in call[c].sources /\ call[c].job[s] = "none"
        /\ UNCHANGED <<served, disk, temp, raced>>
    BY DEF Read
  <1>3. \A n \in Names : ~Encodes(c, n) /\ ~Renames(c, n)
    BY <1>2 DEF Inv, Control, Encodes, Renames, Names, Busy, Writing
  <1>4. CASE SetJob(c, s, "missing")
    <2>1. Moves(c, s, "missing")
      BY <1>2 DEF Moves
    <2> QED
      BY <1>1, <1>2, <1>4, <2>1, JobMoves
  <1>5. CASE Return(c, FALSE)
    BY <1>1, <1>2, <1>3, <1>5, ReturnKeeps
  <1>6. CASE call' = [call EXCEPT ![c].job[s] = "read", ![c].docs[s] = disk[s].doc[s]]
    <2>1. /\ Stays(c) /\ call'[c].at = "read"
          /\ call'[c].job[s] = "read" /\ call'[c].docs[s] = disk[s].doc[s]
          /\ \A r \in Sources \ {s} : /\ call'[c].job[r] = call[c].job[r]
                                      /\ call'[c].docs[r] = call[c].docs[r]
          /\ \A d \in Calls \ {c} : call'[d] = call[d]
      <3>1. call'[c] = [call[c] EXCEPT !.job[s] = "read", !.docs[s] = disk[s].doc[s]]
        BY <1>6 DEF Inv, TypeOK
      <3>2. \A d \in Calls \ {c} : call'[d] = call[d]
        BY <1>6 DEF Inv, TypeOK
      <3> QED
        BY <1>2, <3>1, <3>2 DEF Inv, TypeOK, Call, Doc, Stays
    <2>2. Acts(c)
      <3>1. \A r \in Sources : served[r] <= served[r]
        BY Constants DEF Inv, TypeOK
      <3> QED
        BY <1>1, <1>2, <2>1, <3>1 DEF TypeOK, Acts
    <2>3. \A r \in Sources : call'[c].docs[r] <= served'[r]
      BY <1>2, <2>1 DEF Inv, Control, Served
    <2>4. Control(c)'
      BY <1>2, <2>1, <2>3 DEF Inv, Control, Stays, Busy, Writing
    <2>5. \A n \in Names : ~Encodes(c, n)' /\ ~Renames(c, n)'
      BY <1>2, <1>3, <2>1 DEF Encodes, Renames, Names
    <2>6. Files(c)'
      <3>1. Writes(c) => Writes(c)'
        BY <1>2, <2>5 DEF Writes
      <3>2. Holds(c) => Holds(c)'
        BY <1>2, <2>1 DEF Holds, Writing
      <3> QED
        BY <2>1, <3>1, <3>2 DEF Inv, Files, Stays
    <2> QED
      BY <1>1, <1>2, <1>3, <2>1, <2>2, <2>4, <2>6, MemoryStep DEF Stays
  <1> QED
    BY <1>4, <1>5, <1>6 DEF Read

LEMMA ConfigureKeeps ==
    ASSUME SubscriptionAssumption, Inv, Configure
    PROVE  Inv'
  <1>1. TypeOK'
    BY ConfigureTypes DEF Inv
  <1>2. UNCHANGED <<served, disk, temp, call, raced>>
    BY DEF Configure, SourceLists
  <1>3. \A c \in Calls : Control(c)' /\ Files(c)'
    BY <1>2 DEF Inv, Control, Files, Writes, Holds, Encodes, Renames, Contents
  <1> QED
    BY <1>1, <1>2, <1>3 DEF Inv, Opens, Sole, Raced, Served, Active, Encodes,
       ReadersSeeWholeFiles, ArtifactsLead

-----------------------------------------------------------------------------
(* The steps of a write.                                                   *)

(* A call that is alone is the only one that has files open.               *)
LEMMA OwnFiles ==
    ASSUME SubscriptionAssumption, Inv, NEW c \in Calls, call[c].alone
    PROVE  \A n \in Names : \A d \in temp[n].open : d = c /\ Encodes(c, n)
  <1> SUFFICES ASSUME NEW n \in Names, NEW d \in temp[n].open
               PROVE  d = c /\ Encodes(c, n)
    OBVIOUS
  <1>1. d \in Calls /\ Encodes(d, n)
    BY DEF Inv, TypeOK, File, Opens
  <1>2. call[d].at # "idle"
    BY <1>1 DEF Inv, Control, Encodes, Names, Busy, Writing
  <1> QED
    BY <1>1, <1>2 DEF Inv, Sole

(* A call that writes is active, and writes the merged file alone.         *)
LEMMA WriterActive ==
    ASSUME SubscriptionAssumption, Inv, NEW c \in Calls, NEW n \in Names,
           Progress(c, n) \in Writing
    PROVE  /\ call[c].at # "idle"
           /\ n # Merged => n \in Sources /\ call[c].at = "fetch"
           /\ n = Merged => \A m \in Names \ {n} : ~Encodes(c, m) /\ ~Renames(c, m)
  <1>1. CASE n = Merged
    <2>1. call[c].at \in {"read", "encode", "rename"}
      BY <1>1 DEF Progress, Writing, Inv, TypeOK, Call
    <2> QED
      BY <1>1, <2>1 DEF Inv, Control, Encodes, Renames, Names, Busy, Writing
  <1>2. CASE n # Merged
    <2>1. n \in Sources /\ call[c].job[n] \in Writing
      BY <1>2 DEF Progress, Names
    <2> QED
      BY <1>2, <2>1 DEF Inv, Control, Busy
  <1> QED
    BY <1>1, <1>2

(* What a writer's step does to its call.                                  *)
LEMMA ProceedFields ==
    ASSUME SubscriptionAssumption, Inv, TypeOK', NEW c \in Calls, NEW n \in Names,
           Progress(c, n) \in Writing, NEW step \in {"encode", "rename"},
           Proceed(c, n, step), UNCHANGED <<served, raced>>
    PROVE  /\ Stays(c) /\ Acts(c) /\ call'[c].docs = call[c].docs
           /\ n = Merged => call'[c].at = step /\ call'[c].job = call[c].job
           /\ n # Merged => /\ call'[c].at = call[c].at /\ call'[c].job[n] = step
                            /\ \A s \in Sources \ {n} : call'[c].job[s] = call[c].job[s]
           /\ \A m \in Names : Contents(c, m)' = Contents(c, m)
  <1>1. /\ call' \in [Calls -> Call] /\ Stays(c) /\ call'[c].docs = call[c].docs
        /\ n = Merged => call'[c].at = step /\ call'[c].job = call[c].job
        /\ n # Merged => /\ call'[c].at = call[c].at /\ call'[c].job[n] = step
                         /\ \A s \in Sources \ {n} : call'[c].job[s] = call[c].job[s]
        /\ \A d \in Calls \ {c} : call'[d] = call[d]
    BY ProceedEffect DEF Inv
  <1>2. call[c].at # "idle"
    BY WriterActive
  <1>3. \A s \in Sources : served[s] <= served[s]
    BY Constants DEF Inv, TypeOK
  <1> QED
    BY <1>1, <1>2, <1>3 DEF Inv, TypeOK, Acts, Contents

LEMMA ProceedControl ==
    ASSUME SubscriptionAssumption, Inv, TypeOK', NEW c \in Calls, NEW n \in Names,
           NEW step \in {"encode", "rename"}, Proceed(c, n, step),
           Progress(c, n) = IF step = "encode" THEN "open" ELSE "encode",
           UNCHANGED <<served, raced>>
    PROVE  /\ Control(c)'
           /\ \A m \in Names \ {n} : /\ Encodes(c, m)' <=> Encodes(c, m)
                                     /\ Renames(c, m)' => Renames(c, m)
           /\ Encodes(c, n)' <=> step = "encode"
           /\ Renames(c, n)' <=> step = "rename"
  <1>1. Progress(c, n) \in Writing
    BY DEF Writing
  <1>2. /\ Stays(c) /\ call'[c].docs = call[c].docs
        /\ n = Merged => call'[c].at = step /\ call'[c].job = call[c].job
        /\ n # Merged => /\ call'[c].at = call[c].at /\ call'[c].job[n] = step
                         /\ \A s \in Sources \ {n} : call'[c].job[s] = call[c].job[s]
    BY <1>1, ProceedFields
  <1>3. /\ n # Merged => n \in Sources /\ call[c].at = "fetch"
        /\ n = Merged => \A m \in Names \ {n} : ~Encodes(c, m) /\ ~Renames(c, m)
    BY <1>1, WriterActive
  <1>4. CASE n = Merged
    <2>1. call[c].at \in {"read", "encode"} /\ \A s \in call[c].sources : call[c].job[s] # "none"
      BY <1>4, ProgressOf DEF Inv, Control, Encodes
    <2>2. Control(c)'
      BY <1>2, <1>4, <2>1 DEF Inv, Control, Stays
    <2> QED
      BY <1>2, <1>3, <1>4, <2>2 DEF Encodes, Renames, Names
  <1>5. CASE n # Merged
    <2>1. n \in Sources /\ call[c].at = "fetch" /\ call[c].job[n] \in {"open", "encode"}
      BY <1>3, <1>5, ProgressOf DEF Inv, Encodes
    <2>2. Control(c)'
      BY <1>2, <1>5, <2>1 DEF Inv, Control, Stays
    <2> QED
      BY <1>2, <1>5, <2>1, <2>2 DEF Encodes, Renames, Names
  <1> QED
    BY <1>4, <1>5

(* A write that fails leaves its job failed, or ends its call.             *)
LEMMA FailControl ==
    ASSUME SubscriptionAssumption, Inv, TypeOK', NEW c \in Calls, NEW n \in Names,
           Progress(c, n) \in Writing, Fail(c, n), UNCHANGED <<served, raced>>
    PROVE  /\ Acts(c) /\ Control(c)'
           /\ call'[c].at = "idle" \/ call'[c].alone = call[c].alone
           /\ call'[c].alone => call[c].alone
           /\ \A m \in Names \ {n} : Encodes(c, m) => Encodes(c, m)'
           /\ \A m \in Names : ~Encodes(c, n)' /\ (Encodes(c, m)' => Encodes(c, m))
           /\ \A m \in Names : ~Renames(c, n)' /\ (Renames(c, m)' => Renames(c, m))
           /\ call'[c].alone => \A m \in Names : Contents(c, m)' = Contents(c, m)
           /\ call'[c].alone => \A s \in Sources :
                 /\ call'[c].docs[s] = call[c].docs[s]
                 /\ call'[c].job[s] = call[c].job[s] \/ call'[c].job[s] = "failed"
  <1>1. /\ call' \in [Calls -> Call]
        /\ call'[c] = IF n = Merged THEN Returned(FALSE)
                      ELSE [call[c] EXCEPT !.job[n] = "failed"]
        /\ \A d \in Calls \ {c} : call'[d] = call[d]
    <2>1. TypeOK
      BY DEF Inv
    <2> QED
      BY <2>1, FailEffect
  <1>2. /\ call[c].at # "idle"
        /\ n # Merged => n \in Sources /\ call[c].at = "fetch"
        /\ n = Merged => \A m \in Names \ {n} : ~Encodes(c, m) /\ ~Renames(c, m)
    BY WriterActive
  <1>3. Acts(c)
    <2>1. \A s \in Sources : served[s] <= served[s]
      BY Constants DEF Inv, TypeOK
    <2> QED
      BY <1>1, <1>2, <2>1 DEF Inv, TypeOK, Acts
  <1>4. CASE n = Merged
    <2>1. call'[c] = Returned(FALSE)
      BY <1>1, <1>4
    <2>2. Control(c)' /\ call'[c].at = "idle"
      BY <2>1, ReturnedKept DEF TypeOK
    <2>3. ~call'[c].alone /\ \A m \in Names : ~Encodes(c, m)' /\ ~Renames(c, m)'
      BY <2>1 DEF Returned, Encodes, Renames, Names
    <2> QED
      BY <1>2, <1>3, <1>4, <2>2, <2>3
  <1>5. CASE n # Merged
    <2>1. call'[c] = [call[c] EXCEPT !.job[n] = "failed"] /\ n \in Sources /\ call[c].at = "fetch"
      BY <1>1, <1>2, <1>5
    <2>2. /\ Stays(c) /\ call'[c].at = call[c].at /\ call'[c].docs = call[c].docs
          /\ call'[c].job[n] = "failed"
          /\ \A s \in Sources \ {n} : call'[c].job[s] = call[c].job[s]
      BY <2>1 DEF Inv, TypeOK, Call, Stays
    <2>3. call[c].job[n] \in Writing
      BY <1>5 DEF Progress
    <2>4. Control(c)'
      BY <1>3, <2>1, <2>2, <2>3 DEF Inv, Control, Stays, Writing, Acts
    <2>5. \A m \in Names : Contents(c, m)' = Contents(c, m)
      BY <2>2 DEF Contents
    <2>6. /\ \A m \in Names \ {n} : Encodes(c, m) => Encodes(c, m)'
          /\ \A m \in Names : ~Encodes(c, n)' /\ (Encodes(c, m)' => Encodes(c, m))
          /\ \A m \in Names : ~Renames(c, n)' /\ (Renames(c, m)' => Renames(c, m))
      BY <1>5, <2>1, <2>2 DEF Encodes, Renames, Names
    <2> QED
      BY <1>3, <2>2, <2>4, <2>5, <2>6 DEF Stays
  <1> QED
    BY <1>4, <1>5

(* A step of a call that is alone on files that it has not broken.         *)
LEMMA FailFiles ==
    ASSUME SubscriptionAssumption, Inv, TypeOK', NEW c \in Calls, NEW n \in Names,
           Progress(c, n) \in Writing, Fail(c, n), UNCHANGED <<served, raced>>,
           \A m \in Names \ {n} : temp'[m] = temp[m] /\ disk'[m] = disk[m],
           /\ disk'[n].exists = disk[n].exists /\ disk'[n].whole = disk[n].whole
           /\ disk'[n].doc = disk[n].doc /\ disk'[n].open \subseteq disk[n].open,
           temp'[n] = temp[n] \/ temp'[n] = NoFile,
           c \in disk[n].open \cup temp[n].open => c \notin disk'[n].open \cup temp'[n].open
    PROVE  Inv'
  <1>1. /\ Acts(c) /\ Control(c)'
        /\ call'[c].at = "idle" \/ call'[c].alone = call[c].alone
        /\ call'[c].alone => call[c].alone
        /\ \A m \in Names \ {n} : Encodes(c, m) => Encodes(c, m)'
        /\ \A m \in Names : ~Encodes(c, n)' /\ (Encodes(c, m)' => Encodes(c, m))
        /\ \A m \in Names : ~Renames(c, n)' /\ (Renames(c, m)' => Renames(c, m))
        /\ call'[c].alone => \A m \in Names : Contents(c, m)' = Contents(c, m)
        /\ call'[c].alone => \A s \in Sources :
              /\ call'[c].docs[s] = call[c].docs[s]
              /\ call'[c].job[s] = call[c].job[s] \/ call'[c].job[s] = "failed"
    BY FailControl
  <1>2. /\ \A m \in Names : /\ disk'[m].exists = disk[m].exists
                            /\ disk'[m].whole = disk[m].whole
                            /\ disk'[m].doc = disk[m].doc
                            /\ disk'[m].open \subseteq disk[m].open
                            /\ temp'[m].open \subseteq temp[m].open
    BY DEF NoFile
  <1>3. Files(c)'
    <2> SUFFICES ASSUME call'[c].alone PROVE Writes(c)' /\ Holds(c)'
      BY DEF Files
    <2>1. Writes(c) /\ Holds(c)
      BY <1>1 DEF Inv, Files
    <2>2. Writes(c)'
      BY <1>1, <1>2, <2>1 DEF Writes
    <2>3. Holds(c)'
      BY <1>1, <1>2, <2>1 DEF Holds, Names, Writing
    <2> QED
      BY <2>2, <2>3
  <1>4. (\A d \in Calls : Control(d)' /\ Files(d)') /\ Sole' /\ Raced'
    BY <1>1, <1>3, CallsKept
  <1>5. Opens'
    <2> SUFFICES ASSUME NEW d \in Calls, NEW m \in Names, d \in disk'[m].open \cup temp'[m].open
                 PROVE  Encodes(d, m)'
      BY DEF Opens
    <2>1. Encodes(d, m)
      BY <1>2 DEF Inv, Opens
    <2>2. CASE d # c
      BY <1>1, <2>1, <2>2 DEF Acts, Encodes
    <2>3. CASE d = c
      BY <1>1, <1>2, <2>1, <2>3
    <2> QED
      BY <2>2, <2>3
  <1>6. Served'
    <2>1. \A s \in Sources : Nothing[s] = 0 /\ 0 <= served[s]
      BY Constants DEF Nothing, Inv, TypeOK
    <2> QED
      BY <1>2, <2>1 DEF Inv, Served, Names, NoFile
  <1>7. ReadersSeeWholeFiles' /\ ArtifactsLead'
    BY <1>2 DEF Inv, ReadersSeeWholeFiles, ArtifactsLead, Names
  <1> QED
    BY <1>4, <1>5, <1>6, <1>7 DEF Inv

LEMMA OpenTempKeeps ==
    ASSUME SubscriptionAssumption, Inv, NEW c \in Calls, NEW n \in Names, OpenTemp(c, n)
    PROVE  Inv'
  <1>1. TypeOK'
    BY OpenTempTypes DEF Inv
  <1>2. Progress(c, n) = "open" /\ Progress(c, n) \in Writing
    BY DEF OpenTemp, Writing
  <1>3. UNCHANGED <<served, raced, disk>>
    BY DEF OpenTemp
  <1>4. ~Encodes(c, n)
    BY <1>2, ProgressOf DEF Inv
  <1>5. CASE Fail(c, n) /\ UNCHANGED temp
    <2>1. c \notin disk[n].open \cup temp[n].open
      BY <1>4 DEF Inv, Opens
    <2> QED
      BY <1>1, <1>2, <1>3, <1>5, <2>1, FailFiles
  <1>6. CASE temp' = [temp EXCEPT ![n] = Opened(@, c)] /\ Proceed(c, n, "encode")
    <2>1. /\ Stays(c) /\ Acts(c) /\ call'[c].docs = call[c].docs
          /\ n = Merged => call'[c].at = "encode" /\ call'[c].job = call[c].job
          /\ n # Merged => /\ call'[c].at = call[c].at /\ call'[c].job[n] = "encode"
                           /\ \A s \in Sources \ {n} : call'[c].job[s] = call[c].job[s]
          /\ \A m \in Names : Contents(c, m)' = Contents(c, m)
      BY <1>1, <1>2, <1>3, <1>6, ProceedFields
    <2>2. /\ Control(c)'
          /\ \A m \in Names \ {n} : /\ Encodes(c, m)' <=> Encodes(c, m)
                                    /\ Renames(c, m)' => Renames(c, m)
          /\ Encodes(c, n)' /\ ~Renames(c, n)'
      BY <1>1, <1>2, <1>3, <1>6, ProceedControl
    <2>3. /\ temp'[n].exists /\ temp'[n].doc = Nothing
          /\ temp'[n].open = temp[n].open \cup {c} /\ (temp'[n].mixed <=> temp[n].open # {})
          /\ \A m \in Names \ {n} : temp'[m] = temp[m]
      BY <1>6 DEF Inv, TypeOK, Opened
    <2>4. Files(c)'
      <3> SUFFICES ASSUME call[c].alone PROVE Writes(c)' /\ Holds(c)'
        BY <2>1 DEF Files, Stays
      <3>1. Writes(c) /\ Holds(c)
        BY DEF Inv, Files
      <3>2. temp[n].open = {}
        BY <1>4, OwnFiles
      <3>3. Writes(c)'
        BY <1>3, <2>1, <2>2, <2>3, <3>1, <3>2 DEF Writes
      <3>4. Holds(c)'
        <4>1. n # Merged => call[c].job[n] = "open"
          BY <1>2 DEF Progress
        <4> QED
          BY <1>3, <2>1, <3>1, <4>1 DEF Holds, Writing
      <3> QED
        BY <3>3, <3>4
    <2>5. (\A d \in Calls : Control(d)' /\ Files(d)') /\ Sole' /\ Raced'
      BY <2>1, <2>2, <2>4, CallsKept DEF Stays
    <2>6. Opens'
      BY <1>3, <2>1, <2>2, <2>3 DEF Inv, Opens, Encodes, Acts
    <2>7. Served'
      <3>1. \A s \in Sources : Nothing[s] = 0 /\ 0 <= served[s]
        BY Constants DEF Nothing, Inv, TypeOK
      <3> QED
        BY <1>3, <2>3, <3>1 DEF Inv, Served, Names
    <2>8. ReadersSeeWholeFiles' /\ ArtifactsLead'
      BY <1>3 DEF Inv, ReadersSeeWholeFiles, ArtifactsLead
    <2> QED
      BY <1>1, <2>5, <2>6, <2>7, <2>8 DEF Inv
  <1> QED
    BY <1>5, <1>6 DEF OpenTemp

(* What a source's writer leaves is no newer than what the provider served. *)
LEMMA ContentsServed ==
    ASSUME SubscriptionAssumption, Inv, NEW c \in Calls, NEW s \in Sources
    PROVE  /\ Contents(c, s)[s] <= served[s]
           /\ Nothing[s] <= served[s]
  <1>1. s # Merged /\ call[c].docs[s] \in 0 .. MaxServed
    BY Constants DEF Inv, TypeOK, Call, Doc
  <1>2. Contents(c, s)[s] = call[c].docs[s]
    BY <1>1, Documents DEF Contents
  <1>3. Nothing[s] = 0 /\ 0 <= served[s]
    BY Constants DEF Nothing, Inv, TypeOK
  <1> QED
    BY <1>2, <1>3 DEF Inv, Control

LEMMA EncodeKeeps ==
    ASSUME SubscriptionAssumption, Inv, NEW c \in Calls, NEW n \in Names, Encode(c, n)
    PROVE  Inv'
  <1>1. TypeOK'
    BY EncodeTypes DEF Inv
  <1>2. Progress(c, n) = "encode" /\ Progress(c, n) \in Writing
    BY DEF Encode, Writing
  <1>3. UNCHANGED <<served, raced>> /\ Encodes(c, n)
    BY <1>2, ProgressOf DEF Encode, Inv
  <1>4. CASE /\ temp' = [temp EXCEPT ![n] = NoFile]
             /\ disk' = [disk EXCEPT ![n].open = @ \ {c}]
             /\ Fail(c, n)
    <2>1. \A m \in Names \ {n} : temp'[m] = temp[m] /\ disk'[m] = disk[m]
      BY <1>4 DEF Inv, TypeOK
    <2>2. /\ disk'[n].exists = disk[n].exists /\ disk'[n].whole = disk[n].whole
          /\ disk'[n].doc = disk[n].doc /\ disk'[n].open = disk[n].open \ {c}
      BY <1>4 DEF Inv, TypeOK, File
    <2>3. temp'[n] = NoFile
      BY <1>4 DEF Inv, TypeOK
    <2>4. c \notin disk'[n].open \cup temp'[n].open
      BY <2>2, <2>3 DEF NoFile
    <2> QED
      BY <1>1, <1>2, <1>3, <1>4, <2>1, <2>2, <2>3, <2>4, FailFiles
  <1>5. ASSUME NEW left \in Closed(temp[n], c, Contents(c, n)),
               NEW put \in Closed(disk[n], c, Contents(c, n)),
               temp' = [temp EXCEPT ![n] = IF c \in @.open THEN left ELSE @],
               disk' = [disk EXCEPT ![n] = IF c \in @.open THEN put ELSE @],
               Proceed(c, n, "rename")
        PROVE  Inv'
    <2>1. /\ Stays(c) /\ Acts(c) /\ call'[c].docs = call[c].docs
          /\ n = Merged => call'[c].at = "rename" /\ call'[c].job = call[c].job
          /\ n # Merged => /\ call'[c].at = call[c].at /\ call'[c].job[n] = "rename"
                           /\ \A s \in Sources \ {n} : call'[c].job[s] = call[c].job[s]
          /\ \A m \in Names : Contents(c, m)' = Contents(c, m)
      BY <1>1, <1>2, <1>3, <1>5, ProceedFields
    <2>2. /\ Control(c)'
          /\ \A m \in Names \ {n} : /\ Encodes(c, m)' <=> Encodes(c, m)
                                    /\ Renames(c, m)' => Renames(c, m)
          /\ ~Encodes(c, n)'
      BY <1>1, <1>2, <1>3, <1>5, ProceedControl
    <2>3. /\ \A m \in Names \ {n} : temp'[m] = temp[m] /\ disk'[m] = disk[m]
          /\ temp'[n] = IF c \in temp[n].open THEN left ELSE temp[n]
          /\ disk'[n] = IF c \in disk[n].open THEN put ELSE disk[n]
      BY <1>5 DEF Inv, TypeOK
    <2>4. /\ Contents(c, n) \in Doc /\ temp[n] \in File /\ disk[n] \in File
      BY ContentsType DEF Inv, TypeOK
    <2>5. /\ left.open = temp[n].open \ {c} /\ left.exists = temp[n].exists
          /\ left.doc \in {Contents(c, n), Nothing, temp[n].doc}
          /\ ~temp[n].mixed => left.whole /\ left.doc = Contents(c, n)
      BY <2>4, ClosedParts
    <2>6. /\ put.open = disk[n].open \ {c}
          /\ put.doc \in {Contents(c, n), Nothing, disk[n].doc}
      BY <2>4, ClosedParts
    <2>7. /\ temp'[n].open = temp[n].open \ {c}
          /\ disk'[n].open = disk[n].open \ {c}
      BY <2>3, <2>5, <2>6
    <2>8. ASSUME call[c].alone
          PROVE  disk' = disk
      BY <1>5, <2>3, <2>8 DEF Inv, Files, Writes, TypeOK
    <2>9. Files(c)'
      <3> SUFFICES ASSUME call[c].alone PROVE Writes(c)' /\ Holds(c)'
        BY <2>1 DEF Files, Stays
      <3>1. Writes(c) /\ Holds(c) /\ disk' = disk
        BY <2>8 DEF Inv, Files
      <3>2. temp'[n] = left
        BY <1>3, <2>3, <3>1 DEF Writes
      <3>3. temp'[n].exists /\ temp'[n].whole /\ temp'[n].open = {} /\ temp'[n].doc = Contents(c, n)
        BY <1>3, <2>5, <3>1, <3>2 DEF Writes
      <3>4. Writes(c)'
        BY <2>1, <2>2, <2>3, <3>1, <3>3 DEF Writes
      <3>5. Holds(c)'
        <4>1. n # Merged => call[c].job[n] = "encode"
          BY <1>2 DEF Progress
        <4> QED
          BY <2>1, <3>1, <4>1 DEF Holds, Writing
      <3> QED
        BY <3>4, <3>5
    <2>10. (\A d \in Calls : Control(d)' /\ Files(d)') /\ Sole' /\ Raced'
      BY <2>1, <2>2, <2>9, CallsKept DEF Stays
    <2>11. Opens'
      BY <2>1, <2>2, <2>3, <2>7 DEF Inv, Opens, Encodes, Acts
    <2>12. Served'
      <3> SUFFICES ASSUME NEW s \in Sources
                   PROVE  disk'[s].doc[s] <= served[s] /\ temp'[s].doc[s] <= served[s]
        BY <1>3 DEF Served
      <3>1. disk[s].doc[s] <= served[s] /\ temp[s].doc[s] <= served[s]
        BY DEF Inv, Served
      <3> QED
        BY <2>3, <2>5, <2>6, <3>1, ContentsServed DEF Names
    <2>13. ReadersSeeWholeFiles' /\ ArtifactsLead'
      <3> SUFFICES ASSUME ~raced PROVE ReadersSeeWholeFiles' /\ ArtifactsLead'
        BY <1>3 DEF ReadersSeeWholeFiles, ArtifactsLead
      <3>1. disk' = disk
        BY <2>1, <2>8 DEF Inv, Raced, Active, Acts
      <3> QED
        BY <1>3, <3>1 DEF Inv, ReadersSeeWholeFiles, ArtifactsLead
    <2> QED
      BY <1>1, <2>10, <2>11, <2>12, <2>13 DEF Inv
  <1> QED
    BY <1>4, <1>5 DEF Encode

LEMMA RenameKeeps ==
    ASSUME SubscriptionAssumption, Inv, NEW c \in Calls, NEW n \in Names, Rename(c, n)
    PROVE  Inv'
  <1>1. TypeOK'
    BY RenameTypes DEF Inv
  <1>2. Progress(c, n) = "rename" /\ Progress(c, n) \in Writing
    BY DEF Rename, Writing
  <1>3. UNCHANGED <<served, raced>> /\ Renames(c, n) /\ ~Encodes(c, n)
    BY <1>2, ProgressOf DEF Rename, Inv
  <1>4. /\ call[c].at # "idle"
        /\ n # Merged => n \in Sources /\ call[c].at = "fetch"
        /\ n = Merged => \A m \in Names \ {n} : ~Encodes(c, m) /\ ~Renames(c, m)
    BY <1>2, WriterActive
  <1>5. CASE Fail(c, n) /\ UNCHANGED <<disk, temp>>
    <2>1. c \notin disk[n].open \cup temp[n].open
      BY <1>3 DEF Inv, Opens
    <2> QED
      BY <1>1, <1>2, <1>3, <1>5, <2>1, FailFiles
  <1>6. CASE /\ disk' = [disk EXCEPT ![n] = temp[n]]
             /\ temp' = [temp EXCEPT ![n] = NoFile]
             /\ IF n = Merged THEN Return(c, TRUE) ELSE SetJob(c, n, "done")
    <2>1. /\ \A m \in Names \ {n} : temp'[m] = temp[m] /\ disk'[m] = disk[m]
          /\ disk'[n] = temp[n] /\ temp'[n] = NoFile
      BY <1>6 DEF Inv, TypeOK
    <2>2. n = Merged => Return(c, TRUE)
      BY <1>6
    <2>3. n # Merged => SetJob(c, n, "done") /\ "done" \in Job
      BY <1>6 DEF Job
    <2>4. call' \in [Calls -> Call] /\ \A d \in Calls \ {c} : call'[d] = call[d]
      BY <1>4, <2>2, <2>3, ReturnEffect, SetJobEffect DEF Inv
    <2>5. n = Merged => call'[c] = Returned(TRUE)
      BY <2>2, ReturnEffect DEF Inv
    <2>6. n # Merged => /\ Stays(c) /\ call'[c].at = call[c].at /\ call'[c].docs = call[c].docs
                        /\ call'[c].job[n] = "done"
                        /\ \A s \in Sources \ {n} : call'[c].job[s] = call[c].job[s]
      BY <1>4, <2>3 DEF SetJob, Inv, TypeOK, Call, Stays
    <2>7. Acts(c)
      <3>1. \A s \in Sources : served[s] <= served[s]
        BY Constants DEF Inv, TypeOK
      <3> QED
        BY <1>3, <1>4, <2>4, <3>1 DEF Inv, TypeOK, Acts
    <2>8. ASSUME call[c].alone
          PROVE  /\ temp[n].exists /\ temp[n].whole /\ temp[n].open = {}
                 /\ temp[n].doc = Contents(c, n)
      BY <1>3, <2>8 DEF Inv, Files, Writes
    <2>9. Control(c)' /\ Files(c)'
      <3>1. CASE n = Merged
        BY <1>1, <2>5, <3>1, ReturnedKept DEF TypeOK
      <3>2. CASE n # Merged
        <4>1. n \in Sources /\ call[c].at = "fetch" /\ call[c].job[n] = "rename"
          BY <1>2, <1>4, <3>2 DEF Progress
        <4>2. Control(c)'
          BY <1>3, <2>6, <3>2, <4>1 DEF Inv, Control, Stays
        <4>3. Files(c)'
          <5> SUFFICES ASSUME call[c].alone PROVE Writes(c)' /\ Holds(c)'
            BY <2>6, <3>2 DEF Files, Stays
          <5>1. Writes(c) /\ Holds(c)
            BY DEF Inv, Files
          <5>2. /\ \A m \in Names \ {n} : /\ Encodes(c, m)' <=> Encodes(c, m)
                                          /\ Renames(c, m)' <=> Renames(c, m)
                /\ ~Encodes(c, n)' /\ ~Renames(c, n)'
                /\ \A m \in Names : Contents(c, m)' = Contents(c, m)
            BY <2>6, <3>2, <4>1 DEF Encodes, Renames, Contents, Names
          <5>3. Writes(c)'
            BY <2>1, <2>8, <5>1, <5>2 DEF Writes
          <5>4. disk'[n].whole /\ disk'[n].doc = Only(n, call'[c].docs[n])
            BY <2>1, <2>6, <2>8, <3>2 DEF Contents
          <5>5. \A s \in Sources \ {n} : s \in Names \ {n}
            BY DEF Names
          <5>6. Holds(c)'
            BY <2>1, <2>6, <3>2, <4>1, <5>1, <5>4, <5>5 DEF Holds, Writing
          <5> QED
            BY <5>3, <5>6
        <4> QED
          BY <4>2, <4>3
      <3> QED
        BY <3>1, <3>2
    <2>10. call'[c].at = "idle" \/ call'[c].alone = call[c].alone
      BY <2>5, <2>6 DEF Returned, Stays
    <2>11. (\A d \in Calls : Control(d)' /\ Files(d)') /\ Sole' /\ Raced'
      BY <2>7, <2>9, <2>10, CallsKept
    <2>12. Opens'
      <3> SUFFICES ASSUME NEW d \in Calls, NEW m \in Names, d \in disk'[m].open \cup temp'[m].open
                   PROVE  Encodes(d, m)'
        BY DEF Opens
      <3>1. Encodes(d, m)
        BY <2>1 DEF Inv, Opens, NoFile
      <3>2. CASE d # c
        BY <2>4, <3>1, <3>2 DEF Encodes
      <3>3. CASE d = c
        <4>1. m # n /\ n # Merged
          BY <1>3, <1>4, <3>1, <3>3
        <4> QED
          BY <1>4, <2>6, <3>1, <3>3, <4>1 DEF Encodes, Names
      <3> QED
        BY <3>2, <3>3
    <2>13. Served'
      <3> SUFFICES ASSUME NEW s \in Sources
                   PROVE  disk'[s].doc[s] <= served[s] /\ temp'[s].doc[s] <= served[s]
        BY <1>3 DEF Served
      <3>1. disk[s].doc[s] <= served[s] /\ temp[s].doc[s] <= served[s] /\ Nothing[s] <= served[s]
        BY ContentsServed DEF Inv, Served
      <3> QED
        BY <2>1, <3>1 DEF Names, NoFile
    <2>14. ReadersSeeWholeFiles' /\ ArtifactsLead'
      <3> SUFFICES ASSUME ~raced PROVE ReadersSeeWholeFiles' /\ ArtifactsLead'
        BY <1>3 DEF ReadersSeeWholeFiles, ArtifactsLead
      <3>1. call[c].alone
        BY <1>4 DEF Inv, Raced, Active
      <3>2. ReadersSeeWholeFiles'
        BY <2>1, <2>8, <3>1 DEF Inv, ReadersSeeWholeFiles
      <3>3. ArtifactsLead'
        <4> SUFFICES ASSUME NEW s \in Sources
                     PROVE  disk'[Merged].doc[s] <= disk'[s].doc[s]
          BY DEF ArtifactsLead
        <4>1. disk[Merged].doc[s] <= disk[s].doc[s]
          BY DEF Inv, ArtifactsLead
        <4>2. /\ s \in Names /\ Merged \in Names /\ s # Merged
          BY Constants DEF Names
        <4>3. /\ disk[s].doc[s] \in Nat /\ disk[Merged].doc[s] \in Nat
              /\ call[c].docs[s] \in 0 .. MaxServed /\ call[c].docs[s] \in Nat
          BY <4>2, Constants DEF Inv, TypeOK, File, Doc, Call
        <4>4. Holds(c)
          BY <3>1 DEF Inv, Files
        <4>5. CASE n = Merged
          <5>1. call[c].at = "rename"
            BY <1>3, <4>5 DEF Renames
          <5>2. call[c].job[s] \in {"none", "missing", "done", "read"}
            BY <5>1 DEF Inv, Control, TypeOK, Call, Job
          <5>3. CASE call[c].job[s] \in {"done", "read"}
            <6>1. disk[s].doc[s] = call[c].docs[s]
              BY <4>3, <4>4, <5>3, Documents DEF Holds
            <6> QED
              BY <2>1, <2>8, <3>1, <4>2, <4>3, <4>5, <6>1 DEF Contents
          <5>4. CASE call[c].docs[s] = 0
            BY <2>1, <2>8, <3>1, <4>2, <4>3, <4>5, <5>4 DEF Contents
          <5> QED
            BY <5>2, <5>3, <5>4 DEF Inv, Control
        <4>6. CASE n # Merged /\ n = s
          <5>1. disk'[s].doc = Only(s, call[c].docs[s]) /\ disk'[Merged] = disk[Merged]
            BY <2>1, <2>8, <3>1, <4>2, <4>6 DEF Contents
          <5>2. disk'[s].doc[s] = call[c].docs[s]
            BY <4>3, <5>1, Documents
          <5>3. call[c].job[s] = "rename"
            BY <1>3, <4>6 DEF Renames
          <5>4. disk[s].doc[s] <= call[c].docs[s]
            BY <4>4, <5>3 DEF Holds, Writing
          <5> QED
            BY <4>1, <4>3, <5>1, <5>2, <5>4
        <4>7. CASE n # Merged /\ n # s
          BY <2>1, <4>1, <4>2, <4>7
        <4> QED
          BY <4>5, <4>6, <4>7
      <3> QED
        BY <3>2, <3>3
    <2> QED
      BY <1>1, <2>11, <2>12, <2>13, <2>14 DEF Inv
  <1> QED
    BY <1>5, <1>6 DEF Rename

LEMMA DieKeeps ==
    ASSUME SubscriptionAssumption, Inv, NEW c \in Calls, Die(c)
    PROVE  Inv'
  <1>1. TypeOK'
    BY DieTypes DEF Inv
  <1>2. UNCHANGED <<served, raced>> /\ call[c].at # "idle" /\ Return(c, FALSE)
    BY DEF Die, Active
  <1>3. /\ call' \in [Calls -> Call] /\ call'[c] = Returned(FALSE)
        /\ \A d \in Calls \ {c} : call'[d] = call[d]
    BY <1>2, ReturnEffect DEF Inv
  <1>4. Control(c)' /\ Files(c)' /\ call'[c].at = "idle"
    BY <1>1, <1>3, ReturnedKept DEF TypeOK
  <1>5. Acts(c)
    <2>1. \A s \in Sources : served[s] <= served[s]
      BY Constants DEF Inv, TypeOK
    <2> QED
      BY <1>2, <1>3, <2>1 DEF Inv, TypeOK, Acts
  <1>6. (\A d \in Calls : Control(d)' /\ Files(d)') /\ Sole' /\ Raced'
    BY <1>4, <1>5, CallsKept
  <1>7. \A m \in Names :
          /\ disk'[m].exists = disk[m].exists /\ disk'[m].whole = disk[m].whole
          /\ disk'[m].doc = disk[m].doc /\ temp'[m].doc = temp[m].doc
          /\ disk'[m].open = disk[m].open \ {c} /\ temp'[m].open = temp[m].open \ {c}
    BY DEF Die, Inv, TypeOK, File
  <1>8. Opens'
    BY <1>3, <1>7 DEF Inv, Opens, Encodes
  <1>9. Served' /\ ReadersSeeWholeFiles' /\ ArtifactsLead'
    BY <1>2, <1>7 DEF Inv, Served, ReadersSeeWholeFiles, ArtifactsLead, Names
  <1> QED
    BY <1>1, <1>6, <1>8, <1>9 DEF Inv

LEMMA NextKeeps ==
    ASSUME SubscriptionAssumption, Inv, [Next]_vars
    PROVE  Inv'
  <1>1. CASE Next
    BY <1>1, BeginKeeps, DispatchKeeps, AnswerKeeps, TimeoutKeeps, DropKeeps, CollectKeeps,
       ReadKeeps, OpenTempKeeps, EncodeKeeps, RenameKeeps, DieKeeps, ConfigureKeeps
       DEF Next, Step, Write
  <1>2. CASE UNCHANGED vars
    <2>1. \A c \in Calls : Control(c)' /\ Files(c)'
      BY <1>2 DEF vars, Inv, Control, Files, Writes, Holds, Encodes, Renames, Contents
    <2> QED
      BY <1>2, <2>1 DEF vars, counters, Inv, TypeOK, Opens, Sole, Raced, Served, Active, Encodes,
         ReadersSeeWholeFiles, ArtifactsLead
  <1> QED
    BY <1>1, <1>2

-----------------------------------------------------------------------------
(* The theorems.                                                           *)
THEOREM Invariance == Spec => []Inv
  <1>1. Init => Inv
    BY SubscriptionAssumption, InitInv
  <1>2. Inv /\ [Next]_vars => Inv'
    BY SubscriptionAssumption, NextKeeps
  <1> QED
    BY <1>1, <1>2, PTL DEF Spec

(* A refresh that has returned, with or without success, writes nothing    *)
(* any more, however many run: it waits for the workers that it started.   *)
THEOREM Quiet == Spec => []QuietAfterReturn
  <1>1. Inv => QuietAfterReturn
    <2> SUFFICES ASSUME Inv, NEW c \in Calls, c \notin Active, NEW n \in Names
                 PROVE  c \notin disk[n].open \cup temp[n].open
      BY DEF QuietAfterReturn
    <2>1. ~Encodes(c, n)
      BY DEF Inv, Control, Active, Encodes, Names, Busy, Writing
    <2> QED
      BY <2>1 DEF Inv, Opens
  <1> QED
    BY <1>1, Invariance, PTL

(* Without overlapping refreshes no reader finds a file half written,      *)
(* whatever dies or fails.                                                 *)
THEOREM WholeFiles == Spec => []ReadersSeeWholeFiles
  <1>1. Inv => ReadersSeeWholeFiles
    BY DEF Inv
  <1> QED
    BY <1>1, Invariance, PTL

(* Without overlapping refreshes the merged file is never newer than the   *)
(* artifacts it is merged from.                                            *)
THEOREM LeadingArtifacts == Spec => []ArtifactsLead
  <1>1. Inv => ArtifactsLead
    BY DEF Inv
  <1> QED
    BY <1>1, Invariance, PTL

(* The last step of a refresh that succeeds alone is the rename of the     *)
(* merged file.                                                            *)
LEMMA SuccessIsRename ==
    ASSUME SubscriptionAssumption, Inv, Next, NEW c \in Calls,
           call[c].at # "idle", call'[c].ok
    PROVE  /\ call[c].at = "rename"
           /\ disk' = [disk EXCEPT ![Merged] = temp[Merged]]
  <1>1. TypeOK /\ ~call[c].ok
    BY DEF Inv, Control
  <1>2. ASSUME NEW d \in Calls, NEW s \in Sources, NEW job, SetJob(d, s, job)
        PROVE  FALSE
    <2>1. call'[c].ok = call[c].ok
      BY <1>1, <1>2 DEF SetJob, TypeOK, Call
    <2> QED
      BY <1>1, <2>1
  <1>3. ASSUME NEW d \in Calls, NEW ok \in BOOLEAN, Return(d, ok)
        PROVE  d = c /\ ok
    BY <1>1, <1>3 DEF Return, Returned, TypeOK
  <1>4. ASSUME NEW d \in Calls, NEW s \in Sources, Answer(d, s)
        PROVE  FALSE
    <2>1. ASSUME NEW version, call' = [call EXCEPT ![d].job[s] = "open", ![d].docs[s] = version]
          PROVE  FALSE
      BY <1>1, <2>1 DEF TypeOK, Call
    <2> QED
      BY <1>2, <1>4, <2>1 DEF Answer
  <1>5. ASSUME NEW d \in Calls, NEW s \in Sources, Read(d, s)
        PROVE  FALSE
    <2>1. ASSUME call' = [call EXCEPT ![d].job[s] = "read", ![d].docs[s] = disk[s].doc[s]]
          PROVE  FALSE
      BY <1>1, <2>1 DEF TypeOK, Call
    <2> QED
      BY <1>2, <1>3, <1>5, <2>1 DEF Read
  <1>6. ASSUME NEW d \in Calls, Timeout(d) \/ Drop(d)
        PROVE  FALSE
    <2>1. CASE Timeout(d)
      <3>1. call' = [call EXCEPT ![d].cancelled = TRUE]
        BY <2>1 DEF Timeout
      <3> QED
        BY <1>1, <3>1 DEF TypeOK, Call
    <2>2. CASE Drop(d)
      <3>1. PICK job : call' = [call EXCEPT ![d].job = job]
        BY <2>2 DEF Drop
      <3> QED
        BY <1>1, <3>1 DEF TypeOK, Call
    <2> QED
      BY <1>6, <2>1, <2>2
  <1>7. ASSUME NEW d \in Calls, Collect(d)
        PROVE  FALSE
    <2>1. ASSUME call' = [call EXCEPT ![d].at = "read", ![d].cancelled = FALSE]
          PROVE  FALSE
      BY <1>1, <2>1 DEF TypeOK, Call
    <2> QED
      BY <1>3, <1>7, <2>1 DEF Collect
  <1>8. \A d \in Calls : ~Begin(d)
    BY <1>1, SMTT(30) DEF Begin, Selectable, TypeOK, Call, Active
  <1>9. ~Configure
    BY <1>1 DEF Configure, SourceLists
  <1>10. \A d \in Calls : ~Die(d)
    BY <1>3 DEF Die
  <1>11. \A d \in Calls, n \in Names : ~Fail(d, n)
    BY <1>2, <1>3 DEF Fail, Names
  <1>12. ASSUME NEW d \in Calls, NEW n \in Names, NEW step, Proceed(d, n, step)
         PROVE  FALSE
    <2>1. ASSUME call' = [call EXCEPT ![d].at = step]
          PROVE  FALSE
      BY <1>1, <2>1 DEF TypeOK, Call
    <2> QED
      BY <1>2, <1>12, <2>1 DEF Proceed, Names
  <1>13. \A d \in Calls, n \in Names : ~OpenTemp(d, n) /\ ~Encode(d, n)
    BY <1>11, <1>12 DEF OpenTemp, Encode
  <1>14. \A d \in Calls, s \in Sources : ~Dispatch(d, s) /\ ~Abort(d, s)
    BY <1>2 DEF Dispatch, Abort
  <1>15. PICK d \in Calls, n \in Names : Rename(d, n)
    BY <1>4, <1>5, <1>6, <1>7, <1>8, <1>9, <1>10, <1>13, <1>14 DEF Next, Step, Write
  <1>16. /\ disk' = [disk EXCEPT ![n] = temp[n]]
         /\ IF n = Merged THEN Return(d, TRUE) ELSE SetJob(d, n, "done")
    BY <1>11, <1>15 DEF Rename
  <1>17. n = Merged /\ d = c
    BY <1>2, <1>3, <1>16 DEF Names
  <1>18. Renames(c, Merged)
    BY <1>1, <1>15, <1>17, ProgressOf DEF Rename
  <1> QED
    BY <1>16, <1>17, <1>18 DEF Renames

(* A refresh that no other overlaps and that reports success leaves the    *)
(* artifacts it selected and the merged file as it fetched them.           *)
THEOREM Repairs == Spec => SoleRefreshRepairs
  <1> DEFINE Repaired ==
          \A c \in Calls :
             call[c].alone /\ call[c].at # "idle" /\ call'[c].ok
               => LET fetched == With(c, {"done"})
                      left == disk'[Merged]
                  IN  /\ left.whole /\ left.doc = call[c].docs
                      /\ \A s \in Sources : left.doc[s] # 0 => s \in call[c].sources
                      /\ With(c, {"none", "queued", "failed"}) \cap call[c].sources = {}
                      /\ \A s \in fetched : disk'[s].whole /\ disk'[s].doc = Only(s, left.doc[s])
  <1>1. Inv /\ Next => Repaired
    <2> SUFFICES ASSUME Inv, Next, NEW c \in Calls,
                        call[c].alone, call[c].at # "idle", call'[c].ok
                 PROVE  /\ disk'[Merged].whole /\ disk'[Merged].doc = call[c].docs
                        /\ \A s \in Sources :
                              disk'[Merged].doc[s] # 0 => s \in call[c].sources
                        /\ With(c, {"none", "queued", "failed"}) \cap call[c].sources = {}
                        /\ \A s \in With(c, {"done"}) :
                              disk'[s].whole /\ disk'[s].doc = Only(s, disk'[Merged].doc[s])
      OBVIOUS
    <2>1. call[c].at = "rename" /\ disk' = [disk EXCEPT ![Merged] = temp[Merged]]
      BY SubscriptionAssumption, SuccessIsRename
    <2>2. Merged \in Names /\ \A s \in Sources : s \in Names /\ s # Merged
      BY SubscriptionAssumption, Constants DEF Names
    <2>3. disk'[Merged] = temp[Merged] /\ \A s \in Sources : disk'[s] = disk[s]
      BY <2>1, <2>2 DEF Inv, TypeOK
    <2>4. temp[Merged].whole /\ temp[Merged].doc = call[c].docs
      BY <2>1, <2>2 DEF Inv, Files, Writes, Renames, Contents
    <2>5. \A s \in Sources : call[c].docs[s] # 0 => s \in call[c].sources
      BY DEF Inv, Control
    <2>6. With(c, {"none", "queued", "failed"}) \cap call[c].sources = {}
      BY <2>1 DEF Inv, Control, With, Busy
    <2>7. \A s \in With(c, {"done"}) : disk[s].whole /\ disk[s].doc = Only(s, call[c].docs[s])
      BY DEF With, Inv, Files, Holds
    <2> QED
      BY <2>3, <2>4, <2>5, <2>6, <2>7 DEF With
  <1>2. Inv /\ [Next]_vars => [Repaired]_vars
    BY <1>1
  <1> QED
    BY <1>2, Invariance, PTL DEF Spec, SoleRefreshRepairs
=============================================================================
