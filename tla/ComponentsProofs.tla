-------------------------- MODULE ComponentsProofs --------------------------
(***************************************************************************)
(* What TLAPS proves of Components, for any commands, requests, mirrors    *)
(* and releases, and any number of commands that run at the same time.     *)
(***************************************************************************)
EXTENDS Components, FiniteSetTheorems, TLAPS

Pcs == {"inspect", "save", "switch", "clear", "ask", "tell", "fetch", "open", "copy", "install",
        "cleanup", "manifest", "unpack", "replace", "download", "check", "remove", "start", "done"}
Done == [part : Parts, release : Releases \union {None}]
Call == [parts : Seq(Parts), did : Seq(Done), flavors : Seq(Flavors), pc : Pcs, core : Flavors,
         ask : Flavors, seen : Releases \union {None}, release : Releases \union {None},
         urls : 0..Candidates, at : {None, "temp", "core", "gone"}, again : BOOLEAN,
         left : SUBSET (Assets \union DashboardFiles \union ResetTargets),
         ok : BOOLEAN, warned : BOOLEAN, sole : BOOLEAN]

(* Every variable keeps its type: no download goes on without a mirror to  *)
(* ask, and a cached version is one that was published.                    *)
TypeOK ==
    /\ latest \in Releases
    /\ core \in [Flavors -> {None} \union CoreFiles]
    /\ temp \in [Flavors -> {None} \union CoreFiles]
    /\ active \in Flavors
    /\ cache \in {None} \union [core : Flavors, release : Releases]
    /\ assets \in [Assets -> Contents]
    /\ dashboard \in {None} \union [DashboardFiles -> Contents]
    /\ running \in BOOLEAN
    /\ call \in [Callers -> {Idle} \union Call]
    /\ shared \subseteq Flavors
    /\ calls \in 0..MaxCalls /\ mishaps \in 0..MaxMishaps

-----------------------------------------------------------------------------

Records == call \in [Callers -> {Idle} \union Call]

(* What the steps of a command do to its record: what it was asked for, the *)
(* parts it has done, and whether it is alone stay as they are, and so does *)
(* a warning.                                                              *)
Alike(c, d) ==
    /\ c.parts = d.parts /\ c.did = d.did /\ c.core = d.core /\ (d.sole <=> c.sole)
    /\ c.warned => d.warned

(* What others see of a step: a file that they have open may be at another *)
(* place, and they are not alone any more.                                 *)
Follows(q) ==
    \/ call[q] = Idle /\ call'[q] = Idle
    \/ /\ call[q] \in Call /\ call'[q] \in Call
       /\ \A x \in {"parts", "did", "flavors", "pc", "core", "ask", "seen", "release", "urls",
                    "again", "left", "ok", "warned"} : call'[q][x] = call[q][x]
       /\ call'[q].sole => call[q].sole

Moves(p) ==
    /\ Records'
    /\ \A q \in Callers \ {p} : Follows(q)
    /\ call[p] \in Call /\ call'[p] \in Call
    /\ Alike(call[p], call'[p])

-----------------------------------------------------------------------------
(* Records.                                                                *)

LEMMA Active ==
    ASSUME Records, NEW p \in Callers, call[p].pc # "idle"
    PROVE  call[p] \in Call /\ call[p].pc \in Pcs
  BY DEF Records, Idle, Call

LEMMA IdleOrNot == ASSUME NEW c \in Call PROVE c # Idle /\ c.pc # "idle"
  BY DEF Call, Idle, Pcs

LEMMA Becomes ==
    ASSUME Records, NEW p \in Callers, call[p] \in Call, NEW c \in Call,
           call' = [call EXCEPT ![p] = c], Alike(call[p], c)
    PROVE  Moves(p) /\ call'[p] = c
  <1>1. Records' /\ call'[p] = c /\ \A q \in Callers \ {p} : call'[q] = call[q]
    BY DEF Records
  <1>2. \A q \in Callers : call[q] = Idle \/ call[q] \in Call
    BY DEF Records
  <1> QED
    BY <1>1, <1>2 DEF Moves, Follows

LEMMA GotoMoves ==
    ASSUME Records, NEW p \in Callers, call[p] \in Call, NEW pc \in Pcs, Goto(p, pc)
    PROVE  /\ Moves(p) /\ call'[p].pc = pc
           /\ \A x \in {"flavors", "ask", "seen", "release", "urls", "left", "ok"} :
                 call'[p][x] = call[p][x]
  <1> DEFINE c == [call[p] EXCEPT !.pc = pc]
  <1>1. call' = [call EXCEPT ![p] = c]
    BY DEF Goto
  <1>2. c \in Call
    BY DEF Call
  <1>3. /\ c.pc = pc /\ Alike(call[p], c)
        /\ \A x \in {"flavors", "ask", "seen", "release", "urls", "left", "ok"} :
              c[x] = call[p][x]
    BY DEF Call, Alike
  <1> HIDE DEF c
  <1> QED
    BY <1>1, <1>2, <1>3, Becomes

LEMMA AnswerMoves ==
    ASSUME Records, NEW p \in Callers, call[p] \in Call, NEW ok \in BOOLEAN, Answer(p, ok)
    PROVE  /\ Moves(p) /\ call'[p].pc = "done" /\ (call'[p].ok => ok)
           /\ \A x \in {"flavors", "ask", "seen", "release", "urls", "left"} :
                 call'[p][x] = call[p][x]
  <1> DEFINE c == [call[p] EXCEPT !.pc = "done", !.ok = ok]
  <1>1. call' = [call EXCEPT ![p] = c]
    BY DEF Answer
  <1>2. c \in Call
    BY Zenon DEF Call, Pcs
  <1>3. /\ c.pc = "done" /\ (c.ok => ok) /\ Alike(call[p], c)
        /\ \A x \in {"flavors", "ask", "seen", "release", "urls", "left"} : c[x] = call[p][x]
    BY DEF Call, Alike
  <1> HIDE DEF c
  <1> QED
    BY <1>1, <1>2, <1>3, Becomes

LEMMA WarnMoves ==
    ASSUME Records, NEW p \in Callers, call[p] \in Call, Warn(p)
    PROVE  /\ Moves(p) /\ call'[p].pc = "done" /\ call'[p].ok /\ call'[p].warned
           /\ \A x \in {"flavors", "ask", "seen", "release", "urls", "left"} :
                 call'[p][x] = call[p][x]
  <1> DEFINE c == [call[p] EXCEPT !.pc = "done", !.ok = TRUE, !.warned = TRUE]
  <1>1. call' = [call EXCEPT ![p] = c]
    BY DEF Warn
  <1>2. c \in Call
    BY Zenon DEF Call, Pcs
  <1>3. /\ c.pc = "done" /\ c.ok /\ c.warned /\ Alike(call[p], c)
        /\ \A x \in {"flavors", "ask", "seen", "release", "urls", "left"} : c[x] = call[p][x]
    BY DEF Call, Alike
  <1> HIDE DEF c
  <1> QED
    BY <1>1, <1>2, <1>3, Becomes

(* A command that starts over with its first part that is left.            *)
LEMMA MainMoves ==
    ASSUME Records, NEW p \in Callers, call[p] \in Call, Part(p) \in Parts, Main(p)
    PROVE  /\ Moves(p) /\ call'[p].pc = FirstPc(Part(p)) /\ FirstPc(Part(p)) \in Pcs
           /\ call'[p].flavors = Part(p).flavors
  <1> DEFINE c == [call[p] EXCEPT !.parts = @, !.pc = FirstPc(Part(p)),
                                  !.flavors = Part(p).flavors, !.again = TRUE, !.left = {}]
  <1>1. call' = [call EXCEPT ![p] = c]
    BY DEF Main, Enter, Part
  <1>2. FirstPc(Part(p)) \in Pcs /\ Part(p).flavors \in Seq(Flavors)
    BY DEF Parts, Kinds, FirstPc, Pcs
  <1>3. c \in Call
    BY <1>2 DEF Call
  <1>4. c.pc = FirstPc(Part(p)) /\ c.flavors = Part(p).flavors /\ Alike(call[p], c)
    BY DEF Call, Alike
  <1> HIDE DEF c
  <1> QED
    BY <1>1, <1>2, <1>3, <1>4, Becomes

LEMMA SeenMoves ==
    ASSUME Records, NEW p \in Callers, call[p] \in Call, NEW pc \in Pcs,
           NEW seen \in Releases,
           call' = [call EXCEPT ![p].pc = pc, ![p].seen = seen]
    PROVE  /\ Moves(p) /\ call'[p].pc = pc /\ call'[p].seen = seen
           /\ \A x \in {"flavors", "ask", "release", "urls", "left", "ok"} :
                 call'[p][x] = call[p][x]
  <1> DEFINE c == [call[p] EXCEPT !.pc = pc, !.seen = seen]
  <1>1. call' = [call EXCEPT ![p] = c]
    OBVIOUS
  <1>2. c \in Call
    BY DEF Call
  <1>3. /\ c.pc = pc /\ c.seen = seen /\ Alike(call[p], c)
        /\ \A x \in {"flavors", "ask", "release", "urls", "left", "ok"} : c[x] = call[p][x]
    BY DEF Call, Alike
  <1> HIDE DEF c
  <1> QED
    BY <1>1, <1>2, <1>3, Becomes

LEMMA AskMoves ==
    ASSUME Records, NEW p \in Callers, call[p] \in Call, NEW ask \in Flavors,
           call' = [call EXCEPT ![p].pc = "clear", ![p].ask = ask]
    PROVE  /\ Moves(p) /\ call'[p].pc = "clear" /\ call'[p].ask = ask
           /\ \A x \in {"flavors", "seen", "release", "urls", "left", "ok"} :
                 call'[p][x] = call[p][x]
  <1> DEFINE c == [call[p] EXCEPT !.pc = "clear", !.ask = ask]
  <1>1. call' = [call EXCEPT ![p] = c]
    OBVIOUS
  <1>2. "clear" \in Pcs
    BY DEF Pcs
  <1>3. c \in Call
    BY <1>2 DEF Call
  <1>4. /\ c.pc = "clear" /\ c.ask = ask /\ Alike(call[p], c)
        /\ \A x \in {"flavors", "seen", "release", "urls", "left", "ok"} : c[x] = call[p][x]
    BY DEF Call, Alike
  <1> HIDE DEF c
  <1> QED
    BY <1>1, <1>3, <1>4, Becomes

LEMMA UnpackMoves ==
    ASSUME Records, NEW p \in Callers, call[p] \in Call, NEW release \in Releases,
           NEW left \in {Assets, DashboardFiles},
           call' = [call EXCEPT ![p].pc = "unpack", ![p].release = release, ![p].left = left]
    PROVE  /\ Moves(p) /\ call'[p].pc = "unpack"
           /\ call'[p].release = release /\ call'[p].left = left
  <1> DEFINE c == [call[p] EXCEPT !.pc = "unpack", !.release = release, !.left = left]
  <1>1. call' = [call EXCEPT ![p] = c]
    OBVIOUS
  <1>2. "unpack" \in Pcs /\ left \in SUBSET (Assets \union DashboardFiles \union ResetTargets)
    BY DEF Pcs
  <1>3. c \in Call
    BY <1>2 DEF Call
  <1>4. c.pc = "unpack" /\ c.release = release /\ c.left = left /\ Alike(call[p], c)
    BY DEF Call, Alike
  <1> HIDE DEF c
  <1> QED
    BY <1>1, <1>3, <1>4, Becomes

LEMMA RemoveMoves ==
    ASSUME Records, NEW p \in Callers, call[p] \in Call,
           call' = [call EXCEPT ![p].pc = "remove", ![p].left = ResetTargets]
    PROVE  Moves(p) /\ call'[p].pc = "remove" /\ call'[p].left = ResetTargets
  <1> DEFINE c == [call[p] EXCEPT !.pc = "remove", !.left = ResetTargets]
  <1>1. call' = [call EXCEPT ![p] = c]
    OBVIOUS
  <1>2. "remove" \in Pcs
    BY DEF Pcs
  <1>3. c \in Call
    BY <1>2 DEF Call
  <1>4. c.pc = "remove" /\ c.left = ResetTargets /\ Alike(call[p], c)
    BY DEF Call, Alike
  <1> HIDE DEF c
  <1> QED
    BY <1>1, <1>3, <1>4, Becomes

LEMMA LessLeftMoves ==
    ASSUME Records, NEW p \in Callers, call[p] \in Call, NEW x,
           call' = [call EXCEPT ![p].left = @ \ {x}]
    PROVE  /\ Moves(p) /\ call'[p].pc = call[p].pc /\ call'[p].left = call[p].left \ {x}
           /\ call'[p].release = call[p].release /\ call'[p].ok = call[p].ok
  <1> DEFINE c == [call[p] EXCEPT !.left = @ \ {x}]
  <1>1. call' = [call EXCEPT ![p] = c]
    OBVIOUS
  <1>2. c \in Call
    BY DEF Call
  <1>3. /\ c.pc = call[p].pc /\ c.left = call[p].left \ {x} /\ Alike(call[p], c)
        /\ c.release = call[p].release /\ c.ok = call[p].ok
    BY DEF Call, Alike
  <1> HIDE DEF c
  <1> QED
    BY <1>1, <1>2, <1>3, Becomes

LEMMA FallBackMoves ==
    ASSUME Records, NEW p \in Callers, call[p] \in Call, FallBack(p)
    PROVE  /\ Moves(p)
           /\ call'[p].pc = "replace" \/ (call'[p].pc = "done" /\ ~call'[p].ok)
  <1>1. CASE call[p].again
    <2> DEFINE c == [call[p] EXCEPT !.pc = "replace", !.again = FALSE]
    <2>1. call' = [call EXCEPT ![p] = c]
      BY <1>1 DEF FallBack
    <2>2. c \in Call
      BY DEF Call, Pcs
    <2>3. c.pc = "replace" /\ Alike(call[p], c)
      BY DEF Call, Alike
    <2> HIDE DEF c
    <2> QED
      BY <2>1, <2>2, <2>3, Becomes
  <1>2. CASE ~call[p].again
    BY <1>2, AnswerMoves DEF FallBack, Answer
  <1> QED
    BY <1>1, <1>2

LEMMA FetchMoves ==
    ASSUME BoundsAssumption, Records, NEW p \in Callers, call[p] \in Call,
           NEW release \in Releases,
           call' = [call EXCEPT ![p].pc = "open", ![p].release = release,
                                ![p].urls = Candidates, ![p].ok = TRUE]
    PROVE  /\ Moves(p) /\ call'[p].pc = "open" /\ call'[p].release = release
           /\ call'[p].urls = Candidates /\ call'[p].flavors = call[p].flavors
  <1> DEFINE c == [call[p] EXCEPT !.pc = "open", !.release = release,
                                  !.urls = Candidates, !.ok = TRUE]
  <1>1. call' = [call EXCEPT ![p] = c]
    OBVIOUS
  <1>2. "open" \in Pcs /\ Candidates \in 0..Candidates
    BY DEF Pcs, BoundsAssumption
  <1>3. c \in Call
    BY <1>2 DEF Call
  <1>4. /\ c.pc = "open" /\ c.release = release /\ c.urls = Candidates
        /\ c.flavors = call[p].flavors /\ Alike(call[p], c)
    BY DEF Call, Alike
  <1> HIDE DEF c
  <1> QED
    BY <1>1, <1>3, <1>4, Becomes

LEMMA PlaceMoves ==
    ASSUME Records, NEW p \in Callers, call[p] \in Call, NEW pc \in Pcs,
           NEW at \in {None, "temp"},
           call' = [call EXCEPT ![p].pc = pc, ![p].at = at]
    PROVE  /\ Moves(p) /\ call'[p].pc = pc
           /\ \A x \in {"flavors", "release", "urls", "ok"} : call'[p][x] = call[p][x]
  <1> DEFINE c == [call[p] EXCEPT !.pc = pc, !.at = at]
  <1>1. call' = [call EXCEPT ![p] = c]
    OBVIOUS
  <1>2. c \in Call
    BY DEF Call
  <1>3. /\ c.pc = pc /\ Alike(call[p], c)
        /\ \A x \in {"flavors", "release", "urls", "ok"} : c[x] = call[p][x]
    BY DEF Call, Alike
  <1> HIDE DEF c
  <1> QED
    BY <1>1, <1>2, <1>3, Becomes

LEMMA FailMoves ==
    ASSUME Records, NEW p \in Callers, call[p] \in Call,
           call' = [call EXCEPT ![p].pc = "cleanup", ![p].ok = FALSE]
    PROVE  /\ Moves(p) /\ call'[p].pc = "cleanup" /\ ~call'[p].ok
           /\ call'[p].flavors = call[p].flavors /\ call'[p].release = call[p].release
  <1> DEFINE c == [call[p] EXCEPT !.pc = "cleanup", !.ok = FALSE]
  <1>1. call' = [call EXCEPT ![p] = c]
    OBVIOUS
  <1>2. c \in Call
    BY DEF Call, Pcs
  <1>3. /\ c.pc = "cleanup" /\ ~c.ok /\ Alike(call[p], c)
        /\ c.flavors = call[p].flavors /\ c.release = call[p].release
    BY DEF Call, Alike
  <1> HIDE DEF c
  <1> QED
    BY <1>1, <1>2, <1>3, Becomes

(* The records when the files that some calls have open are at another     *)
(* place.                                                                  *)
Placed(moved) ==
    /\ moved \in [Callers -> {Idle} \union Call]
    /\ \A q \in Callers :
          \/ moved[q] = call[q]
          \/ /\ call[q] \in Call /\ moved[q] \in Call
             /\ \A x \in {"parts", "did", "flavors", "pc", "core", "ask", "seen", "release",
                          "urls", "again", "left", "ok", "warned"} : moved[q][x] = call[q][x]
             /\ moved[q].sole <=> call[q].sole

LEMMA PlaceKept ==
    ASSUME NEW c \in Call, NEW to \in {"core", "gone"}, NEW d, d = [c EXCEPT !.at = to]
    PROVE  /\ d \in Call
           /\ \A x \in {"parts", "did", "flavors", "pc", "core", "ask", "seen", "release",
                        "urls", "again", "left", "ok", "warned"} : d[x] = c[x]
           /\ d.sole <=> c.sole
  BY DEF Call

LEMMA MovedPlaced ==
    ASSUME Records, NEW f, NEW from, NEW to \in {"core", "gone"}
    PROVE  Placed(Moved(f, from, to))
  <1> DEFINE moved == Moved(f, from, to)
  <1>1. \A q \in Callers : Holds(q, f, from) => call[q] \in Call
    BY Active DEF Holds, Fetching
  <1>2. moved = [q \in Callers |-> moved[q]]
    BY DEF Moved
  <1>3. ASSUME NEW q \in Callers
        PROVE  \/ moved[q] = call[q]
               \/ call[q] \in Call /\ moved[q] = [call[q] EXCEPT !.at = to]
    BY <1>1 DEF Moved
  <1> HIDE DEF moved
  <1>4. ASSUME NEW q \in Callers PROVE moved[q] \in {Idle} \union Call
    <2>1. CASE moved[q] = call[q]
      BY <2>1 DEF Records
    <2>2. CASE call[q] \in Call /\ moved[q] = [call[q] EXCEPT !.at = to]
      BY <2>2, PlaceKept
    <2> QED
      BY <1>3, <2>1, <2>2
  <1>5. moved \in [Callers -> {Idle} \union Call]
    BY <1>2, <1>4
  <1>6. Placed(moved)
    BY <1>3, <1>5, PlaceKept DEF Placed
  <1> QED
    BY <1>6 DEF moved

LEMMA InstalledPlaced ==
    ASSUME Records, NEW f
    PROVE  Placed([q \in Callers |->
                     IF Holds(q, f, "temp") THEN [call[q] EXCEPT !.at = "core"]
                     ELSE IF Holds(q, f, "core") THEN [call[q] EXCEPT !.at = "gone"]
                     ELSE call[q]])
  <1>1. \A q \in Callers : Holds(q, f, "temp") \/ Holds(q, f, "core") => call[q] \in Call
    BY Active DEF Holds, Fetching
  <1> QED
    BY <1>1, PlaceKept DEF Placed, Records

LEMMA PlacedBecomes ==
    ASSUME Records, NEW p \in Callers, call[p] \in Call, NEW c \in Call, NEW moved,
           Placed(moved), call' = [moved EXCEPT ![p] = c], Alike(call[p], c)
    PROVE  Moves(p) /\ call'[p] = c
  <1>1. Records' /\ call'[p] = c /\ \A q \in Callers \ {p} : call'[q] = moved[q]
    BY DEF Records, Placed
  <1>2. \A q \in Callers : call[q] = Idle \/ call[q] \in Call
    BY DEF Records
  <1>3. ASSUME NEW q \in Callers \ {p} PROVE Follows(q)
    <2>1. CASE moved[q] = call[q]
      BY <1>1, <1>2, <2>1 DEF Follows
    <2>2. CASE moved[q] # call[q]
      BY <1>1, <2>2 DEF Follows, Placed
    <2> QED
      BY <2>1, <2>2
  <1> QED
    BY <1>1, <1>3 DEF Moves

(* The file at the temporary path is gone, and who has it open with it.    *)
LEMMA RetryMoves ==
    ASSUME BoundsAssumption, Records, NEW p \in Callers, call[p] \in Call,
           call[p].urls > 0, NEW f,
           call' = [Moved(f, "temp", "gone") EXCEPT
                      ![p].pc = "open", ![p].urls = @ - 1, ![p].at = None]
    PROVE  /\ Moves(p) /\ call'[p].pc = "open" /\ call'[p].urls = call[p].urls - 1
           /\ call'[p].flavors = call[p].flavors /\ call'[p].release = call[p].release
  <1> DEFINE moved == Moved(f, "temp", "gone")
             c == [moved[p] EXCEPT !.pc = "open", !.urls = @ - 1, !.at = None]
  <1>1. Placed(moved)
    BY MovedPlaced
  <1> HIDE DEF moved
  <1>2. /\ moved[p] \in Call /\ Alike(call[p], moved[p])
        /\ moved[p].urls = call[p].urls /\ moved[p].flavors = call[p].flavors
        /\ moved[p].release = call[p].release
    BY <1>1 DEF Placed, Alike
  <1>3. moved[p].urls - 1 \in 0..Candidates /\ "open" \in Pcs
    <2>1. moved[p].urls \in 0..Candidates
      BY <1>2 DEF Call
    <2> QED
      BY <1>2, <2>1 DEF Pcs, BoundsAssumption
  <1>4. c \in Call
    BY <1>2, <1>3 DEF Call
  <1>5. /\ c.pc = "open" /\ c.urls = moved[p].urls - 1 /\ Alike(moved[p], c)
        /\ c.flavors = moved[p].flavors /\ c.release = moved[p].release
    BY <1>2 DEF Call, Alike
  <1>6. call' = [moved EXCEPT ![p] = c]
    BY DEF moved
  <1> HIDE DEF c
  <1>7. Alike(call[p], c)
    BY <1>2, <1>5 DEF Alike
  <1> QED
    BY <1>1, <1>2, <1>4, <1>5, <1>6, <1>7, PlacedBecomes

LEMMA InstallMoves ==
    ASSUME Records, NEW p \in Callers, call[p] \in Call, NEW moved, Placed(moved),
           call' = [moved EXCEPT ![p].pc = "cleanup"]
    PROVE  /\ Moves(p) /\ call'[p].pc = "cleanup"
           /\ call'[p].flavors = call[p].flavors /\ call'[p].release = call[p].release
           /\ call'[p].ok = call[p].ok
  <1> DEFINE c == [moved[p] EXCEPT !.pc = "cleanup"]
  <1>1. /\ moved[p] \in Call /\ Alike(call[p], moved[p])
        /\ moved[p].flavors = call[p].flavors /\ moved[p].release = call[p].release
        /\ moved[p].ok = call[p].ok
    BY DEF Placed, Alike
  <1>2. c \in Call
    BY <1>1 DEF Call, Pcs
  <1>3. /\ c.pc = "cleanup" /\ Alike(moved[p], c) /\ c.flavors = moved[p].flavors
        /\ c.release = moved[p].release /\ c.ok = moved[p].ok
    BY <1>1 DEF Call, Alike
  <1>4. call' = [moved EXCEPT ![p] = c]
    OBVIOUS
  <1> HIDE DEF c
  <1>5. Alike(call[p], c)
    BY <1>1, <1>3 DEF Alike
  <1> QED
    BY <1>1, <1>2, <1>3, <1>4, <1>5, PlacedBecomes

Cleaned(p, f, pc, retry, more) ==
    [Moved(f, "temp", "gone") EXCEPT
       ![p].pc = pc, ![p].at = None, ![p].again = @ /\ ~retry,
       ![p].flavors = IF more THEN Tail(@) ELSE @]

LEMMA CleanupMoves ==
    ASSUME Records, NEW p \in Callers, call[p] \in Call, NEW f, NEW pc \in Pcs,
           NEW retry \in BOOLEAN, NEW more \in BOOLEAN,
           more => Tail(call[p].flavors) \in Seq(Flavors),
           call' = Cleaned(p, f, pc, retry, more)
    PROVE  /\ Moves(p) /\ call'[p].pc = pc /\ call'[p].ok = call[p].ok
           /\ call'[p].flavors = IF more THEN Tail(call[p].flavors) ELSE call[p].flavors
  <1> DEFINE moved == Moved(f, "temp", "gone")
             again == moved[p].again /\ ~retry
             flavors == IF more THEN Tail(moved[p].flavors) ELSE moved[p].flavors
             c == [moved[p] EXCEPT !.pc = pc, !.at = None, !.again = again,
                                   !.flavors = flavors]
  <1>1. Placed(moved)
    BY MovedPlaced
  <1>2. call' = [moved EXCEPT ![p] = c]
    BY DEF Cleaned
  <1> HIDE DEF moved
  <1>3. /\ moved[p] \in Call /\ Alike(call[p], moved[p])
        /\ moved[p].flavors = call[p].flavors /\ moved[p].ok = call[p].ok
    BY <1>1 DEF Placed, Alike
  <1>4. again \in BOOLEAN /\ flavors \in Seq(Flavors)
    BY <1>3 DEF Call
  <1> HIDE DEF again, flavors
  <1>5. c \in Call
    BY <1>3, <1>4, Zenon DEF Call
  <1>6. c.pc = pc /\ c.ok = moved[p].ok /\ c.flavors = flavors /\ Alike(moved[p], c)
    BY <1>3, <1>4 DEF Call, Alike
  <1> HIDE DEF c
  <1>7. flavors = IF more THEN Tail(call[p].flavors) ELSE call[p].flavors
    BY <1>3 DEF flavors
  <1>8. Alike(call[p], c)
    BY <1>3, <1>6 DEF Alike
  <1> QED
    BY <1>1, <1>2, <1>3, <1>5, <1>6, <1>7, <1>8, PlacedBecomes

-----------------------------------------------------------------------------
(* The invariant.                                                          *)

(* A command does its parts in the order of a desired state.               *)
Asked(c) ==
    /\ c.parts # <<>>
    /\ \A i \in DOMAIN c.parts : c.parts[i].kind = "cores" => c.parts[i].flavors # <<>>
    /\ \A i, j \in DOMAIN c.parts : i < j => Precedes(c.parts[i], c.parts[j])
    /\ \A i \in DOMAIN c.did, j \in DOMAIN c.parts : Precedes(c.did[i].part, c.parts[j])

(* What a command is doing is part of the part that it is at.              *)
Stage(c) ==
    LET part == Head(c.parts) IN
    /\ c.pc \in {"inspect", "save"} => c.did = <<>>
    /\ c.pc \in {"save", "tell"} => c.seen \in Releases
    /\ c.pc \in {"fetch", "open", "copy", "install", "cleanup"} =>
          part.kind = "cores" /\ c.flavors # <<>>
    /\ c.pc = "copy" => c.urls > 0
    /\ c.pc \in {"open", "copy", "install", "unpack"} => c.release \in Releases
    /\ c.pc \in {"clear", "ask", "tell"} =>
          part.kind \in {"switch", "start"} \/ (part.kind = "cores" /\ part.tell)
    /\ c.pc = "switch" => part.kind = "switch"
    /\ c.pc = "start" => part.kind = "start"
    /\ c.pc = "manifest" => part.kind = "assets"
    /\ c.pc \in {"replace", "download"} => part.kind = "dashboard"
    /\ c.pc = "unpack" =>
          \/ part.kind = "assets" /\ c.left \subseteq Assets
          \/ part.kind = "dashboard" /\ c.left \subseteq DashboardFiles
    /\ c.pc \in {"check", "remove"} => part.kind = "reset"
    /\ c.pc = "remove" => c.left \subseteq ResetTargets

(* A download that has the temporary file of a core, or has had it: a     *)
(* flavor that no two have fetched together has one at most, and its       *)
(* bytes are all that file has.                                            *)
Trying(p, f) ==
    Fetching(p) /\ Flavor(p) = f /\ (call[p].pc = "open" => call[p].urls # Candidates)

Fetches(f) ==
    /\ core[f] # None => Whole(core[f])
    /\ \A p, q \in Callers : Trying(p, f) /\ Trying(q, f) => p = q
    /\ \A p \in Callers : Trying(p, f) =>
          /\ call[p].pc = "copy" => temp[f] = [from |-> {call[p].release}, by |-> p]
          /\ call[p].pc = "install" => temp[f] = [from |-> {call[p].release}, by |-> None]

Elements(s) == {s[i] : i \in DOMAIN s}
Downloaded(f) == Whole(core[f]) /\ temp[f] = None

Gone(x) ==
    CASE x = "cache" -> cache = None
      [] x = "dashboard" -> dashboard = None
      [] x = "geodata" -> assets[x] = None
      [] x = "profile" -> active = "meta"

(* How far a command has come that is alone.                               *)
Story(p) ==
    LET c == call[p]
        part == Part(p)
    IN /\ \A i \in DOMAIN c.did : Kept(p, c.did[i].part, c.did[i].release)
       /\ c.pc = "done" /\ c.ok => Kept(p, part, c.release)
       /\ c.pc \in {"fetch", "open", "copy", "install", "cleanup"} =>
             \A f \in Elements(part.flavors) \ Elements(c.flavors) : Downloaded(f)
       /\ c.pc = "copy" => temp[Flavor(p)] = [from |-> {c.release}, by |-> p]
       /\ c.pc = "install" => temp[Flavor(p)] = [from |-> {c.release}, by |-> None]
       /\ c.pc = "cleanup" /\ c.ok => Whole(core[Flavor(p)])
       /\ c.pc \in {"clear", "ask", "tell"} =>
             /\ part.kind = "cores" => \A f \in Elements(part.flavors) : Downloaded(f)
             /\ part.kind = "switch" => active = part.to
             /\ part.kind = "start" => running
       /\ c.pc = "tell" => c.seen = Release(core[c.ask])
       /\ c.pc = "unpack" /\ part.kind = "assets" =>
             \A x \in Assets \ c.left : assets[x] = c.release
       /\ c.pc \in {"download", "unpack"} /\ part.kind = "dashboard" => dashboard # None
       /\ c.pc = "unpack" /\ part.kind = "dashboard" =>
             \A x \in DashboardFiles \ c.left : dashboard[x] = c.release
       /\ c.pc = "remove" => ~running /\ \A x \in ResetTargets \ c.left : Gone(x)

Alone(p) == \A q \in Callers \ {p} : call[q] = Idle

Inv ==
    /\ TypeOK
    /\ \A p \in Callers :
          call[p] # Idle =>
              /\ Asked(call[p]) /\ Stage(call[p])
              /\ call[p].sole => Alone(p) /\ Story(p)
    /\ \A f \in Flavors \ shared : Fetches(f)

Assumptions == RequestsAssumption /\ BoundsAssumption /\ NoneAssumption

-----------------------------------------------------------------------------
(* Steps in general.                                                       *)

LEMMA Here ==
    ASSUME Inv, NEW p \in Callers, call[p].pc # "idle"
    PROVE  /\ Records /\ call[p] \in Call /\ call[p] # Idle
           /\ Asked(call[p]) /\ Stage(call[p]) /\ Part(p) \in Parts
           /\ call[p].sole => Alone(p) /\ Story(p)
  <1>1. Records /\ call[p] \in Call /\ call[p] # Idle
    BY Active, IdleOrNot DEF Inv, TypeOK, Records
  <1>2. Asked(call[p]) /\ Stage(call[p]) /\ (call[p].sole => Alone(p) /\ Story(p))
    BY <1>1 DEF Inv
  <1>3. call[p].parts \in Seq(Parts) /\ call[p].parts # <<>>
    BY <1>1, <1>2 DEF Call, Asked
  <1> QED
    BY <1>1, <1>2, <1>3 DEF Part

LEMMA AskedKept ==
    ASSUME NEW c, NEW d, Asked(c), Alike(c, d)
    PROVE  Asked(d)
  BY DEF Asked, Alike

LEMMA FollowKept ==
    ASSUME Inv, NEW q \in Callers, Follows(q), call'[q] # Idle
    PROVE  Asked(call'[q]) /\ Stage(call'[q])
  <1>1. call[q] \in Call /\ Asked(call[q]) /\ Stage(call[q])
    BY IdleOrNot DEF Follows, Inv
  <1>2. \A x \in {"parts", "did", "flavors", "pc", "seen", "release", "urls", "left"} :
           call'[q][x] = call[q][x]
    BY DEF Follows
  <1> QED
    BY <1>1, <1>2 DEF Asked, Stage

(* A step of a command, as far as the invariant asks something of it.      *)
LEMMA StepKeeps ==
    ASSUME Inv, NEW p \in Callers, Moves(p), TypeOK', Stage(call'[p]),
           call[p].sole => Story(p)',
           \A f \in Flavors \ shared' : Fetches(f)'
    PROVE  Inv'
  <1>1. call[p] # Idle /\ Asked(call[p]) /\ Asked(call'[p])
    BY IdleOrNot, AskedKept DEF Moves, Inv
  <1>2. call[p].sole => Alone(p)
    BY <1>1 DEF Inv
  <1>3. call'[p].sole = call[p].sole \/ (call'[p].sole <=> call[p].sole)
    BY DEF Moves, Alike
  <1>4. ASSUME NEW q \in Callers, call'[q] # Idle
        PROVE  /\ Asked(call'[q]) /\ Stage(call'[q])
               /\ call'[q].sole => Alone(q)' /\ Story(q)'
    <2>1. CASE q = p
      <3>1. call[p].sole => Alone(p)'
        BY <1>2, IdleOrNot DEF Moves, Follows, Alone
      <3> QED
        BY <1>1, <1>3, <2>1, <3>1
    <2>2. CASE q # p
      <3>1. Follows(q)
        BY <2>2 DEF Moves
      <3>2. call'[q].sole => call[q].sole /\ call[q] # Idle
        BY <1>4, <3>1, IdleOrNot DEF Follows
      <3>3. ~call'[q].sole
        BY <1>1, <2>2, <3>2 DEF Inv, Alone
      <3> QED
        BY <1>4, <3>1, <3>3, FollowKept
    <2> QED
      BY <2>1, <2>2
  <1> QED
    BY <1>4 DEF Inv

(* A step that leaves the cores' files alone.                              *)
LEMMA AsideFetches ==
    ASSUME Inv, NEW p \in Callers, Moves(p), UNCHANGED coreVars,
           call'[p].pc \notin {"copy", "install", "cleanup"},
           call'[p].pc = "open" => call'[p].urls = Candidates
    PROVE  \A f \in Flavors \ shared' : Fetches(f)'
  <1> SUFFICES ASSUME NEW f \in Flavors \ shared
               PROVE  Fetches(f)'
    BY DEF coreVars
  <1>1. Fetches(f)
    BY DEF Inv
  <1>2. ~Trying(p, f)'
    BY DEF Trying, Fetching
  <1>3. ASSUME NEW q \in Callers \ {p}
        PROVE  /\ Trying(q, f)' => Trying(q, f)
               /\ Trying(q, f) => call'[q].pc = call[q].pc /\ call'[q].release = call[q].release
    BY DEF Moves, Follows, Trying, Fetching, Flavor
  <1> QED
    BY <1>1, <1>2, <1>3 DEF Fetches, coreVars

LEMMA Bounded ==
    ASSUME TypeOK, BoundsAssumption, NoMishap \/ (Mishap /\ UNCHANGED <<latest, calls>>)
    PROVE  /\ (latest \in Releases)' /\ (calls \in 0..MaxCalls)'
           /\ (mishaps \in 0..MaxMishaps)' /\ latest \in Releases
  BY DEF TypeOK, BoundsAssumption, NoMishap, Mishap, Releases

(* What was done stays done while later parts are.                         *)
LEMMA KeptStays ==
    ASSUME NEW p, NEW part, NEW release, Kept(p, part, release),
           part.kind \in {"cores", "dashboard", "switch"},
           UNCHANGED <<core, temp>>, call'[p].core = call[p].core,
           part.kind = "dashboard" => dashboard' = dashboard,
           part.kind = "switch" => active' = active,
           call[p].core \in Flavors, part.kind = "switch" => part.to \in Flavors,
           cache' = cache \/ cache' = None \/ call'[p].warned \/ \A f \in Flavors : CacheTrue(f)',
           call[p].warned => call'[p].warned
    PROVE  Kept(p, part, release)'
  BY DEF Kept, CacheTrue, Whole

(* A step that begins or ends a command, or one of its parts.              *)
LEMMA EdgeKeeps ==
    ASSUME Inv, NEW p \in Callers, \A q \in Callers \ {p} : Follows(q), TypeOK',
           call[p] # Idle \/ \A q \in Callers \ {p} : call'[q] # Idle => ~call'[q].sole,
           call'[p] # Idle =>
              /\ Asked(call'[p]) /\ Stage(call'[p])
              /\ call'[p].sole => Alone(p)' /\ Story(p)',
           \A f \in Flavors \ shared' : Fetches(f)'
    PROVE  Inv'
  <1>1. ASSUME NEW q \in Callers \ {p}, call'[q] # Idle
        PROVE  Asked(call'[q]) /\ Stage(call'[q]) /\ ~call'[q].sole
    <2>1. Asked(call'[q]) /\ Stage(call'[q])
      BY <1>1, FollowKept
    <2>2. call'[q].sole => call[q].sole /\ call[q] # Idle
      BY <1>1, IdleOrNot DEF Follows
    <2>3. ~call'[q].sole
      BY <1>1, <2>2 DEF Inv, Alone
    <2> QED
      BY <2>1, <2>3
  <1> QED
    BY <1>1 DEF Inv

LEMMA DidStays ==
    ASSUME Inv, NEW p \in Callers, call[p].pc # "idle", call[p].sole, Moves(p),
           call[p].did # <<>> =>
              /\ Part(p).kind \in {"dashboard", "switch", "start"} => UNCHANGED <<core, temp>>
              /\ Part(p).kind \in {"switch", "start"} => dashboard' = dashboard
              /\ Part(p).kind = "start" => active' = active
              /\ \/ cache' = cache \/ cache' = None
                 \/ call'[p].warned \/ \A f \in Flavors : CacheTrue(f)'
    PROVE  (\A i \in DOMAIN call[p].did : Kept(p, call[p].did[i].part, call[p].did[i].release))'
  <1> SUFFICES ASSUME NEW i \in DOMAIN call[p].did, NEW part, NEW release,
                      part = call[p].did[i].part, release = call[p].did[i].release
               PROVE  Kept(p, part, release)'
    BY DEF Moves, Alike
  <1>1. /\ call[p] \in Call /\ Asked(call[p]) /\ Part(p) \in Parts
        /\ Kept(p, part, release)
    BY Here DEF Story
  <1>2. call[p].did # <<>>
    BY <1>1
  <1>3. Precedes(part, Part(p))
    <2>1. 1 \in DOMAIN call[p].parts /\ Part(p) = call[p].parts[1]
      BY <1>1 DEF Asked, Call, Part
    <2> QED
      BY <1>1, <2>1 DEF Asked
  <1>4. \/ part.kind = "cores" /\ Part(p).kind \in {"dashboard", "switch", "start"}
        \/ part.kind = "dashboard" /\ Part(p).kind \in {"switch", "start"}
        \/ part.kind = "switch" /\ Part(p).kind = "start"
    BY <1>3 DEF Precedes, Order
  <1>5. call'[p].core = call[p].core /\ (call[p].warned => call'[p].warned)
    BY DEF Moves, Alike
  <1>6. /\ call[p].core \in Flavors
        /\ part.kind = "switch" => part.to \in Flavors
    <2>1. call[p].did \in Seq(Done) /\ call[p].core \in Flavors
      BY <1>1 DEF Call
    <2>2. call[p].did[i] \in Done
      BY <2>1
    <2> QED
      BY <2>1, <2>2 DEF Done, Parts
  <1> QED
    BY <1>1, <1>2, <1>4, <1>5, <1>6, KeptStays

LEMMA AsideKeeps ==
    ASSUME Inv, NEW p \in Callers, Moves(p), UNCHANGED coreVars, TypeOK', Stage(call'[p]),
           call[p].sole => Story(p)', call'[p].pc \notin {"open", "copy", "install", "cleanup"}
    PROVE  Inv'
  BY AsideFetches, StepKeeps

(* A command that fails has the parts that it has done.                    *)
LEMMA FailureKeeps ==
    ASSUME Inv, NEW p \in Callers, call[p].pc # "idle", Moves(p), UNCHANGED coreVars, TypeOK',
           call'[p].pc = "done", ~call'[p].ok,
           call[p].did # <<>> =>
              /\ Part(p).kind \in {"switch", "start"} => dashboard' = dashboard
              /\ active' = active /\ cache' = cache
    PROVE  Inv'
  <1>1. Stage(call'[p])
    BY DEF Stage
  <1>2. ASSUME call[p].sole PROVE Story(p)'
    <2>1. (\A i \in DOMAIN call[p].did : Kept(p, call[p].did[i].part, call[p].did[i].release))'
      BY <1>2, DidStays DEF coreVars
    <2> QED
      BY <2>1 DEF Story
  <1> QED
    BY <1>1, <1>2, AsideKeeps

LEMMA WholeRelease ==
    ASSUME BoundsAssumption, NEW file \in {None} \union CoreFiles, Whole(file)
    PROVE  Release(file) \in Releases /\ file.from = {Release(file)}
  <1>1. IsFiniteSet(Releases)
    BY FS_Interval DEF Releases, BoundsAssumption
  <1>2. file.from \in SUBSET Releases /\ Cardinality(file.from) = 1
    BY DEF Whole, CoreFiles
  <1>3. IsFiniteSet(file.from)
    BY <1>1, <1>2, FS_Subset
  <1>4. PICK r : file.from = {r}
    BY <1>2, <1>3, FS_Singleton
  <1>5. Release(file) = r
    BY <1>4 DEF Release
  <1> QED
    BY <1>2, <1>4, <1>5

LEMMA OfOne ==
    ASSUME NoneAssumption, NEW r \in Releases
    PROVE  /\ [from |-> {r}, by |-> None] \in CoreFiles
           /\ Whole([from |-> {r}, by |-> None]) /\ Release([from |-> {r}, by |-> None]) = r
  <1> DEFINE file == [from |-> {r}, by |-> None]
  <1>1. Cardinality(file.from) = 1
    BY FS_Singleton
  <1>2. file \in CoreFiles /\ file # None
    BY DEF CoreFiles, NoneAssumption
  <1>3. Release(file) = r
    BY DEF Release
  <1> QED
    BY <1>1, <1>2, <1>3 DEF Whole

-----------------------------------------------------------------------------
(* The steps of the bootstrap and of the version cache.                    *)

LEMMA HeadOfParts ==
    ASSUME NEW c \in Call, Asked(c)
    PROVE  1 \in DOMAIN c.parts /\ Head(c.parts) = c.parts[1]
  BY DEF Asked, Call

LEMMA FirstPcs ==
    ASSUME NEW part, part.kind \in Kinds
    PROVE  \/ part.kind = "cores" /\ FirstPc(part) = "fetch"
           \/ part.kind = "switch" /\ FirstPc(part) = "switch"
           \/ part.kind = "assets" /\ FirstPc(part) = "manifest"
           \/ part.kind = "dashboard" /\ FirstPc(part) = "replace"
           \/ part.kind = "reset" /\ FirstPc(part) = "check"
           \/ part.kind = "start" /\ FirstPc(part) = "start"
  BY DEF Kinds, FirstPc

LEMMA MainStarts ==
    ASSUME Inv, NEW p \in Callers, call[p].pc # "idle", call[p].did = <<>>, Main(p)
    PROVE  /\ Moves(p) /\ Stage(call'[p]) /\ Story(p)'
           /\ call'[p].pc \notin {"open", "copy", "install", "cleanup"}
  <1>1. Records /\ call[p] \in Call /\ Asked(call[p]) /\ Part(p) \in Parts
    BY Here
  <1>2. /\ Moves(p) /\ call'[p].pc = FirstPc(Part(p)) /\ FirstPc(Part(p)) \in Pcs
        /\ call'[p].flavors = Part(p).flavors
    BY <1>1, MainMoves
  <1>3. call'[p].did = <<>> /\ Part(p)' = Part(p)
    BY <1>2 DEF Moves, Alike, Part
  <1>4. Part(p).kind \in Kinds /\ (Part(p).kind = "cores" => Part(p).flavors # <<>>)
    BY <1>1, HeadOfParts DEF Parts, Asked, Part
  <1>5. \/ Part(p).kind = "cores" /\ call'[p].pc = "fetch"
        \/ Part(p).kind = "switch" /\ call'[p].pc = "switch"
        \/ Part(p).kind = "assets" /\ call'[p].pc = "manifest"
        \/ Part(p).kind = "dashboard" /\ call'[p].pc = "replace"
        \/ Part(p).kind = "reset" /\ call'[p].pc = "check"
        \/ Part(p).kind = "start" /\ call'[p].pc = "start"
    BY <1>2, <1>4, FirstPcs
  <1>6. Head(call'[p].parts) = Part(p)
    BY <1>3 DEF Part
  <1>7. Stage(call'[p])
    BY <1>2, <1>4, <1>5, <1>6 DEF Stage
  <1>8. Story(p)'
    BY <1>2, <1>3, <1>5 DEF Story
  <1> QED
    BY <1>2, <1>5, <1>7, <1>8

LEMMA AsideTypes ==
    ASSUME Inv, BoundsAssumption, NoMishap \/ (Mishap /\ UNCHANGED <<latest, calls>>),
           Records', UNCHANGED coreVars, active' \in Flavors,
           cache' \in {None} \union [core : Flavors, release : Releases],
           assets' \in [Assets -> Contents],
           dashboard' \in {None} \union [DashboardFiles -> Contents], running' \in BOOLEAN
    PROVE  TypeOK'
  BY Bounded DEF Inv, TypeOK, Records, coreVars

LEMMA SameTypes ==
    ASSUME Inv
    PROVE  /\ active \in Flavors /\ cache \in {None} \union [core : Flavors, release : Releases]
           /\ assets \in [Assets -> Contents] /\ running \in BOOLEAN
           /\ dashboard \in {None} \union [DashboardFiles -> Contents]
           /\ core \in [Flavors -> {None} \union CoreFiles]
           /\ temp \in [Flavors -> {None} \union CoreFiles]
           /\ latest \in Releases
  BY DEF Inv, TypeOK

LEMMA InspectKeeps ==
    ASSUME Assumptions, Inv, NEW p \in Callers, Inspect(p)
    PROVE  Inv'
  <1>1. /\ Records /\ call[p] \in Call /\ Asked(call[p]) /\ Stage(call[p]) /\ Part(p) \in Parts
        /\ call[p].pc = "inspect" /\ call[p].did = <<>>
    BY Here DEF Inspect, Stage
  <1>2. CASE Main(p)
    <2>1. /\ Moves(p) /\ Stage(call'[p]) /\ Story(p)'
          /\ call'[p].pc \notin {"open", "copy", "install", "cleanup"}
      BY <1>1, <1>2, MainStarts
    <2>2. TypeOK'
      BY <2>1, AsideTypes, SameTypes DEF Inspect, Assumptions, Moves, treeVars
    <2>3. \A f \in Flavors \ shared' : Fetches(f)'
      BY <2>1, AsideFetches DEF Inspect
    <2> QED
      BY <2>1, <2>2, <2>3, StepKeeps
  <1>3. CASE ~Main(p)
    <2> DEFINE file == core[call[p].core]
    <2>1. /\ Whole(file)
          /\ call' = [call EXCEPT ![p].pc = "save", ![p].seen = Release(file)]
      BY <1>3 DEF Inspect
    <2>2. Release(file) \in Releases /\ "save" \in Pcs
      <3>1. file \in {None} \union CoreFiles
        BY <1>1, SameTypes DEF Call
      <3> QED
        BY <2>1, <3>1, WholeRelease DEF Assumptions, Pcs
    <2> HIDE DEF file
    <2>3. /\ Moves(p) /\ call'[p].pc = "save" /\ call'[p].seen \in Releases
      BY <1>1, <2>1, <2>2, SeenMoves
    <2>4. call'[p].did = <<>>
      BY <1>1, <2>3 DEF Moves, Alike
    <2>5. Stage(call'[p]) /\ Story(p)'
      BY <2>3, <2>4 DEF Stage, Story
    <2>6. TypeOK'
      BY <2>3, AsideTypes, SameTypes DEF Inspect, Assumptions, Moves, treeVars
    <2>7. \A f \in Flavors \ shared' : Fetches(f)'
      BY <2>3, AsideFetches DEF Inspect
    <2> QED
      BY <2>3, <2>5, <2>6, <2>7, StepKeeps
  <1> QED
    BY <1>2, <1>3

LEMMA SaveCacheKeeps ==
    ASSUME Assumptions, Inv, NEW p \in Callers, SaveCache(p)
    PROVE  Inv'
  <1>1. /\ call[p] \in Call /\ Stage(call[p])
        /\ call[p].pc = "save" /\ call[p].did = <<>> /\ call[p].seen \in Releases
    BY Here DEF SaveCache, Stage
  <1>2. /\ Moves(p) /\ Stage(call'[p]) /\ Story(p)'
        /\ call'[p].pc \notin {"open", "copy", "install", "cleanup"}
    BY <1>1, MainStarts DEF SaveCache
  <1>3. TypeOK'
    <2>1. cache' \in {None} \union [core : Flavors, release : Releases]
      BY <1>1, SameTypes DEF SaveCache, Call
    <2> QED
      BY <1>2, <2>1, AsideTypes, SameTypes DEF SaveCache, Assumptions, Moves
  <1>4. \A f \in Flavors \ shared' : Fetches(f)'
    BY <1>2, AsideFetches DEF SaveCache
  <1> QED
    BY <1>2, <1>3, <1>4, StepKeeps

LEMMA SwitchKeeps ==
    ASSUME Assumptions, Inv, NEW p \in Callers, Switch(p)
    PROVE  Inv'
  <1>1. /\ Records /\ call[p] \in Call /\ Asked(call[p]) /\ Stage(call[p]) /\ Part(p) \in Parts
        /\ call[p].pc = "switch" /\ Part(p).kind = "switch"
    BY Here DEF Switch, Stage, Part
  <1>2. Part(p).to \in Flavors
    BY <1>1 DEF Parts
  <1>3. CASE /\ active' = Part(p).to
             /\ call' = [call EXCEPT ![p].pc = "clear", ![p].ask = Part(p).to]
    <2>1. Moves(p) /\ call'[p].pc = "clear"
      BY <1>1, <1>2, <1>3, AskMoves
    <2>2. Part(p)' = Part(p) /\ Head(call'[p].parts) = Part(p)
      BY <2>1 DEF Moves, Alike, Part
    <2>3. Stage(call'[p])
      BY <1>1, <2>1, <2>2 DEF Stage
    <2>4. ASSUME call[p].sole PROVE Story(p)'
      <3>1. (\A i \in DOMAIN call[p].did : Kept(p, call[p].did[i].part, call[p].did[i].release))'
        BY <1>1, <2>1, <2>4, DidStays DEF Switch, coreVars
      <3> QED
        BY <1>1, <1>3, <2>1, <2>2, <3>1 DEF Story
    <2>5. TypeOK'
      BY <1>2, <1>3, <2>1, AsideTypes, SameTypes DEF Switch, Assumptions, Moves
    <2>6. \A f \in Flavors \ shared' : Fetches(f)'
      BY <2>1, AsideFetches DEF Switch
    <2> QED
      BY <2>1, <2>3, <2>4, <2>5, <2>6, StepKeeps
  <1>4. CASE Answer(p, FALSE) /\ active' = active
    <2>1. Moves(p) /\ call'[p].pc = "done" /\ ~call'[p].ok
      BY <1>1, <1>4, AnswerMoves
    <2>2. TypeOK'
      BY <1>4, <2>1, AsideTypes, SameTypes DEF Switch, Assumptions, Moves
    <2> QED
      BY <1>1, <1>4, <2>1, <2>2, FailureKeeps DEF Switch
  <1> QED
    BY <1>3, <1>4 DEF Switch

LEMMA ClearCacheKeeps ==
    ASSUME Assumptions, Inv, NEW p \in Callers, ClearCache(p)
    PROVE  Inv'
  <1>1. /\ Records /\ call[p] \in Call /\ Stage(call[p]) /\ call[p].pc = "clear"
    BY Here DEF ClearCache
  <1>2. /\ Moves(p) /\ call'[p].pc = "ask"
        /\ \A x \in {"flavors", "ask", "seen", "release", "urls", "left", "ok"} :
              call'[p][x] = call[p][x]
    BY <1>1, GotoMoves DEF ClearCache, Pcs
  <1>3. Part(p)' = Part(p) /\ Head(call'[p].parts) = Part(p)
    BY <1>2 DEF Moves, Alike, Part
  <1>4. Stage(call'[p])
    BY <1>1, <1>2, <1>3 DEF Stage, Part
  <1>5. ASSUME call[p].sole PROVE Story(p)'
    <2>1. (\A i \in DOMAIN call[p].did : Kept(p, call[p].did[i].part, call[p].did[i].release))'
      BY <1>1, <1>2, <1>5, DidStays DEF ClearCache, coreVars
    <2>2. Story(p)
      BY <1>1, <1>5, Here
    <2> QED
      BY <1>1, <1>2, <1>3, <2>1, <2>2
      DEF Story, ClearCache, coreVars, Downloaded, Whole
  <1>6. TypeOK'
    BY <1>2, AsideTypes, SameTypes DEF ClearCache, Assumptions, Moves
  <1>7. \A f \in Flavors \ shared' : Fetches(f)'
    BY <1>2, AsideFetches DEF ClearCache
  <1> QED
    BY <1>2, <1>4, <1>5, <1>6, <1>7, StepKeeps

(* A part that ends with a refresh has done what it answers, once the cache *)
(* says nothing that is not so or the command has a warning.               *)
LEMMA Refreshed ==
    ASSUME Inv, NEW p \in Callers, call[p].pc \in {"ask", "tell"}, Story(p), Moves(p),
           UNCHANGED <<core, temp, active, running>>,
           call'[p].warned \/ \A f \in Flavors : CacheTrue(f)'
    PROVE  Kept(p, Part(p), call[p].release)'
  <1>1. call[p] \in Call /\ Stage(call[p]) /\ call[p].core \in Flavors /\ active \in Flavors
    BY Here, SameTypes DEF Call
  <1>2. Part(p)' = Part(p) /\ call'[p].core = call[p].core /\ Part(p) = Head(call[p].parts)
    BY DEF Moves, Alike, Part
  <1>3. \/ /\ Part(p).kind = "cores"
           /\ \A f \in Elements(Part(p).flavors) : Downloaded(f)
        \/ Part(p).kind = "switch" /\ active = Part(p).to
        \/ Part(p).kind = "start" /\ running
    BY <1>1, <1>2 DEF Stage, Story
  <1>4. CASE Part(p).kind = "cores"
    <2>1. \A f \in Elements(Part(p).flavors) : Whole(core[f]) /\ temp[f] = None
      BY <1>3, <1>4 DEF Downloaded
    <2> QED
      <3>1. \A f \in Elements(Part(p).flavors) : (Whole(core[f]) /\ temp[f] = None)'
        BY <2>1 DEF Whole
      <3>2. (call[p].warned \/ CacheTrue(call[p].core))'
        BY <1>1, <1>2
      <3> QED
        BY <1>2, <1>4, <3>1, <3>2 DEF Kept, Elements
  <1>5. CASE Part(p).kind = "switch"
    BY <1>1, <1>2, <1>3, <1>5 DEF Kept
  <1>6. CASE Part(p).kind = "start"
    BY <1>1, <1>2, <1>3, <1>6 DEF Kept
  <1> QED
    BY <1>3, <1>4, <1>5, <1>6

LEMMA AskCoreKeeps ==
    ASSUME Assumptions, Inv, NEW p \in Callers, AskCore(p)
    PROVE  Inv'
  <1> DEFINE file == core[call[p].ask]
  <1>1. /\ Records /\ call[p] \in Call /\ Stage(call[p]) /\ call[p].pc = "ask"
        /\ UNCHANGED coreVars /\ UNCHANGED treeVars
    BY Here DEF AskCore
  <1>2. Whole(file) => Release(file) \in Releases
    BY <1>1, SameTypes, WholeRelease DEF Assumptions, Call
  <1>3. CASE Whole(file) /\ call' = [call EXCEPT ![p].pc = "tell", ![p].seen = Release(file)]
    <2> HIDE DEF file
    <2>1. /\ Moves(p) /\ call'[p].pc = "tell" /\ call'[p].seen = Release(file)
          /\ call'[p].ask = call[p].ask
      <3>1. "tell" \in Pcs /\ Release(file) \in Releases
        BY <1>2, <1>3 DEF Pcs
      <3>2. Records /\ call[p] \in Call
        BY <1>1
      <3> QED
        BY <1>3, <3>1, <3>2, SeenMoves
    <2>2. Part(p)' = Part(p) /\ Head(call'[p].parts) = Part(p)
      BY <2>1 DEF Moves, Alike, Part
    <2>3. Stage(call'[p])
      BY <1>1, <1>2, <1>3, <2>1, <2>2 DEF Stage, Part
    <2>4. ASSUME call[p].sole PROVE Story(p)'
      <3>1. (\A i \in DOMAIN call[p].did : Kept(p, call[p].did[i].part, call[p].did[i].release))'
        BY <1>1, <2>1, <2>4, DidStays DEF coreVars, treeVars
      <3>2. Story(p)
        BY <1>1, <2>4, Here
      <3> QED
        BY <1>1, <2>1, <2>2, <3>1, <3>2
        DEF Story, coreVars, treeVars, Downloaded, Whole, file
    <2>5. TypeOK'
      BY <1>1, <2>1, AsideTypes, SameTypes DEF AskCore, Assumptions, Moves, treeVars
    <2>6. \A f \in Flavors \ shared' : Fetches(f)'
      BY <1>1, <2>1, AsideFetches
    <2> QED
      BY <2>1, <2>3, <2>4, <2>5, <2>6, StepKeeps
  <1>4. CASE Warn(p)
    <2>1. Moves(p) /\ call'[p].pc = "done" /\ call'[p].warned
      BY <1>1, <1>4, WarnMoves
    <2>2. Stage(call'[p])
      BY <2>1 DEF Stage
    <2>3. ASSUME call[p].sole PROVE Story(p)'
      <3>1. (\A i \in DOMAIN call[p].did : Kept(p, call[p].did[i].part, call[p].did[i].release))'
        BY <1>1, <2>1, <2>3, DidStays DEF coreVars, treeVars
      <3>2. Story(p)
        BY <1>1, <2>3, Here
      <3>3. Kept(p, Part(p), call[p].release)'
        BY <1>1, <2>1, <3>2, Refreshed DEF coreVars, treeVars
      <3> QED
        BY <2>1, <3>1, <3>3 DEF Story
    <2>4. TypeOK'
      BY <1>1, <2>1, AsideTypes, SameTypes DEF AskCore, Assumptions, Moves, treeVars
    <2>5. \A f \in Flavors \ shared' : Fetches(f)'
      BY <1>1, <2>1, AsideFetches
    <2> QED
      BY <2>1, <2>2, <2>3, <2>4, <2>5, StepKeeps
  <1> QED
    BY <1>3, <1>4 DEF AskCore

LEMMA TellCacheKeeps ==
    ASSUME Assumptions, Inv, NEW p \in Callers, TellCache(p)
    PROVE  Inv'
  <1>1. /\ Records /\ call[p] \in Call /\ Stage(call[p]) /\ call[p].pc = "tell"
        /\ call[p].seen \in Releases /\ call[p].ask \in Flavors
    BY Here DEF TellCache, Stage, Call
  <1>2. /\ Moves(p) /\ call'[p].pc = "done"
        /\ call'[p].warned \/ cache' = [core |-> call[p].ask, release |-> call[p].seen]
    BY <1>1, AnswerMoves, WarnMoves DEF TellCache
  <1>3. Stage(call'[p])
    BY <1>2 DEF Stage
  <1>4. ASSUME call[p].sole PROVE Story(p)'
    <2>1. Story(p)
      BY <1>1, <1>4, Here
    <2>2. call'[p].warned \/ \A f \in Flavors : CacheTrue(f)'
      BY <1>1, <1>2, <2>1 DEF Story, CacheTrue, TellCache, coreVars
    <2>3. (\A i \in DOMAIN call[p].did : Kept(p, call[p].did[i].part, call[p].did[i].release))'
      BY <1>1, <1>2, <1>4, <2>2, DidStays DEF TellCache, coreVars
    <2>4. Kept(p, Part(p), call[p].release)'
      BY <1>1, <1>2, <2>1, <2>2, Refreshed DEF TellCache, coreVars
    <2> QED
      BY <1>2, <2>3, <2>4 DEF Story
  <1>5. TypeOK'
    <2>1. cache \in {None} \union [core : Flavors, release : Releases]
      BY SameTypes
    <2>2. cache' = cache \/ cache' = [core |-> call[p].ask, release |-> call[p].seen]
      BY DEF TellCache
    <2>3. cache' \in {None} \union [core : Flavors, release : Releases]
      BY <1>1, <2>1, <2>2
    <2> QED
      BY <1>2, <2>3, AsideTypes, SameTypes DEF TellCache, Assumptions, Moves
  <1>6. \A f \in Flavors \ shared' : Fetches(f)'
    BY <1>2, AsideFetches DEF TellCache
  <1> QED
    BY <1>2, <1>3, <1>4, <1>5, <1>6, StepKeeps

-----------------------------------------------------------------------------
(* The steps of the base assets.                                           *)

LEMMA NothingDone ==
    ASSUME Inv, NEW p \in Callers, call[p].pc # "idle",
           Part(p).kind \in {"cores", "assets", "reset"}
    PROVE  call[p].did = <<>>
  <1>1. call[p] \in Call /\ Asked(call[p])
    BY Here
  <1>2. 1 \in DOMAIN call[p].parts /\ Part(p) = call[p].parts[1]
    BY <1>1, HeadOfParts DEF Part
  <1>3. ASSUME call[p].did # <<>> PROVE FALSE
    <2>1. 1 \in DOMAIN call[p].did
      BY <1>1, <1>3 DEF Call
    <2>2. Precedes(call[p].did[1].part, Part(p))
      BY <1>1, <1>2, <2>1 DEF Asked
    <2> QED
      BY <2>2 DEF Precedes, Order
  <1> QED
    BY <1>3

LEMMA FetchAssetsKeeps ==
    ASSUME Assumptions, Inv, NEW p \in Callers, FetchAssets(p)
    PROVE  Inv'
  <1>1. /\ Records /\ call[p] \in Call /\ Stage(call[p]) /\ call[p].pc = "manifest"
        /\ Part(p).kind = "assets" /\ call[p].did = <<>>
    BY Here, NothingDone DEF FetchAssets, Stage, Part
  <1>2. CASE call' = [call EXCEPT ![p].pc = "unpack", ![p].release = latest, ![p].left = Assets]
    <2>1. /\ Moves(p) /\ call'[p].pc = "unpack"
          /\ call'[p].release = latest /\ call'[p].left = Assets
      BY <1>1, <1>2, SameTypes, UnpackMoves
    <2>2. Part(p)' = Part(p) /\ Head(call'[p].parts) = Part(p) /\ call'[p].did = <<>>
      BY <1>1, <2>1 DEF Moves, Alike, Part
    <2>3. Stage(call'[p]) /\ Story(p)'
      BY <1>1, <2>1, <2>2, SameTypes DEF Stage, Story
    <2>4. TypeOK'
      BY <2>1, AsideTypes, SameTypes DEF FetchAssets, Assumptions, Moves, treeVars
    <2> QED
      BY <2>1, <2>3, <2>4, AsideKeeps DEF FetchAssets
  <1>3. CASE Answer(p, FALSE)
    <2>1. Moves(p) /\ call'[p].pc = "done" /\ ~call'[p].ok
      BY <1>1, <1>3, AnswerMoves
    <2>2. TypeOK'
      BY <2>1, AsideTypes, SameTypes DEF FetchAssets, Assumptions, Moves, treeVars
    <2> QED
      BY <1>1, <2>1, <2>2, FailureKeeps DEF FetchAssets
  <1> QED
    BY <1>2, <1>3 DEF FetchAssets

LEMMA UnpackAssetKeeps ==
    ASSUME Assumptions, Inv, NEW p \in Callers, UnpackAsset(p)
    PROVE  Inv'
  <1>1. /\ Records /\ call[p] \in Call /\ Stage(call[p]) /\ call[p].pc = "unpack"
        /\ Part(p).kind = "assets" /\ call[p].did = <<>> /\ call[p].release \in Releases
        /\ call[p].left \subseteq Assets /\ Head(call[p].parts) = Part(p)
    BY Here, NothingDone DEF UnpackAsset, Stage, Part, Is
  <1>2. PICK x \in call[p].left :
          \/ /\ assets' = [assets EXCEPT ![x] = call[p].release]
             /\ call' = [call EXCEPT ![p].left = @ \ {x}]
             /\ NoMishap
          \/ /\ assets' = [assets EXCEPT ![x] = Torn]
             /\ Answer(p, FALSE)
             /\ Mishap /\ UNCHANGED <<latest, calls>>
    BY DEF UnpackAsset
  <1>3. /\ x \in Assets /\ call[p].release \in Contents /\ Torn \in Contents
        /\ UNCHANGED coreVars /\ UNCHANGED <<active, cache, dashboard, running>>
    BY <1>1, <1>2 DEF Contents, UnpackAsset
  <1>4. assets' \in [Assets -> Contents]
    BY <1>2, <1>3, SameTypes
  <1>5. CASE /\ assets' = [assets EXCEPT ![x] = call[p].release]
             /\ call' = [call EXCEPT ![p].left = @ \ {x}]
             /\ NoMishap
    <2> DEFINE left == call[p].left \ {x}
    <2>3. /\ Moves(p) /\ call'[p].pc = "unpack" /\ call'[p].left = left
          /\ call'[p].release = call[p].release
      BY <1>1, <1>5, LessLeftMoves
    <2>4. Part(p)' = Part(p) /\ Head(call'[p].parts) = Part(p) /\ call'[p].did = <<>>
      BY <1>1, <2>3 DEF Moves, Alike, Part
    <2>5. Stage(call'[p])
      BY <1>1, <2>3, <2>4 DEF Stage
    <2>6. ASSUME call[p].sole PROVE Story(p)'
      <3>1. \A y \in Assets \ call[p].left : assets[y] = call[p].release
        BY <1>1, <2>6, Here DEF Story
      <3>2. \A y \in Assets \ left : assets'[y] = call[p].release
        BY <1>5, <3>1, SameTypes
      <3> QED
        BY <1>1, <2>3, <2>4, <3>2 DEF Story
    <2>7. TypeOK'
      BY <1>3, <1>4, <1>5, <2>3, AsideTypes, SameTypes DEF Assumptions, Moves
    <2> QED
      BY <1>3, <2>3, <2>5, <2>6, <2>7, AsideKeeps
  <1>6. CASE Answer(p, FALSE) /\ Mishap /\ UNCHANGED <<latest, calls>>
    <2>1. Moves(p) /\ call'[p].pc = "done" /\ ~call'[p].ok
      BY <1>1, <1>6, AnswerMoves
    <2>2. TypeOK'
      BY <1>3, <1>4, <1>6, <2>1, AsideTypes, SameTypes DEF Assumptions, Moves
    <2> QED
      BY <1>1, <1>3, <2>1, <2>2, FailureKeeps
  <1> QED
    BY <1>2, <1>5, <1>6

LEMMA AssetsStatusKeeps ==
    ASSUME Assumptions, Inv, NEW p \in Callers, AssetsStatus(p)
    PROVE  Inv'
  <1> DEFINE ok == \A x \in Assets : assets[x] # None
  <1>1. /\ Records /\ call[p] \in Call /\ Stage(call[p]) /\ call[p].pc = "unpack"
        /\ Part(p).kind = "assets" /\ call[p].did = <<>> /\ call[p].left = {}
    BY Here, NothingDone DEF AssetsStatus, Is
  <1>2. ok \in BOOLEAN /\ Answer(p, ok)
    BY DEF AssetsStatus
  <1> HIDE DEF ok
  <1>3. Moves(p) /\ call'[p].pc = "done" /\ call'[p].release = call[p].release
    BY <1>1, <1>2, AnswerMoves
  <1>4. Part(p)' = Part(p) /\ call'[p].did = <<>>
    BY <1>1, <1>3 DEF Moves, Alike, Part
  <1>5. Stage(call'[p])
    BY <1>3 DEF Stage
  <1>6. ASSUME call[p].sole PROVE Story(p)'
    <2>1. \A x \in Assets : assets[x] = call[p].release
      BY <1>1, <1>6, Here DEF Story
    <2>2. Kept(p, Part(p), call[p].release)'
      BY <1>1, <1>3, <1>4, <2>1 DEF Kept, AssetsStatus, treeVars
    <2> QED
      BY <1>3, <1>4, <2>2 DEF Story
  <1>7. TypeOK'
    BY <1>3, AsideTypes, SameTypes DEF AssetsStatus, Assumptions, Moves, treeVars
  <1> QED
    BY <1>3, <1>5, <1>6, <1>7, AsideKeeps DEF AssetsStatus

-----------------------------------------------------------------------------
(* The steps of the dashboard.                                             *)

LEMMA Directories ==
    ASSUME NoneAssumption, NEW tree, tree \in [DashboardFiles -> Contents],
           NEW x \in DashboardFiles, NEW c \in Contents
    PROVE  /\ NoDashboard \in [DashboardFiles -> Contents] /\ NoDashboard # None
           /\ [tree EXCEPT ![x] = c] \in [DashboardFiles -> Contents]
           /\ [tree EXCEPT ![x] = c] # None
  <1>1. NoDashboard \in [DashboardFiles -> Contents]
    BY DEF NoDashboard, Contents
  <1>2. [tree EXCEPT ![x] = c] \in [DashboardFiles -> Contents]
    OBVIOUS
  <1> QED
    BY <1>1, <1>2 DEF NoneAssumption

LEMMA FallBackKeeps ==
    ASSUME Inv, NEW p \in Callers, call[p].pc # "idle", Part(p).kind = "dashboard", FallBack(p),
           Moves(p) => TypeOK', UNCHANGED coreVars, UNCHANGED <<active, cache>>
    PROVE  Inv'
  <1>1. Records /\ call[p] \in Call
    BY Here
  <1>2. /\ Moves(p)
        /\ call'[p].pc = "replace" \/ (call'[p].pc = "done" /\ ~call'[p].ok)
    BY <1>1, FallBackMoves
  <1>3. CASE call'[p].pc = "replace"
    <2>1. Part(p)' = Part(p) /\ Head(call'[p].parts) = Part(p)
      BY <1>2 DEF Moves, Alike, Part
    <2>2. Stage(call'[p])
      BY <1>3, <2>1 DEF Stage
    <2>3. ASSUME call[p].sole PROVE Story(p)'
      <3>1. (\A i \in DOMAIN call[p].did : Kept(p, call[p].did[i].part, call[p].did[i].release))'
        BY <1>2, <2>3, DidStays DEF coreVars
      <3> QED
        BY <1>3, <3>1 DEF Story
    <2> QED
      BY <1>2, <1>3, <2>2, <2>3, AsideKeeps
  <1>4. CASE call'[p].pc = "done" /\ ~call'[p].ok
    BY <1>2, <1>4, FailureKeeps
  <1> QED
    BY <1>2, <1>3, <1>4

LEMMA ReplaceDashboardKeeps ==
    ASSUME Assumptions, Inv, NEW p \in Callers, ReplaceDashboard(p)
    PROVE  Inv'
  <1>1. /\ Records /\ call[p] \in Call /\ Stage(call[p]) /\ call[p].pc = "replace"
        /\ Part(p).kind = "dashboard"
    BY Here DEF ReplaceDashboard, Stage, Part
  <1>2. CASE FallBack(p) /\ UNCHANGED dashboard
    <2>1. Moves(p) => TypeOK'
      BY <1>2, AsideTypes, SameTypes DEF ReplaceDashboard, Assumptions, Moves
    <2> QED
      BY <1>1, <1>2, <2>1, FallBackKeeps DEF ReplaceDashboard
  <1>3. CASE Goto(p, "download") /\ dashboard' = NoDashboard
    <2>1. Moves(p) /\ call'[p].pc = "download"
      BY <1>1, <1>3, GotoMoves DEF Pcs
    <2>2. Part(p)' = Part(p) /\ Head(call'[p].parts) = Part(p)
      BY <2>1 DEF Moves, Alike, Part
    <2>3. Stage(call'[p])
      BY <1>1, <2>1, <2>2 DEF Stage
    <2>4. dashboard' \in [DashboardFiles -> Contents] /\ dashboard' # None
      <3>1. NoDashboard \in [DashboardFiles -> Contents]
        BY DEF NoDashboard, Contents
      <3> QED
        BY <1>3, <3>1 DEF Assumptions, NoneAssumption
    <2>5. ASSUME call[p].sole PROVE Story(p)'
      <3>1. (\A i \in DOMAIN call[p].did : Kept(p, call[p].did[i].part, call[p].did[i].release))'
        BY <1>1, <2>1, <2>5, DidStays DEF ReplaceDashboard, coreVars
      <3> QED
        BY <1>1, <2>1, <2>2, <2>4, <3>1 DEF Story
    <2>6. TypeOK'
      BY <2>1, <2>4, AsideTypes, SameTypes DEF ReplaceDashboard, Assumptions, Moves
    <2> QED
      BY <2>1, <2>3, <2>5, <2>6, AsideKeeps DEF ReplaceDashboard
  <1> QED
    BY <1>2, <1>3 DEF ReplaceDashboard

LEMMA DownloadDashboardKeeps ==
    ASSUME Assumptions, Inv, NEW p \in Callers, DownloadDashboard(p)
    PROVE  Inv'
  <1>1. /\ Records /\ call[p] \in Call /\ Stage(call[p]) /\ call[p].pc = "download"
        /\ Part(p).kind = "dashboard"
    BY Here DEF DownloadDashboard, Stage, Part
  <1>2. CASE call' = [call EXCEPT ![p].pc = "unpack", ![p].release = latest,
                                  ![p].left = DashboardFiles]
    <2>1. /\ Moves(p) /\ call'[p].pc = "unpack"
          /\ call'[p].release = latest /\ call'[p].left = DashboardFiles
      BY <1>1, <1>2, SameTypes, UnpackMoves
    <2>2. Part(p)' = Part(p) /\ Head(call'[p].parts) = Part(p)
      BY <2>1 DEF Moves, Alike, Part
    <2>3. Stage(call'[p])
      BY <1>1, <2>1, <2>2, SameTypes DEF Stage
    <2>4. ASSUME call[p].sole PROVE Story(p)'
      <3>1. (\A i \in DOMAIN call[p].did : Kept(p, call[p].did[i].part, call[p].did[i].release))'
        BY <1>1, <2>1, <2>4, DidStays DEF DownloadDashboard, coreVars, treeVars
      <3>2. dashboard # None
        BY <1>1, <2>4, Here DEF Story
      <3> QED
        BY <1>1, <2>1, <2>2, <3>1, <3>2 DEF Story, DownloadDashboard, treeVars
    <2>5. TypeOK'
      BY <2>1, AsideTypes, SameTypes DEF DownloadDashboard, Assumptions, Moves, treeVars
    <2> QED
      BY <2>1, <2>3, <2>4, <2>5, AsideKeeps DEF DownloadDashboard
  <1>3. CASE FallBack(p)
    <2>1. Moves(p) => TypeOK'
      BY <1>3, AsideTypes, SameTypes DEF DownloadDashboard, Assumptions, Moves, treeVars
    <2> QED
      BY <1>1, <1>3, <2>1, FallBackKeeps DEF DownloadDashboard, treeVars
  <1> QED
    BY <1>2, <1>3 DEF DownloadDashboard

LEMMA UnpackDashboardKeeps ==
    ASSUME Assumptions, Inv, NEW p \in Callers, UnpackDashboard(p)
    PROVE  Inv'
  <1> DEFINE tree == IF dashboard = None THEN NoDashboard ELSE dashboard
  <1>1. /\ Records /\ call[p] \in Call /\ Stage(call[p]) /\ call[p].pc = "unpack"
        /\ Part(p).kind = "dashboard" /\ call[p].release \in Releases
        /\ call[p].left \subseteq DashboardFiles /\ Head(call[p].parts) = Part(p)
    BY Here DEF UnpackDashboard, Stage, Part, Is
  <1>2. PICK x \in call[p].left :
          \/ /\ dashboard' = [tree EXCEPT ![x] = call[p].release]
             /\ call' = [call EXCEPT ![p].left = @ \ {x}]
             /\ NoMishap
          \/ /\ dashboard' = [tree EXCEPT ![x] = Torn]
             /\ FallBack(p)
             /\ Mishap /\ UNCHANGED <<latest, calls>>
    BY DEF UnpackDashboard
  <1>3. /\ x \in DashboardFiles /\ call[p].release \in Contents /\ Torn \in Contents
        /\ UNCHANGED coreVars /\ UNCHANGED <<active, cache, assets, running>>
    BY <1>1, <1>2 DEF Contents, UnpackDashboard
  <1>4. tree \in [DashboardFiles -> Contents]
    BY SameTypes DEF NoDashboard, Contents
  <1>5. dashboard' \in [DashboardFiles -> Contents] /\ dashboard' # None
    <2> HIDE DEF tree
    <2> QED
      BY <1>2, <1>3, <1>4, Directories DEF Assumptions
  <1>6. CASE /\ dashboard' = [tree EXCEPT ![x] = call[p].release]
             /\ call' = [call EXCEPT ![p].left = @ \ {x}]
             /\ NoMishap
    <2> DEFINE left == call[p].left \ {x}
    <2>1. /\ Moves(p) /\ call'[p].pc = "unpack" /\ call'[p].left = left
          /\ call'[p].release = call[p].release
      BY <1>1, <1>6, LessLeftMoves
    <2>2. Part(p)' = Part(p) /\ Head(call'[p].parts) = Part(p)
      BY <1>1, <2>1 DEF Moves, Alike, Part
    <2>3. Stage(call'[p])
      BY <1>1, <2>1, <2>2 DEF Stage
    <2>4. ASSUME call[p].sole PROVE Story(p)'
      <3>1. (\A i \in DOMAIN call[p].did : Kept(p, call[p].did[i].part, call[p].did[i].release))'
        BY <1>1, <1>3, <2>1, <2>4, DidStays DEF coreVars
      <3>2. /\ dashboard # None
            /\ \A y \in DashboardFiles \ call[p].left : dashboard[y] = call[p].release
        BY <1>1, <2>4, Here DEF Story
      <3>3. \A y \in DashboardFiles \ left : dashboard'[y] = call[p].release
        BY <1>6, <1>4, <3>2
      <3> QED
        BY <1>1, <1>5, <2>1, <2>2, <3>1, <3>3 DEF Story
    <2>5. TypeOK'
      BY <1>3, <1>5, <1>6, <2>1, AsideTypes, SameTypes DEF Assumptions, Moves
    <2> QED
      BY <1>3, <2>1, <2>3, <2>4, <2>5, AsideKeeps
  <1>7. CASE FallBack(p) /\ Mishap /\ UNCHANGED <<latest, calls>>
    <2>1. Moves(p) => TypeOK'
      BY <1>3, <1>5, <1>7, AsideTypes, SameTypes DEF Assumptions, Moves
    <2> QED
      BY <1>1, <1>3, <1>7, <2>1, FallBackKeeps
  <1> QED
    BY <1>2, <1>6, <1>7

LEMMA VerifyDashboardKeeps ==
    ASSUME Assumptions, Inv, NEW p \in Callers, VerifyDashboard(p)
    PROVE  Inv'
  <1>1. /\ Records /\ call[p] \in Call /\ Stage(call[p]) /\ call[p].pc = "unpack"
        /\ Part(p).kind = "dashboard" /\ call[p].left = {}
    BY Here DEF VerifyDashboard, Is
  <1>2. CASE Answer(p, TRUE)
    <2>1. Moves(p) /\ call'[p].pc = "done" /\ call'[p].release = call[p].release
      BY <1>1, <1>2, AnswerMoves
    <2>2. Part(p)' = Part(p)
      BY <2>1 DEF Moves, Alike, Part
    <2>3. Stage(call'[p])
      BY <2>1 DEF Stage
    <2>4. ASSUME call[p].sole PROVE Story(p)'
      <3>1. (\A i \in DOMAIN call[p].did : Kept(p, call[p].did[i].part, call[p].did[i].release))'
        BY <1>1, <2>1, <2>4, DidStays DEF VerifyDashboard, coreVars, treeVars
      <3>2. \A y \in DashboardFiles : dashboard[y] = call[p].release
        BY <1>1, <2>4, Here DEF Story
      <3>3. Kept(p, Part(p), call[p].release)'
        BY <1>1, <2>1, <2>2, <3>2 DEF Kept, VerifyDashboard, treeVars
      <3> QED
        BY <2>1, <3>1, <3>3 DEF Story
    <2>5. TypeOK'
      BY <2>1, AsideTypes, SameTypes DEF VerifyDashboard, Assumptions, Moves, treeVars
    <2> QED
      BY <2>1, <2>3, <2>4, <2>5, AsideKeeps DEF VerifyDashboard
  <1>3. CASE FallBack(p)
    <2>1. Moves(p) => TypeOK'
      BY <1>3, AsideTypes, SameTypes DEF VerifyDashboard, Assumptions, Moves, treeVars
    <2> QED
      BY <1>1, <1>3, <2>1, FallBackKeeps DEF VerifyDashboard, treeVars
  <1> QED
    BY <1>2, <1>3 DEF VerifyDashboard

-----------------------------------------------------------------------------
(* The steps of the reset and of the start.                                *)

LEMMA ResetCheckKeeps ==
    ASSUME Assumptions, Inv, NEW p \in Callers, ResetCheck(p)
    PROVE  Inv'
  <1>1. /\ Records /\ call[p] \in Call /\ Stage(call[p]) /\ call[p].pc = "check"
        /\ Part(p).kind = "reset" /\ call[p].did = <<>>
    BY Here, NothingDone DEF ResetCheck, Stage, Part
  <1>2. CASE running /\ Answer(p, FALSE)
    <2>1. Moves(p) /\ call'[p].pc = "done" /\ ~call'[p].ok
      BY <1>1, <1>2, AnswerMoves
    <2>2. TypeOK'
      BY <2>1, AsideTypes, SameTypes DEF ResetCheck, Assumptions, Moves, treeVars
    <2> QED
      BY <1>1, <2>1, <2>2, FailureKeeps DEF ResetCheck
  <1>3. CASE ~running /\ call' = [call EXCEPT ![p].pc = "remove", ![p].left = ResetTargets]
    <2>2. Moves(p) /\ call'[p].pc = "remove" /\ call'[p].left = ResetTargets
      BY <1>1, <1>3, RemoveMoves
    <2>3. Part(p)' = Part(p) /\ Head(call'[p].parts) = Part(p) /\ call'[p].did = <<>>
      BY <1>1, <2>2 DEF Moves, Alike, Part
    <2>4. Stage(call'[p]) /\ Story(p)'
      <3>1. ~running' /\ \A x \in ResetTargets \ call'[p].left : Gone(x)'
        BY <1>3, <2>2 DEF ResetCheck, treeVars
      <3>2. Stage(call'[p])
        BY <1>1, <2>2, <2>3 DEF Stage
      <3>3. Story(p)'
        BY <2>2, <2>3, <3>1 DEF Story
      <3> QED
        BY <3>2, <3>3
    <2>5. TypeOK'
      BY <2>2, AsideTypes, SameTypes DEF ResetCheck, Assumptions, Moves, treeVars
    <2> QED
      BY <2>2, <2>4, <2>5, AsideKeeps DEF ResetCheck
  <1> QED
    BY <1>2, <1>3 DEF ResetCheck

LEMMA ResetMoves ==
    ASSUME Records, NEW p \in Callers, call[p] \in Call, NEW x, call[p].pc = "remove",
           call' = [call EXCEPT ![p].left = @ \ {x},
                                ![p].pc = IF x = "profile" THEN "done" ELSE @]
    PROVE  /\ Moves(p) /\ call'[p].pc = IF x = "profile" THEN "done" ELSE "remove"
           /\ call'[p].left = call[p].left \ {x}
  <1> DEFINE pc == IF x = "profile" THEN "done" ELSE call[p].pc
             c == [call[p] EXCEPT !.left = @ \ {x}, !.pc = pc]
  <1>1. call' = [call EXCEPT ![p] = c]
    BY DEF Call
  <1>2. pc \in Pcs
    BY DEF Pcs
  <1> HIDE DEF pc
  <1>3. c \in Call
    BY <1>2 DEF Call
  <1>4. c.pc = pc /\ c.left = call[p].left \ {x} /\ Alike(call[p], c)
    BY DEF Call, Alike
  <1> HIDE DEF c
  <1> QED
    BY <1>1, <1>3, <1>4, Becomes DEF pc

LEMMA ResetRemoveKeeps ==
    ASSUME Assumptions, Inv, NEW p \in Callers, ResetRemove(p)
    PROVE  Inv'
  <1>1. /\ Records /\ call[p] \in Call /\ Stage(call[p]) /\ call[p].pc = "remove"
        /\ Part(p).kind = "reset" /\ call[p].did = <<>> /\ call[p].left \subseteq ResetTargets
    BY Here, NothingDone DEF ResetRemove, Stage, Part
  <1>2. UNCHANGED coreVars /\ running' = running
    BY DEF ResetRemove
  <1>3. PICK x \in call[p].left :
          /\ x = "profile" => call[p].left = {"profile"}
          /\ \/ /\ cache' = IF x = "cache" THEN None ELSE cache
                /\ dashboard' = IF x = "dashboard" THEN None ELSE dashboard
                /\ assets' = IF x = "geodata" THEN [assets EXCEPT ![x] = None] ELSE assets
                /\ active' = IF x = "profile" THEN "meta" ELSE active
                /\ call' = [call EXCEPT ![p].left = @ \ {x},
                                        ![p].pc = IF x = "profile" THEN "done" ELSE @]
                /\ NoMishap
             \/ /\ Answer(p, FALSE)
                /\ UNCHANGED <<active, cache, assets, dashboard>>
                /\ Mishap /\ UNCHANGED <<latest, calls>>
    BY DEF ResetRemove
  <1>4. CASE /\ cache' = IF x = "cache" THEN None ELSE cache
             /\ dashboard' = IF x = "dashboard" THEN None ELSE dashboard
             /\ assets' = IF x = "geodata" THEN [assets EXCEPT ![x] = None] ELSE assets
             /\ active' = IF x = "profile" THEN "meta" ELSE active
             /\ call' = [call EXCEPT ![p].left = @ \ {x},
                                     ![p].pc = IF x = "profile" THEN "done" ELSE @]
             /\ NoMishap
    <2>1. /\ Moves(p) /\ call'[p].pc = IF x = "profile" THEN "done" ELSE "remove"
          /\ call'[p].left = call[p].left \ {x}
      BY <1>1, <1>4, ResetMoves
    <2>2. Part(p)' = Part(p) /\ Head(call'[p].parts) = Part(p) /\ call'[p].did = <<>>
      BY <1>1, <2>1 DEF Moves, Alike, Part
    <2>3. Stage(call'[p])
      BY <1>1, <2>1, <2>2 DEF Stage
    <2>4. ASSUME call[p].sole PROVE Story(p)'
      <3>1. ~running /\ \A y \in ResetTargets \ call[p].left : Gone(y)
        BY <1>1, <2>4, Here DEF Story
      <3>2. ASSUME NEW y \in ResetTargets \ call'[p].left PROVE Gone(y)'
        <4>1. CASE y = x
          BY <1>4, <3>2, <4>1, SameTypes DEF Gone, ResetTargets, Assets
        <4>2. CASE y # x
          <5>1. y \in ResetTargets /\ Gone(y)
            BY <2>1, <3>1, <3>2, <4>2
          <5> QED
            BY <1>4, <4>2, <5>1, SameTypes DEF Gone, ResetTargets, Assets, Flavors
        <4> QED
          BY <4>1, <4>2
      <3>3. CASE x = "profile"
        <4>1. call'[p].left = {}
          BY <1>3, <2>1, <3>3
        <4>2. /\ Gone("cache")' /\ Gone("dashboard")' /\ Gone("geodata")' /\ Gone("profile")'
          BY <3>2, <4>1 DEF ResetTargets
        <4>3. Kept(p, Part(p), call[p].release)'
          BY <1>1, <1>2, <2>2, <3>1, <4>2 DEF Kept, Gone
        <4> QED
          BY <2>1, <2>2, <3>3, <4>3 DEF Story
      <3>4. CASE x # "profile"
        <4>1. call'[p].pc = "remove"
          BY <2>1, <3>4
        <4>2. ~running' /\ \A y \in ResetTargets \ call'[p].left : Gone(y)'
          BY <1>2, <3>1, <3>2
        <4> QED
          BY <2>2, <4>1, <4>2 DEF Story
      <3> QED
        BY <3>3, <3>4
    <2>5. TypeOK'
      <3>1. active' \in Flavors
        BY <1>4, SameTypes DEF Flavors
      <3>2. assets' \in [Assets -> Contents]
        BY <1>4, SameTypes DEF Contents
      <3>3. /\ cache' \in {None} \union [core : Flavors, release : Releases]
            /\ dashboard' \in {None} \union [DashboardFiles -> Contents]
        BY <1>4, SameTypes
      <3> QED
        BY <1>2, <1>4, <2>1, <3>1, <3>2, <3>3, AsideTypes, SameTypes DEF Assumptions, Moves
    <2> QED
      BY <1>2, <2>1, <2>3, <2>4, <2>5, AsideKeeps
  <1>5. CASE /\ Answer(p, FALSE)
             /\ UNCHANGED <<active, cache, assets, dashboard>>
             /\ Mishap /\ UNCHANGED <<latest, calls>>
    <2>1. Moves(p) /\ call'[p].pc = "done" /\ ~call'[p].ok
      BY <1>1, <1>5, AnswerMoves
    <2>2. TypeOK'
      BY <1>2, <1>5, <2>1, AsideTypes, SameTypes DEF Assumptions, Moves
    <2> QED
      BY <1>1, <1>2, <2>1, <2>2, FailureKeeps
  <1> QED
    BY <1>3, <1>4, <1>5

LEMMA StartKeeps ==
    ASSUME Assumptions, Inv, NEW p \in Callers, Start(p)
    PROVE  Inv'
  <1>1. /\ Records /\ call[p] \in Call /\ Stage(call[p]) /\ call[p].pc = "start"
        /\ Part(p).kind = "start" /\ call[p].core \in Flavors
    BY Here DEF Start, Stage, Part, Call
  <1>2. running' \in BOOLEAN
    <2>1. Whole(core[call[p].core]) \in BOOLEAN
      BY Zenon DEF Whole
    <2> HIDE DEF Whole
    <2>2. running' = (running \/ Whole(core[call[p].core]))
      BY Zenon DEF Start
    <2> QED
      BY <2>1, <2>2, SameTypes, Zenon
  <1>3. CASE running' /\ call' = [call EXCEPT ![p].pc = "clear", ![p].ask = call[p].core]
    <2>1. Moves(p) /\ call'[p].pc = "clear"
      BY <1>1, <1>3, AskMoves
    <2>2. Part(p)' = Part(p) /\ Head(call'[p].parts) = Part(p)
      BY <2>1 DEF Moves, Alike, Part
    <2>3. Stage(call'[p])
      BY <1>1, <2>1, <2>2 DEF Stage
    <2>4. ASSUME call[p].sole PROVE Story(p)'
      <3>1. (\A i \in DOMAIN call[p].did : Kept(p, call[p].did[i].part, call[p].did[i].release))'
        BY <1>1, <2>1, <2>4, DidStays DEF Start, coreVars
      <3> QED
        BY <1>1, <1>3, <2>1, <2>2, <3>1 DEF Story
    <2>5. TypeOK'
      BY <1>2, <2>1, AsideTypes, SameTypes DEF Start, Assumptions, Moves
    <2> QED
      BY <2>1, <2>3, <2>4, <2>5, AsideKeeps DEF Start
  <1>4. CASE Answer(p, FALSE)
    <2>1. Moves(p) /\ call'[p].pc = "done" /\ ~call'[p].ok
      BY <1>1, <1>4, AnswerMoves
    <2>2. TypeOK'
      BY <1>2, <2>1, AsideTypes, SameTypes DEF Start, Assumptions, Moves
    <2> QED
      BY <1>1, <2>1, <2>2, FailureKeeps DEF Start
  <1> QED
    BY <1>3, <1>4 DEF Start

-----------------------------------------------------------------------------
(* The steps of a download of a core.                                      *)

LEMMA Downloading ==
    ASSUME Inv, NEW p \in Callers,
           call[p].pc \in {"fetch", "open", "copy", "install", "cleanup"}
    PROVE  /\ Records /\ call[p] \in Call /\ Stage(call[p]) /\ Head(call[p].parts) = Part(p)
           /\ Part(p).kind = "cores" /\ call[p].did = <<>>
           /\ call[p].flavors \in Seq(Flavors) /\ call[p].flavors # <<>>
           /\ Flavor(p) \in Flavors /\ Flavor(p) \in Elements(call[p].flavors)
  <1>1. /\ Records /\ call[p] \in Call /\ Stage(call[p]) /\ Head(call[p].parts) = Part(p)
        /\ Part(p).kind = "cores" /\ call[p].flavors # <<>>
    BY Here DEF Stage, Part
  <1>2. call[p].did = <<>> /\ call[p].flavors \in Seq(Flavors)
    BY <1>1, NothingDone DEF Call
  <1>3. /\ 1 \in DOMAIN call[p].flavors /\ Flavor(p) = call[p].flavors[1]
        /\ call[p].flavors[1] \in Flavors
    BY <1>1, <1>2 DEF Flavor
  <1> QED
    BY <1>1, <1>2, <1>3 DEF Elements

LEMMA OthersTry ==
    ASSUME NEW p, Moves(p), NEW q \in Callers \ {p}, NEW f
    PROVE  /\ Trying(q, f)' <=> Trying(q, f)
           /\ Trying(q, f) => call'[q].pc = call[q].pc /\ call'[q].release = call[q].release
  <1>1. CASE call[q] = Idle /\ call'[q] = Idle
    BY <1>1 DEF Trying, Fetching, Idle
  <1>2. CASE /\ call'[q].pc = call[q].pc /\ call'[q].release = call[q].release
             /\ call'[q].urls = call[q].urls /\ call'[q].flavors = call[q].flavors
    BY <1>2 DEF Trying, Fetching, Flavor
  <1> QED
    BY <1>1, <1>2 DEF Moves, Follows

(* The flavors that a step is not about, and the one that it is about.     *)
LEMMA OtherFlavor ==
    ASSUME Inv, NEW p \in Callers, Moves(p), NEW g \in Flavors \ shared,
           core'[g] = core[g], temp'[g] = temp[g], ~Trying(p, g)'
    PROVE  Fetches(g)'
  <1>1. Fetches(g)
    BY DEF Inv
  <1> QED
    BY <1>1, OthersTry DEF Fetches

LEMMA OwnFlavor ==
    ASSUME Inv, NEW p \in Callers, Moves(p), NEW f \in Flavors \ shared, Trying(p, f),
           core'[f] # None => Whole(core'[f]),
           Trying(p, f)' /\ call'[p].pc = "copy" =>
              temp'[f] = [from |-> {call'[p].release}, by |-> p],
           Trying(p, f)' /\ call'[p].pc = "install" =>
              temp'[f] = [from |-> {call'[p].release}, by |-> None]
    PROVE  Fetches(f)'
  <1>1. \A q \in Callers : Trying(q, f) => q = p
    BY DEF Inv, Fetches
  <1>2. \A q \in Callers : Trying(q, f)' => q = p
    BY <1>1, OthersTry
  <1>3. (core[f] # None => Whole(core[f]))'
    BY DEF Whole
  <1> QED
    BY <1>2, <1>3 DEF Fetches

LEMMA CoreTypes ==
    ASSUME Inv, BoundsAssumption, NoMishap \/ (Mishap /\ UNCHANGED <<latest, calls>>),
           Records', core' \in [Flavors -> {None} \union CoreFiles],
           temp' \in [Flavors -> {None} \union CoreFiles], shared' \subseteq Flavors,
           UNCHANGED treeVars
    PROVE  TypeOK'
  BY Bounded DEF Inv, TypeOK, Records, treeVars

LEMMA Ended ==
    ASSUME NoneAssumption, NEW p \in Callers, NEW file \in {None} \union CoreFiles
    PROVE  /\ Finish(file, p) \in {None} \union CoreFiles
           /\ Spoil(file, p) \in {None} \union CoreFiles
           /\ Whole(file) => Finish(file, p) = file /\ Spoil(file, p) = file
           /\ file = None => Finish(file, p) = None /\ Spoil(file, p) = None
  BY DEF Finish, Spoil, CoreFiles, Whole, NoneAssumption

LEMMA AgainMoves ==
    ASSUME Records, NEW p \in Callers, call[p] \in Call,
           call' = [call EXCEPT ![p].again = FALSE]
    PROVE  /\ Moves(p)
           /\ \A x \in {"flavors", "pc", "release"} : call'[p][x] = call[p][x]
  <1> DEFINE c == [call[p] EXCEPT !.again = FALSE]
  <1>1. call' = [call EXCEPT ![p] = c]
    OBVIOUS
  <1>2. c \in Call
    BY DEF Call
  <1>3. Alike(call[p], c) /\ \A x \in {"flavors", "pc", "release"} : c[x] = call[p][x]
    BY DEF Call, Alike
  <1> HIDE DEF c
  <1> QED
    BY <1>1, <1>2, <1>3, Becomes

LEMMA FetchReleaseKeeps ==
    ASSUME Assumptions, Inv, NEW p \in Callers, FetchRelease(p)
    PROVE  Inv'
  <1>1. /\ Records /\ call[p] \in Call /\ Stage(call[p]) /\ Head(call[p].parts) = Part(p)
        /\ Part(p).kind = "cores" /\ call[p].did = <<>> /\ call[p].pc = "fetch"
        /\ call[p].flavors # <<>>
    BY Downloading DEF FetchRelease
  <1>2. CASE call' = [call EXCEPT ![p].pc = "open", ![p].release = latest,
                                  ![p].urls = Candidates, ![p].ok = TRUE]
    <2>1. /\ Moves(p) /\ call'[p].pc = "open" /\ call'[p].release = latest
          /\ call'[p].urls = Candidates /\ call'[p].flavors = call[p].flavors
      BY <1>1, <1>2, SameTypes, FetchMoves DEF Assumptions
    <2>2. Part(p)' = Part(p) /\ Head(call'[p].parts) = Part(p) /\ call'[p].did = <<>>
      BY <1>1, <2>1 DEF Moves, Alike, Part
    <2>3. Stage(call'[p])
      BY <1>1, <2>1, <2>2, SameTypes DEF Stage
    <2>4. ASSUME call[p].sole PROVE Story(p)'
      <3>1. Story(p)
        BY <1>1, <2>4, Here
      <3> QED
        BY <1>1, <2>1, <2>2, <3>1 DEF Story, Downloaded, Whole, FetchRelease, coreVars
    <2>5. TypeOK'
      BY <2>1, AsideTypes, SameTypes DEF FetchRelease, Assumptions, Moves, treeVars
    <2>6. \A f \in Flavors \ shared' : Fetches(f)'
      BY <2>1, AsideFetches DEF FetchRelease
    <2> QED
      BY <2>1, <2>3, <2>4, <2>5, <2>6, StepKeeps
  <1>3. CASE Answer(p, FALSE)
    <2>1. Moves(p) /\ call'[p].pc = "done" /\ ~call'[p].ok
      BY <1>1, <1>3, AnswerMoves
    <2>2. TypeOK'
      BY <2>1, AsideTypes, SameTypes DEF FetchRelease, Assumptions, Moves, treeVars
    <2> QED
      BY <1>1, <2>1, <2>2, FailureKeeps DEF FetchRelease
  <1>4. CASE call' = [call EXCEPT ![p].again = FALSE]
    <2>1. Moves(p) /\ call'[p].pc = "fetch" /\ call'[p].flavors = call[p].flavors
      BY <1>1, <1>4, AgainMoves
    <2>2. Part(p)' = Part(p) /\ Head(call'[p].parts) = Part(p) /\ call'[p].did = <<>>
      BY <1>1, <2>1 DEF Moves, Alike, Part
    <2>3. Stage(call'[p])
      BY <1>1, <2>1, <2>2 DEF Stage
    <2>4. ASSUME call[p].sole PROVE Story(p)'
      <3>1. Story(p)
        BY <1>1, <2>4, Here
      <3> QED
        BY <1>1, <2>1, <2>2, <3>1 DEF Story, Downloaded, Whole, FetchRelease, coreVars
    <2>5. TypeOK'
      BY <2>1, AsideTypes, SameTypes DEF FetchRelease, Assumptions, Moves, treeVars
    <2>6. \A f \in Flavors \ shared' : Fetches(f)'
      BY <2>1, AsideFetches DEF FetchRelease
    <2> QED
      BY <2>1, <2>3, <2>4, <2>5, <2>6, StepKeeps
  <1> QED
    BY <1>2, <1>3, <1>4 DEF FetchRelease, Refuse

LEMMA NoUrlLeftKeeps ==
    ASSUME Assumptions, Inv, NEW p \in Callers, NoUrlLeft(p)
    PROVE  Inv'
  <1>1. /\ Records /\ call[p] \in Call /\ Stage(call[p]) /\ Head(call[p].parts) = Part(p)
        /\ Part(p).kind = "cores" /\ call[p].did = <<>> /\ call[p].pc = "open"
        /\ call[p].flavors # <<>>
    BY Downloading DEF NoUrlLeft
  <1>2. PICK f \in Flavors : f = Flavor(p)
    BY <1>1, Downloading
  <1>3. /\ Moves(p) /\ call'[p].pc = "cleanup" /\ ~call'[p].ok
        /\ call'[p].flavors = call[p].flavors
    BY <1>1, FailMoves DEF NoUrlLeft
  <1>4. Part(p)' = Part(p) /\ Head(call'[p].parts) = Part(p) /\ call'[p].did = <<>>
    BY <1>1, <1>3 DEF Moves, Alike, Part
  <1>5. Stage(call'[p])
    BY <1>1, <1>3, <1>4 DEF Stage
  <1>6. ASSUME call[p].sole PROVE Story(p)'
    <2>1. Story(p)
      BY <1>1, <1>6, Here
    <2>2. \A g \in Elements(Part(p).flavors) \ Elements(call[p].flavors) : Downloaded(g)
      BY <1>1, <2>1 DEF Story
    <2>3. \A g \in Elements(Part(p).flavors) \ Elements(call[p].flavors) : Downloaded(g)'
      BY <2>2 DEF Downloaded, Whole, NoUrlLeft, coreVars
    <2>4. (\A g \in Elements(Part(p).flavors) \ Elements(call[p].flavors) : Downloaded(g))'
      BY <1>3, <1>4, <2>3 DEF Elements
    <2> QED
      BY <1>3, <1>4, <2>4 DEF Story
  <1>7. TypeOK'
    BY <1>3, AsideTypes, SameTypes DEF NoUrlLeft, Assumptions, Moves, treeVars
  <1>8. ASSUME NEW g \in Flavors \ shared PROVE Fetches(g)'
    <2>1. Fetches(g)
      BY <1>8 DEF Inv
    <2>2. CASE g = f
      <3>1. Trying(p, f)
        BY <1>1, <1>2 DEF Trying, Fetching, NoUrlLeft, Assumptions, BoundsAssumption
      <3> QED
        <4>1. core'[f] # None => Whole(core'[f])
          BY <2>1, <2>2 DEF NoUrlLeft, coreVars, Fetches
        <4> QED
          BY <1>3, <1>8, <2>2, <3>1, <4>1, OwnFlavor
    <2>3. CASE g # f
      <3>1. ~Trying(p, g)'
        BY <1>2, <1>3, <2>3 DEF Trying, Flavor
      <3> QED
        BY <1>3, <3>1, OtherFlavor DEF NoUrlLeft, coreVars
    <2> QED
      BY <2>2, <2>3
  <1> QED
    BY <1>3, <1>5, <1>6, <1>7, <1>8, StepKeeps DEF NoUrlLeft, coreVars

(* The cores that a command has downloaded before stay downloaded.         *)
LEMMA OldDownloads ==
    ASSUME Inv, NEW p \in Callers,
           call[p].pc \in {"fetch", "open", "copy", "install", "cleanup"},
           Story(p), Moves(p), NEW f \in Flavors, f = Flavor(p),
           \A g \in Flavors \ {f} : core'[g] = core[g] /\ temp'[g] = temp[g]
    PROVE  /\ \A g \in Elements(Part(p).flavors) \ Elements(call[p].flavors) : Downloaded(g)'
           /\ call'[p].flavors = call[p].flavors =>
                 (\A g \in Elements(Part(p).flavors) \ Elements(call[p].flavors) : Downloaded(g))'
  <1>1. /\ Part(p) \in Parts /\ f \in Elements(call[p].flavors)
        /\ \A g \in Elements(Part(p).flavors) \ Elements(call[p].flavors) : Downloaded(g)
    BY Downloading, Here DEF Story
  <1>2. Elements(Part(p).flavors) \subseteq Flavors
    BY <1>1 DEF Parts, Elements
  <1>3. \A g \in Elements(Part(p).flavors) \ Elements(call[p].flavors) : Downloaded(g)'
    BY <1>1, <1>2 DEF Downloaded, Whole
  <1>4. Part(p)' = Part(p)
    BY DEF Moves, Alike, Part
  <1> QED
    BY <1>3, <1>4 DEF Elements

LEMMA OpenTempKeeps ==
    ASSUME Assumptions, Inv, NEW p \in Callers, OpenTemp(p)
    PROVE  Inv'
  <1>1. /\ Records /\ call[p] \in Call /\ Stage(call[p]) /\ Head(call[p].parts) = Part(p)
        /\ Part(p).kind = "cores" /\ call[p].did = <<>> /\ call[p].pc = "open"
        /\ call[p].flavors # <<>> /\ call[p].urls > 0 /\ call[p].release \in Releases
    BY Downloading DEF OpenTemp, Stage
  <1>2. PICK f \in Flavors : f = Flavor(p)
    BY <1>1, Downloading
  <1> DEFINE writers == {q \in Callers \ {p} : call[q].pc = "copy" /\ Holds(q, f, "temp")}
             file == [from |-> {call[p].release} \union {call[q].release : q \in writers}, by |-> p]
  <1>3. /\ temp' = [temp EXCEPT ![f] = file]
        /\ call' = [call EXCEPT ![p].pc = "copy", ![p].at = "temp"]
        /\ shared' = IF \E q \in Callers \ {p} : Fetching(q) /\ Flavor(q) = f
                     THEN shared \union {f} ELSE shared
        /\ UNCHANGED core /\ UNCHANGED treeVars /\ NoMishap
    BY <1>2 DEF OpenTemp
  <1>4. /\ Moves(p) /\ call'[p].pc = "copy"
        /\ \A x \in {"flavors", "release", "urls", "ok"} : call'[p][x] = call[p][x]
    BY <1>1, <1>3, PlaceMoves DEF Pcs
  <1>5. Part(p)' = Part(p) /\ Head(call'[p].parts) = Part(p) /\ call'[p].did = <<>>
    BY <1>1, <1>4 DEF Moves, Alike, Part
  <1>6. Stage(call'[p])
    BY <1>1, <1>4, <1>5 DEF Stage
  <1>7. temp'[f] = file /\ \A g \in Flavors \ {f} : temp'[g] = temp[g]
    BY <1>3, SameTypes
  <1>8. writers = {} => file = [from |-> {call[p].release}, by |-> p]
    OBVIOUS
  <1>9. ASSUME call[p].sole PROVE Story(p)'
    <2>1. Story(p) /\ writers = {}
      BY <1>1, <1>9, Here DEF Alone, Idle
    <2>2. (\A g \in Elements(Part(p).flavors) \ Elements(call[p].flavors) : Downloaded(g))'
      BY <1>1, <1>2, <1>3, <1>4, <1>7, <2>1, OldDownloads
    <2>3. Flavor(p)' = f /\ temp'[f] = [from |-> {call'[p].release}, by |-> p]
      BY <1>2, <1>4, <1>7, <1>8, <2>1 DEF Flavor
    <2> QED
      BY <1>4, <1>5, <2>2, <2>3 DEF Story
  <1>10. TypeOK'
    <2>1. ASSUME NEW q \in writers PROVE call[q].release \in Releases
      BY <2>1, Here DEF Stage
    <2>2. file \in CoreFiles
      BY <1>1, <2>1 DEF CoreFiles
    <2> HIDE DEF file
    <2>3. temp' \in [Flavors -> {None} \union CoreFiles]
      BY <1>3, <2>2, SameTypes
    <2>4. shared' \subseteq Flavors
      BY <1>3 DEF Inv, TypeOK
    <2> QED
      BY <1>3, <1>4, <2>3, <2>4, CoreTypes, SameTypes DEF Assumptions, Moves
  <1>11. ASSUME NEW g \in Flavors \ shared' PROVE Fetches(g)'
    <2>1. g \in Flavors \ shared
      BY <1>3, <1>11
    <2>2. CASE g = f
      <3>1. \A q \in Callers \ {p} : ~(Fetching(q) /\ Flavor(q) = f)
        BY <1>3, <1>11, <2>2
      <3>2. writers = {}
        BY <3>1 DEF Holds
      <3>3. \A q \in Callers \ {p} : ~Trying(q, f)'
        BY <1>4, <3>1, OthersTry DEF Trying
      <3>4. (core[f] # None => Whole(core[f]))'
        BY <1>3, <2>1, <2>2 DEF Inv, Fetches, Whole
      <3>5. temp'[f] = [from |-> {call'[p].release}, by |-> p]
        BY <1>4, <1>7, <1>8, <3>2
      <3> HIDE DEF writers, file
      <3> QED
        BY <1>4, <2>2, <3>3, <3>4, <3>5 DEF Fetches
    <2>3. CASE g # f
      <3>1. ~Trying(p, g)'
        BY <1>2, <1>4, <2>3 DEF Trying, Flavor
      <3> QED
        BY <1>3, <1>4, <1>7, <2>1, <2>3, <3>1, OtherFlavor
    <2> QED
      BY <2>2, <2>3
  <1> QED
    BY <1>4, <1>6, <1>9, <1>10, <1>11, StepKeeps

(* A flavor that a download is about, of which no two are.                 *)
LEMMA Own ==
    ASSUME Inv, NEW p \in Callers, NEW f \in Flavors, f = Flavor(p), Fetching(p),
           call[p].pc = "open" => call[p].urls # Candidates, f \notin shared
    PROVE  /\ Trying(p, f) /\ (core[f] # None => Whole(core[f]))
           /\ call[p].pc = "copy" => temp[f] = [from |-> {call[p].release}, by |-> p]
           /\ call[p].pc = "install" => temp[f] = [from |-> {call[p].release}, by |-> None]
  BY DEF Inv, Fetches, Trying

LEMMA CopiedKeeps ==
    ASSUME Assumptions, Inv, NEW p \in Callers, Copied(p)
    PROVE  Inv'
  <1>1. /\ Records /\ call[p] \in Call /\ Stage(call[p]) /\ Head(call[p].parts) = Part(p)
        /\ Part(p).kind = "cores" /\ call[p].did = <<>> /\ call[p].pc = "copy"
        /\ call[p].flavors # <<>> /\ call[p].release \in Releases
    BY Downloading DEF Copied, Stage
  <1>2. PICK f \in Flavors : f = Flavor(p)
    BY <1>1, Downloading
  <1>3. /\ core' = [core EXCEPT ![f] = Finish(@, p)]
        /\ temp' = [temp EXCEPT ![f] = Finish(@, p)]
        /\ call' = [call EXCEPT ![p].pc = "install", ![p].at = None]
        /\ UNCHANGED shared /\ UNCHANGED treeVars /\ NoMishap
    BY <1>2 DEF Copied
  <1>4. /\ Moves(p) /\ call'[p].pc = "install"
        /\ \A x \in {"flavors", "release", "urls", "ok"} : call'[p][x] = call[p][x]
    BY <1>1, <1>3, PlaceMoves DEF Pcs
  <1>5. Part(p)' = Part(p) /\ Head(call'[p].parts) = Part(p) /\ call'[p].did = <<>>
    BY <1>1, <1>4 DEF Moves, Alike, Part
  <1>6. Stage(call'[p])
    BY <1>1, <1>4, <1>5 DEF Stage
  <1>7. /\ core'[f] = Finish(core[f], p) /\ temp'[f] = Finish(temp[f], p)
        /\ \A g \in Flavors \ {f} : core'[g] = core[g] /\ temp'[g] = temp[g]
    BY <1>3, SameTypes
  <1>8. temp[f] = [from |-> {call[p].release}, by |-> p] =>
           temp'[f] = [from |-> {call[p].release}, by |-> None]
    <2>1. ASSUME temp[f] = [from |-> {call[p].release}, by |-> p] PROVE temp[f] # None
      BY <1>1, <2>1 DEF Assumptions, NoneAssumption, CoreFiles
    <2> QED
      BY <1>7, <2>1 DEF Finish
  <1>9. ASSUME call[p].sole PROVE Story(p)'
    <2>1. Story(p)
      BY <1>1, <1>9, Here
    <2>2. (\A g \in Elements(Part(p).flavors) \ Elements(call[p].flavors) : Downloaded(g))'
      BY <1>1, <1>2, <1>4, <1>7, <2>1, OldDownloads
    <2>3. Flavor(p)' = f /\ temp'[f] = [from |-> {call'[p].release}, by |-> None]
      BY <1>1, <1>2, <1>4, <1>8, <2>1 DEF Flavor, Story
    <2> QED
      BY <1>4, <1>5, <2>2, <2>3 DEF Story
  <1>10. TypeOK'
    <2>1. /\ core' \in [Flavors -> {None} \union CoreFiles]
          /\ temp' \in [Flavors -> {None} \union CoreFiles]
      BY <1>3, SameTypes, Ended DEF Assumptions
    <2>2. shared' \subseteq Flavors
      BY <1>3 DEF Inv, TypeOK
    <2> QED
      BY <1>3, <1>4, <2>1, <2>2, CoreTypes DEF Assumptions, Moves
  <1>11. ASSUME NEW g \in Flavors \ shared PROVE Fetches(g)'
    <2>1. CASE g = f
      <3>1. /\ Trying(p, f) /\ (core[f] # None => Whole(core[f]))
            /\ temp[f] = [from |-> {call[p].release}, by |-> p]
        BY <1>1, <1>2, <1>11, <2>1, Own DEF Fetching
      <3>2. core'[f] = core[f]
        BY <1>7, <3>1, SameTypes, Ended DEF Assumptions
      <3> QED
        BY <1>4, <1>8, <1>11, <2>1, <3>1, <3>2, OwnFlavor
    <2>2. CASE g # f
      <3>1. ~Trying(p, g)'
        BY <1>2, <1>4, <2>2 DEF Trying, Flavor
      <3> QED
        BY <1>4, <1>7, <1>11, <2>2, <3>1, OtherFlavor
    <2> QED
      BY <2>1, <2>2
  <1> QED
    BY <1>3, <1>4, <1>6, <1>9, <1>10, <1>11, StepKeeps

LEMMA CopyFailedKeeps ==
    ASSUME Assumptions, Inv, NEW p \in Callers, CopyFailed(p)
    PROVE  Inv'
  <1>1. /\ Records /\ call[p] \in Call /\ Stage(call[p]) /\ Head(call[p].parts) = Part(p)
        /\ Part(p).kind = "cores" /\ call[p].did = <<>> /\ call[p].pc = "copy"
        /\ call[p].flavors # <<>> /\ call[p].release \in Releases /\ call[p].urls > 0
    BY Downloading DEF CopyFailed, Stage
  <1>2. PICK f \in Flavors : f = Flavor(p)
    BY <1>1, Downloading
  <1>3. /\ core' = [core EXCEPT ![f] = Spoil(@, p)]
        /\ temp' = [temp EXCEPT ![f] = None]
        /\ call' = [Moved(f, "temp", "gone") EXCEPT
                      ![p].pc = "open", ![p].urls = @ - 1, ![p].at = None]
        /\ UNCHANGED shared /\ UNCHANGED treeVars /\ Mishap /\ UNCHANGED <<latest, calls>>
    BY <1>2 DEF CopyFailed
  <1>4. /\ Moves(p) /\ call'[p].pc = "open" /\ call'[p].urls = call[p].urls - 1
        /\ call'[p].flavors = call[p].flavors /\ call'[p].release = call[p].release
    BY <1>1, <1>3, RetryMoves DEF Assumptions
  <1>5. Part(p)' = Part(p) /\ Head(call'[p].parts) = Part(p) /\ call'[p].did = <<>>
    BY <1>1, <1>4 DEF Moves, Alike, Part
  <1>6. Stage(call'[p])
    BY <1>1, <1>4, <1>5 DEF Stage
  <1>7. /\ core'[f] = Spoil(core[f], p) /\ temp'[f] = None
        /\ \A g \in Flavors \ {f} : core'[g] = core[g] /\ temp'[g] = temp[g]
    BY <1>3, SameTypes
  <1>8. ASSUME call[p].sole PROVE Story(p)'
    <2>1. Story(p)
      BY <1>1, <1>8, Here
    <2>2. (\A g \in Elements(Part(p).flavors) \ Elements(call[p].flavors) : Downloaded(g))'
      BY <1>1, <1>2, <1>4, <1>7, <2>1, OldDownloads
    <2> QED
      BY <1>4, <1>5, <2>2 DEF Story
  <1>9. TypeOK'
    <2>1. /\ core' \in [Flavors -> {None} \union CoreFiles]
          /\ temp' \in [Flavors -> {None} \union CoreFiles]
      BY <1>3, SameTypes, Ended DEF Assumptions
    <2>2. shared' \subseteq Flavors
      BY <1>3 DEF Inv, TypeOK
    <2> QED
      BY <1>3, <1>4, <2>1, <2>2, CoreTypes DEF Assumptions, Moves
  <1>10. ASSUME NEW g \in Flavors \ shared PROVE Fetches(g)'
    <2>1. CASE g = f
      <3>1. Trying(p, f) /\ (core[f] # None => Whole(core[f]))
        BY <1>1, <1>2, <1>10, <2>1, Own DEF Fetching
      <3>2. core'[f] = core[f]
        BY <1>7, <3>1, SameTypes, Ended DEF Assumptions
      <3> QED
        BY <1>4, <1>10, <2>1, <3>1, <3>2, OwnFlavor
    <2>2. CASE g # f
      <3>1. ~Trying(p, g)'
        BY <1>2, <1>4, <2>2 DEF Trying, Flavor
      <3> QED
        BY <1>4, <1>7, <1>10, <2>2, <3>1, OtherFlavor
    <2> QED
      BY <2>1, <2>2
  <1> QED
    BY <1>3, <1>4, <1>6, <1>8, <1>9, <1>10, StepKeeps

LEMMA InstallCoreKeeps ==
    ASSUME Assumptions, Inv, NEW p \in Callers, InstallCore(p)
    PROVE  Inv'
  <1>1. /\ Records /\ call[p] \in Call /\ Stage(call[p]) /\ Head(call[p].parts) = Part(p)
        /\ Part(p).kind = "cores" /\ call[p].did = <<>> /\ call[p].pc = "install"
        /\ call[p].flavors # <<>> /\ call[p].release \in Releases
    BY Downloading DEF InstallCore, Stage
  <1>2. PICK f \in Flavors : f = Flavor(p)
    BY <1>1, Downloading
  <1>3. Moves(p) /\ call'[p].pc = "cleanup" /\ call'[p].flavors = call[p].flavors =>
           /\ Part(p)' = Part(p) /\ Head(call'[p].parts) = Part(p) /\ call'[p].did = <<>>
           /\ Stage(call'[p]) /\ \A g \in Flavors \ {f} : ~Trying(p, g)'
    BY <1>1, <1>2 DEF Moves, Alike, Part, Stage, Trying, Flavor
  <1> DEFINE moved == [q \in Callers |->
                IF Holds(q, f, "temp") THEN [call[q] EXCEPT !.at = "core"]
                ELSE IF Holds(q, f, "core") THEN [call[q] EXCEPT !.at = "gone"]
                ELSE call[q]]
  <1>4. CASE /\ core' = [core EXCEPT ![f] = temp[f]]
             /\ temp' = [temp EXCEPT ![f] = None]
             /\ call' = [moved EXCEPT ![p].pc = "cleanup"]
             /\ NoMishap
    <2>1. Placed(moved)
      BY <1>1, InstalledPlaced
    <2> HIDE DEF moved
    <2>2. /\ Moves(p) /\ call'[p].pc = "cleanup"
          /\ call'[p].flavors = call[p].flavors /\ call'[p].release = call[p].release
          /\ call'[p].ok = call[p].ok
      BY <1>1, <1>4, <2>1, InstallMoves
    <2>3. /\ core'[f] = temp[f] /\ temp'[f] = None
          /\ \A g \in Flavors \ {f} : core'[g] = core[g] /\ temp'[g] = temp[g]
      BY <1>4, SameTypes
    <2>4. temp[f] = [from |-> {call[p].release}, by |-> None] => Whole(core'[f])
      BY <1>1, <2>3, OfOne DEF Assumptions
    <2>5. ASSUME call[p].sole PROVE Story(p)'
      <3>1. Story(p)
        BY <1>1, <2>5, Here
      <3>2. (\A g \in Elements(Part(p).flavors) \ Elements(call[p].flavors) : Downloaded(g))'
        BY <1>1, <1>2, <2>2, <2>3, <3>1, OldDownloads
      <3>3. Flavor(p)' = f /\ Whole(core'[f])
        BY <1>1, <1>2, <2>2, <2>4, <3>1 DEF Flavor, Story
      <3>4. Whole(core[Flavor(p)])'
        BY <3>3 DEF Whole
      <3> QED
        BY <1>3, <2>2, <3>2, <3>4 DEF Story
    <2>6. TypeOK'
      <3>1. /\ core' \in [Flavors -> {None} \union CoreFiles]
            /\ temp' \in [Flavors -> {None} \union CoreFiles]
        BY <1>4, SameTypes
      <3>2. shared' \subseteq Flavors
        BY DEF Inv, TypeOK, InstallCore
      <3> QED
        BY <1>4, <2>2, <3>1, <3>2, CoreTypes DEF Assumptions, Moves, InstallCore
    <2>7. ASSUME NEW g \in Flavors \ shared PROVE Fetches(g)'
      <3>1. CASE g = f
        <4>1. Trying(p, f) /\ temp[f] = [from |-> {call[p].release}, by |-> None]
          BY <1>1, <1>2, <2>7, <3>1, Own DEF Fetching
        <4> QED
          BY <2>2, <2>4, <2>7, <3>1, <4>1, OwnFlavor
      <3>2. CASE g # f
        BY <1>3, <2>2, <2>3, <2>7, <3>2, OtherFlavor
      <3> QED
        BY <3>1, <3>2
    <2> QED
      BY <1>3, <2>2, <2>5, <2>6, <2>7, StepKeeps DEF InstallCore
  <1>5. CASE /\ call' = [call EXCEPT ![p].pc = "cleanup", ![p].ok = FALSE]
             /\ UNCHANGED <<core, temp>>
             /\ NoMishap \/ (Mishap /\ UNCHANGED <<latest, calls>>)
    <2>1. /\ Moves(p) /\ call'[p].pc = "cleanup" /\ ~call'[p].ok
          /\ call'[p].flavors = call[p].flavors
      BY <1>1, <1>5, FailMoves
    <2>2. ASSUME call[p].sole PROVE Story(p)'
      <3>1. Story(p)
        BY <1>1, <2>2, Here
      <3>2. (\A g \in Elements(Part(p).flavors) \ Elements(call[p].flavors) : Downloaded(g))'
        BY <1>1, <1>2, <1>5, <2>1, <3>1, OldDownloads
      <3> QED
        BY <1>3, <2>1, <3>2 DEF Story
    <2>3. TypeOK'
      BY <1>5, <2>1, SameTypes, AsideTypes
      DEF InstallCore, coreVars, treeVars, Assumptions, Moves
    <2>4. ASSUME NEW g \in Flavors \ shared PROVE Fetches(g)'
      <3>1. CASE g = f
        <4>1. Trying(p, f) /\ (core[f] # None => Whole(core[f]))
          BY <1>1, <1>2, <2>4, <3>1, Own DEF Fetching
        <4> QED
          BY <1>5, <2>1, <2>4, <3>1, <4>1, OwnFlavor
      <3>2. CASE g # f
        BY <1>3, <1>5, <2>1, <2>4, <3>2, OtherFlavor
      <3> QED
        BY <3>1, <3>2
    <2> QED
      BY <1>3, <2>1, <2>2, <2>3, <2>4, StepKeeps DEF InstallCore
  <1> QED
    BY <1>2, <1>4, <1>5 DEF InstallCore

LEMMA TailElements ==
    ASSUME NEW s \in Seq(Flavors), s # <<>>
    PROVE  /\ Tail(s) \in Seq(Flavors)
           /\ Len(s) > 1 => Tail(s) # <<>>
           /\ Elements(s) \subseteq {Head(s)} \union Elements(Tail(s))
           /\ ~(Len(s) > 1) => Elements(s) \subseteq {Head(s)}
  <1>1. Tail(s) \in Seq(Flavors) /\ Len(Tail(s)) = Len(s) - 1 /\ Len(s) \in Nat
    OBVIOUS
  <1>2. ASSUME NEW i \in DOMAIN s PROVE s[i] = Head(s) \/ s[i] \in Elements(Tail(s))
    <2>1. CASE i = 1
      BY <2>1
    <2>2. CASE i # 1
      <3>1. i - 1 \in DOMAIN Tail(s) /\ Tail(s)[i - 1] = s[i]
        BY <1>1, <1>2, <2>2
      <3> QED
        BY <3>1 DEF Elements
    <2> QED
      BY <2>1, <2>2
  <1>3. ~(Len(s) > 1) => \A i \in DOMAIN s : s[i] = Head(s)
    BY <1>1
  <1>4. ASSUME NEW x \in Elements(s)
        PROVE  /\ x \in {Head(s)} \union Elements(Tail(s))
               /\ ~(Len(s) > 1) => x = Head(s)
    <2>1. PICK i \in DOMAIN s : x = s[i]
      BY <1>4 DEF Elements
    <2> QED
      BY <1>2, <1>3, <2>1
  <1>5. Len(s) > 1 => Tail(s) # <<>>
    <2>1. \A t \in Seq(Flavors) : Len(t) > 0 => t # <<>>
      OBVIOUS
    <2> DEFINE rest == Tail(s)
    <2>2. rest \in Seq(Flavors) /\ (Len(s) > 1 => Len(rest) > 0)
      BY <1>1
    <2> HIDE DEF rest
    <2>3. Len(s) > 1 => rest # <<>>
      BY <2>1, <2>2
    <2> QED
      BY <2>3 DEF rest
  <1> QED
    BY <1>1, <1>4, <1>5

LEMMA CleanupTempKeeps ==
    ASSUME Assumptions, Inv, NEW p \in Callers, CleanupTemp(p)
    PROVE  Inv'
  <1> DEFINE more == call[p].ok /\ Len(call[p].flavors) > 1
             retry == ~call[p].ok /\ Retries(p)
             pc == IF more \/ retry THEN "fetch"
                   ELSE IF call[p].ok /\ Part(p).tell THEN "clear" ELSE "done"
  <1>1. /\ Records /\ call[p] \in Call /\ Stage(call[p]) /\ Head(call[p].parts) = Part(p)
        /\ Part(p).kind = "cores" /\ call[p].did = <<>> /\ call[p].pc = "cleanup"
        /\ call[p].flavors # <<>> /\ call[p].flavors \in Seq(Flavors)
    BY Downloading DEF CleanupTemp
  <1>2. PICK f \in Flavors : f = Flavor(p)
    BY <1>1, Downloading
  <1>3. /\ temp' = [temp EXCEPT ![f] = None]
        /\ call' = [Moved(f, "temp", "gone") EXCEPT
                      ![p].pc = pc, ![p].at = None, ![p].again = @ /\ ~retry,
                      ![p].flavors = IF more THEN Tail(@) ELSE @]
        /\ UNCHANGED <<core, shared>> /\ UNCHANGED treeVars /\ NoMishap
    BY <1>2 DEF CleanupTemp
  <1>4. /\ Tail(call[p].flavors) \in Seq(Flavors)
        /\ more => Tail(call[p].flavors) # <<>>
        /\ Elements(call[p].flavors) \subseteq {f} \union Elements(Tail(call[p].flavors))
        /\ call[p].ok /\ ~more => Elements(call[p].flavors) \subseteq {f}
    BY <1>1, <1>2, TailElements DEF Flavor
  <1>5. /\ more \in BOOLEAN /\ retry \in BOOLEAN /\ pc \in Pcs
        /\ pc = "fetch" <=> more \/ retry
        /\ pc = "clear" => call[p].ok /\ ~more /\ Part(p).tell
        /\ pc \in {"fetch", "clear", "done"}
        /\ pc = "done" /\ call[p].ok => ~more /\ ~Part(p).tell
        /\ more => call[p].ok
        /\ retry => ~call[p].ok
    BY DEF Pcs, Retries
  <1> HIDE DEF more, retry, pc
  <1>6. /\ Moves(p) /\ call'[p].pc = pc /\ call'[p].ok = call[p].ok
        /\ call'[p].flavors = IF more THEN Tail(call[p].flavors) ELSE call[p].flavors
    <2>1. Records /\ call[p] \in Call /\ (more => Tail(call[p].flavors) \in Seq(Flavors))
      BY <1>1, <1>4
    <2>2. more \in BOOLEAN /\ retry \in BOOLEAN /\ pc \in Pcs
      BY <1>5
    <2>3. call' = Cleaned(p, f, pc, retry, more)
      BY <1>3 DEF Cleaned
    <2> QED
      BY <2>1, <2>2, <2>3, CleanupMoves
  <1>7. Part(p)' = Part(p) /\ Head(call'[p].parts) = Part(p) /\ call'[p].did = <<>>
    BY <1>1, <1>6 DEF Moves, Alike, Part
  <1>8. Stage(call'[p])
    BY <1>1, <1>4, <1>5, <1>6, <1>7 DEF Stage
  <1>9. temp'[f] = None /\ \A g \in Flavors \ {f} : core'[g] = core[g] /\ temp'[g] = temp[g]
    BY <1>3, SameTypes
  <1>10. ASSUME call[p].sole PROVE Story(p)'
    <2>1. Story(p)
      BY <1>1, <1>10, Here
    <2>2. \A g \in Elements(Part(p).flavors) \ Elements(call[p].flavors) : Downloaded(g)'
      BY <1>1, <1>2, <1>6, <1>9, <2>1, OldDownloads
    <2>3. call[p].ok => Downloaded(f)'
      BY <1>1, <1>2, <1>3, <1>9, <2>1 DEF Story, Downloaded, Whole
    <2>4. CASE pc = "fetch"
      <3>1. \A g \in Elements(Part(p).flavors) \ Elements(call'[p].flavors) : Downloaded(g)'
        BY <1>4, <1>5, <1>6, <2>2, <2>3, <2>4
      <3>2. (\A g \in Elements(Part(p).flavors) \ Elements(call[p].flavors) : Downloaded(g))'
        BY <1>7, <3>1 DEF Elements
      <3> QED
        BY <1>6, <1>7, <2>4, <3>2 DEF Story
    <2>5. ASSUME call[p].ok, ~more
          PROVE  \A g \in Elements(Part(p).flavors) : Downloaded(g)'
      BY <1>4, <2>2, <2>3, <2>5
    <2>6. CASE pc = "clear"
      <3>1. (\A g \in Elements(Part(p).flavors) : Downloaded(g))'
        BY <1>5, <1>7, <2>5, <2>6 DEF Elements
      <3> QED
        BY <1>1, <1>6, <1>7, <2>6, <3>1 DEF Story
    <2>7. CASE pc = "done"
      <3>1. ASSUME call[p].ok PROVE Kept(p, Part(p), call[p].release)'
        <4>1. /\ \A g \in Elements(Part(p).flavors) : (Whole(core[g]) /\ temp[g] = None)'
              /\ ~Part(p).tell
          BY <1>5, <2>5, <2>7, <3>1 DEF Downloaded
        <4> QED
          BY <1>1, <1>7, <4>1 DEF Kept, Elements
      <3> QED
        BY <1>6, <1>7, <2>7, <3>1 DEF Story
    <2> QED
      BY <1>5, <2>4, <2>6, <2>7
  <1>11. TypeOK'
    <2>1. /\ core' \in [Flavors -> {None} \union CoreFiles]
          /\ temp' \in [Flavors -> {None} \union CoreFiles]
      BY <1>3, SameTypes
    <2>2. shared' \subseteq Flavors
      BY <1>3 DEF Inv, TypeOK
    <2> QED
      BY <1>3, <1>6, <2>1, <2>2, CoreTypes DEF Assumptions, Moves
  <1>12. ASSUME NEW g \in Flavors \ shared PROVE Fetches(g)'
    <2>1. ~Trying(p, g)'
      BY <1>5, <1>6 DEF Trying, Fetching
    <2>2. CASE g = f
      <3>1. Trying(p, f) /\ (core[f] # None => Whole(core[f]))
        BY <1>1, <1>2, <1>12, <2>2, Own DEF Fetching
      <3> QED
        BY <1>3, <1>6, <1>12, <2>1, <2>2, <3>1, OwnFlavor
    <2>3. CASE g # f
      BY <1>3, <1>6, <1>9, <1>12, <2>1, <2>3, OtherFlavor
    <2> QED
      BY <2>2, <2>3
  <1> QED
    BY <1>3, <1>6, <1>8, <1>10, <1>11, <1>12, StepKeeps

-----------------------------------------------------------------------------
(* The steps that begin or end a command, or one of its parts.             *)

LEMMA EdgeFetches ==
    ASSUME Inv, NEW p \in Callers, \A q \in Callers \ {p} : Follows(q),
           NEW g \in Flavors \ shared, ~Trying(p, g)',
           core'[g] # None => Whole(core'[g]),
           \A q \in Callers \ {p} :
              Trying(q, g) /\ call[q].pc \in {"copy", "install"} => temp'[g] = temp[g]
    PROVE  Fetches(g)'
  <1>1. Fetches(g)
    BY DEF Inv
  <1>2. ASSUME NEW q \in Callers \ {p}
        PROVE  /\ Trying(q, g)' <=> Trying(q, g)
               /\ Trying(q, g) => call'[q].pc = call[q].pc /\ call'[q].release = call[q].release
    <2>1. CASE call[q] = Idle /\ call'[q] = Idle
      BY <2>1 DEF Trying, Fetching, Idle
    <2>2. CASE /\ call'[q].pc = call[q].pc /\ call'[q].release = call[q].release
               /\ call'[q].urls = call[q].urls /\ call'[q].flavors = call[q].flavors
      BY <2>2 DEF Trying, Fetching, Flavor
    <2> QED
      BY <2>1, <2>2 DEF Follows
  <1>3. (core[g] # None => Whole(core[g]))'
    BY DEF Whole
  <1> QED
    BY <1>1, <1>2, <1>3 DEF Fetches

LEMMA Enters ==
    ASSUME Assumptions, NEW request \in Requests, NEW sole \in BOOLEAN, NEW c, active \in Flavors,
           c = [parts |-> request, did |-> <<>>, flavors |-> <<>>,
                pc |-> "inspect", core |-> active, ask |-> active, seen |-> None,
                release |-> None, urls |-> 0, at |-> None, again |-> TRUE, left |-> {},
                ok |-> TRUE, warned |-> FALSE, sole |-> sole]
    PROVE  c \in Call /\ c.pc = "inspect" /\ c.did = <<>> /\ (c.sole => sole) /\ Asked(c) /\ Stage(c)
  <1>1. "inspect" \in Pcs /\ 0 \in 0..Candidates
    BY DEF Pcs, Assumptions, BoundsAssumption
  <1>2. c \in Call
    <2>1. request \in Seq(Parts)
      BY DEF Assumptions, RequestsAssumption
    <2> QED
      BY <1>1, <2>1 DEF Call
  <1>3. /\ c.pc = "inspect" /\ c.did = <<>> /\ (c.sole => sole) /\ c.parts = request
    OBVIOUS
  <1>4. Asked(c)
    BY <1>3 DEF Asked, Assumptions, RequestsAssumption
  <1> QED
    BY <1>2, <1>3, <1>4 DEF Stage

LEMMA BeginKeeps ==
    ASSUME Assumptions, Inv, NEW p \in Callers, Begin(p)
    PROVE  Inv'
  <1>1. PICK request \in Requests :
          /\ call[p] = Idle
          /\ calls < MaxCalls /\ calls' = calls + 1
          /\ call' = [q \in Callers |->
                IF q = p THEN
                   [parts |-> request, did |-> <<>>, flavors |-> <<>>,
                    pc |-> "inspect", core |-> active, ask |-> active, seen |-> None,
                    release |-> None, urls |-> 0, at |-> None, again |-> TRUE, left |-> {},
                    ok |-> TRUE, warned |-> FALSE, sole |-> Others(p) = {}]
                ELSE IF call[q] = Idle THEN Idle ELSE [call[q] EXCEPT !.sole = FALSE]]
          /\ UNCHANGED <<coreVars, treeVars, latest, mishaps>>
    BY DEF Begin
  <1>2. Records /\ active \in Flavors
    BY SameTypes DEF Inv, TypeOK, Records
  <1>3. /\ call'[p] \in Call /\ call'[p].pc = "inspect" /\ call'[p].did = <<>>
        /\ call'[p].sole => Others(p) = {}
        /\ Asked(call'[p]) /\ Stage(call'[p])
    <2>1. (Others(p) = {}) \in BOOLEAN
      OBVIOUS
    <2>2. call'[p] = [parts |-> request, did |-> <<>>, flavors |-> <<>>,
                    pc |-> "inspect", core |-> active, ask |-> active, seen |-> None,
                    release |-> None, urls |-> 0, at |-> None, again |-> TRUE, left |-> {},
                    ok |-> TRUE, warned |-> FALSE, sole |-> Others(p) = {}]
      BY <1>1
    <2> QED
      BY <1>2, <2>1, <2>2, Enters
  <1>4. ASSUME NEW q \in Callers \ {p}
        PROVE  /\ Follows(q) /\ call'[q] \in {Idle} \union Call
               /\ call[q] = Idle => call'[q] = Idle
               /\ call'[q] # Idle => ~call'[q].sole
    <2>1. CASE call[q] = Idle
      BY <1>1, <2>1 DEF Follows
    <2>2. CASE call[q] # Idle
      <3>1. call[q] \in Call
        BY <1>2, <2>2 DEF Records
      <3>2. call'[q] = [call[q] EXCEPT !.sole = FALSE]
        BY <1>1, <2>2
      <3>3. call'[q] \in Call
        BY <3>1, <3>2 DEF Call
      <3>4. ~call'[q].sole
        BY <3>1, <3>2 DEF Call
      <3> QED
        BY <2>2, <3>1, <3>2, <3>3, <3>4 DEF Follows, Call
    <2> QED
      BY <2>1, <2>2
  <1>5. Records'
    <2>1. call' = [q \in Callers |-> call'[q]]
      BY <1>1
    <2> QED
      BY <1>3, <1>4, <2>1 DEF Records
  <1>6. TypeOK'
    <2>1. calls' \in 0..MaxCalls
      <3>1. calls \in 0..MaxCalls /\ MaxCalls \in Nat
        BY DEF Inv, TypeOK, Assumptions, BoundsAssumption
      <3> QED
        BY <1>1, <3>1
    <2> QED
      BY <1>1, <1>5, <2>1 DEF Inv, TypeOK, Records, coreVars, treeVars
  <1>7. call'[p].sole => Alone(p)'
    <2>1. ASSUME NEW q \in Callers \ {p}, Others(p) = {} PROVE call'[q] = Idle
      BY <1>2, <1>4, <2>1, Active, IdleOrNot DEF Others, Records
    <2> QED
      BY <1>3, <2>1 DEF Alone
  <1>8. Story(p)'
    BY <1>3 DEF Story
  <1>9. ASSUME NEW g \in Flavors \ shared PROVE Fetches(g)'
    <2>1. ~Trying(p, g)'
      BY <1>3 DEF Trying, Fetching
    <2>2. core[g] # None => Whole(core[g])
      BY <1>9 DEF Inv, Fetches
    <2> QED
      BY <1>1, <1>4, <1>9, <2>1, <2>2, EdgeFetches DEF coreVars
  <1> QED
    BY <1>1, <1>3, <1>4, <1>6, <1>7, <1>8, <1>9, EdgeKeeps DEF coreVars

LEMMA EndMoves ==
    ASSUME Records, NEW p \in Callers, call' = [call EXCEPT ![p] = Idle]
    PROVE  /\ Records' /\ call'[p] = Idle /\ \A q \in Callers \ {p} : Follows(q)
  BY DEF Records, Follows

LEMMA ReturnKeeps ==
    ASSUME Assumptions, Inv, NEW p \in Callers, Return(p)
    PROVE  Inv'
  <1>1. Records /\ call[p] # Idle /\ UNCHANGED coreVars
    BY Here DEF Return
  <1>2. /\ Records' /\ call'[p] = Idle /\ \A q \in Callers \ {p} : Follows(q)
    BY <1>1, EndMoves DEF Return
  <1>3. TypeOK'
    BY <1>2, AsideTypes, SameTypes DEF Return, Assumptions, treeVars
  <1>4. ASSUME NEW g \in Flavors \ shared PROVE Fetches(g)'
    <2>1. ~Trying(p, g)'
      BY <1>2 DEF Trying, Fetching, Idle
    <2>2. core[g] # None => Whole(core[g])
      BY <1>4 DEF Inv, Fetches
    <2> QED
      BY <1>1, <1>2, <1>4, <2>1, <2>2, EdgeFetches DEF coreVars
  <1> QED
    BY <1>1, <1>2, <1>3, <1>4, EdgeKeeps DEF coreVars

LEMMA CrashKeeps ==
    ASSUME Assumptions, Inv, NEW p \in Callers, Crash(p)
    PROVE  Inv'
  <1> DEFINE files == IF Fetching(p) THEN {Flavor(p)} ELSE {}
  <1>1. /\ Records /\ call[p] # Idle /\ UNCHANGED <<shared, active, cache, running, latest, calls>>
        /\ Mishap
        /\ core' = [f \in Flavors |-> IF f \in files THEN Spoil(core[f], p) ELSE core[f]]
        /\ temp' = [f \in Flavors |-> IF f \in files THEN Spoil(temp[f], p) ELSE temp[f]]
    BY Here DEF Crash
  <1>2. /\ Records' /\ call'[p] = Idle /\ \A q \in Callers \ {p} : Follows(q)
    BY <1>1, EndMoves DEF Crash
  <1>3. TypeOK'
    <2> DEFINE torn(kind) == IF call[p].pc = "unpack" /\ Is(p, kind) THEN call[p].left ELSE {}
    <2>1. \/ UNCHANGED <<assets, dashboard>>
          \/ /\ \E x \in torn("assets") : assets' = [assets EXCEPT ![x] = Torn]
             /\ UNCHANGED dashboard
          \/ /\ dashboard # None
             /\ \E x \in torn("dashboard") : dashboard' = [dashboard EXCEPT ![x] = Torn]
             /\ UNCHANGED assets
      BY DEF Crash
    <2> HIDE DEF torn
    <2>2. Torn \in Contents
      BY DEF Contents
    <2>3. /\ assets' \in [Assets -> Contents]
          /\ dashboard' \in {None} \union [DashboardFiles -> Contents]
      BY <2>1, <2>2, SameTypes
    <2>4. /\ core' \in [Flavors -> {None} \union CoreFiles]
          /\ temp' \in [Flavors -> {None} \union CoreFiles]
      BY <1>1, SameTypes, Ended DEF Assumptions
    <2> QED
      BY <1>1, <1>2, <2>3, <2>4, Bounded DEF Inv, TypeOK, Records, Assumptions
  <1>4. ASSUME NEW g \in Flavors \ shared PROVE Fetches(g)'
    <2>1. ~Trying(p, g)'
      BY <1>2 DEF Trying, Fetching, Idle
    <2>2. core'[g] # None => Whole(core'[g])
      <3>1. core[g] # None => Whole(core[g])
        BY <1>4 DEF Inv, Fetches
      <3> QED
        BY <1>1, <1>4, <3>1, SameTypes, Ended DEF Assumptions
    <2>3. ASSUME NEW q \in Callers \ {p}, Trying(q, g), call[q].pc \in {"copy", "install"}
          PROVE  temp'[g] = temp[g]
      <3>1. temp[g].by \in {q, None}
        <4>1. \/ temp[g] = [from |-> {call[q].release}, by |-> q]
              \/ temp[g] = [from |-> {call[q].release}, by |-> None]
          BY <1>4, <2>3 DEF Inv, Fetches
        <4> QED
          BY <4>1
      <3>2. temp[g].by # p
        BY <2>3, <3>1 DEF Assumptions, NoneAssumption
      <3> QED
        BY <1>1, <1>4, <3>2 DEF Spoil
    <2> QED
      BY <1>2, <1>4, <2>1, <2>2, <2>3, EdgeFetches
  <1> QED
    BY <1>1, <1>2, <1>3, <1>4, EdgeKeeps

(* The record of a command that goes on with parts, with one more done.    *)
After(c, parts, done) == [Enter(c, parts) EXCEPT !.did = Append(@, done)]

LEMMA Entered ==
    ASSUME NEW c \in Call, NEW parts \in Seq(Parts), parts # <<>>, NEW done \in Done
    PROVE  LET d == After(c, parts, done) IN
           /\ d \in Call /\ d.parts = parts /\ d.did = Append(c.did, done) /\ d.core = c.core
           /\ d.pc = FirstPc(Head(parts)) /\ d.flavors = Head(parts).flavors
           /\ (d.sole <=> c.sole) /\ d.warned = c.warned
  <1> DEFINE d == After(c, parts, done)
  <1>1. Head(parts) \in Parts
    OBVIOUS
  <1>2. FirstPc(Head(parts)) \in Pcs /\ Head(parts).flavors \in Seq(Flavors)
    BY <1>1, FirstPcs DEF Parts, Pcs
  <1> DEFINE pc == FirstPc(Head(parts))
             flavors == Head(parts).flavors
             did == Append(c.did, done)
  <1>3. d = [c EXCEPT !.parts = parts, !.pc = pc, !.flavors = flavors, !.again = TRUE,
                      !.left = {}, !.did = did]
    BY DEF After, Enter, Call
  <1>4. did \in Seq(Done)
    BY DEF Call
  <1> HIDE DEF pc, flavors, did, d
  <1>5. d \in Call
    BY <1>2, <1>3, <1>4 DEF Call, pc, flavors
  <1>6. /\ d.parts = parts /\ d.did = did /\ d.core = c.core /\ d.pc = pc
        /\ d.flavors = flavors /\ (d.sole <=> c.sole) /\ d.warned = c.warned
    BY <1>3 DEF Call
  <1> QED
    BY <1>5, <1>6 DEF pc, flavors, did, d

LEMMA NextAsked ==
    ASSUME NEW c \in Call, Asked(c), Len(c.parts) > 1, NEW done \in Done,
           done.part = Head(c.parts), NEW d, d.parts = Tail(c.parts), d.did = Append(c.did, done)
    PROVE  Asked(d)
  <1>1. /\ c.parts \in Seq(Parts) /\ c.did \in Seq(Done) /\ Head(c.parts) = c.parts[1]
        /\ 1 \in DOMAIN c.parts
    BY DEF Call
  <1>2. /\ d.parts \in Seq(Parts) /\ Len(d.parts) = Len(c.parts) - 1
        /\ \A j \in DOMAIN d.parts : j + 1 \in DOMAIN c.parts /\ d.parts[j] = c.parts[j + 1]
    BY <1>1
  <1>3. d.parts # <<>>
    <2>1. \A t \in Seq(Parts) : Len(t) > 0 => t # <<>>
      OBVIOUS
    <2>2. Len(d.parts) > 0
      BY <1>1, <1>2
    <2> QED
      BY <1>2, <2>1, <2>2
  <1>4. ASSUME NEW i \in DOMAIN d.parts, NEW j \in DOMAIN d.parts, i < j
        PROVE  Precedes(d.parts[i], d.parts[j])
    <2>1. i + 1 \in DOMAIN c.parts /\ j + 1 \in DOMAIN c.parts /\ i + 1 < j + 1
      BY <1>2, <1>4
    <2> QED
      BY <1>2, <2>1 DEF Asked
  <1>5. ASSUME NEW i \in DOMAIN d.did, NEW j \in DOMAIN d.parts
        PROVE  Precedes(d.did[i].part, d.parts[j])
    <2>1. j + 1 \in DOMAIN c.parts /\ 1 < j + 1 /\ d.parts[j] = c.parts[j + 1]
      BY <1>2
    <2>2. CASE i \in DOMAIN c.did
      <3>1. d.did[i] = c.did[i]
        BY <1>1, <2>2
      <3> QED
        BY <2>1, <2>2, <3>1 DEF Asked
    <2>3. CASE i \notin DOMAIN c.did
      <3>1. d.did[i] = done
        BY <1>1, <2>3
      <3>2. Precedes(c.parts[1], c.parts[j + 1])
        BY <1>1, <2>1 DEF Asked
      <3> QED
        BY <1>1, <2>1, <3>1, <3>2
    <2> QED
      BY <2>2, <2>3
  <1>6. \A i \in DOMAIN d.parts : d.parts[i].kind = "cores" => d.parts[i].flavors # <<>>
    BY <1>2 DEF Asked
  <1> QED
    BY <1>3, <1>4, <1>5, <1>6 DEF Asked

LEMMA KeptSame ==
    ASSUME NEW p, NEW part, NEW release, Kept(p, part, release),
           UNCHANGED coreVars, UNCHANGED treeVars, call'[p].core = call[p].core,
           call'[p].warned = call[p].warned
    PROVE  Kept(p, part, release)'
  BY DEF Kept, CacheTrue, Whole, coreVars, treeVars

LEMMA NextPartKeeps ==
    ASSUME Assumptions, Inv, NEW p \in Callers, NextPart(p)
    PROVE  Inv'
  <1> DEFINE done == [part |-> Part(p), release |-> call[p].release]
             parts == Tail(call[p].parts)
             d == After(call[p], parts, done)
  <1>1. /\ Records /\ call[p] \in Call /\ call[p] # Idle /\ Asked(call[p])
        /\ Part(p) \in Parts /\ call[p].pc = "done" /\ call[p].ok /\ Len(call[p].parts) > 1
        /\ UNCHANGED coreVars /\ UNCHANGED treeVars /\ NoMishap
    BY Here DEF NextPart
  <1>2. call[p].parts \in Seq(Parts) /\ call[p].release \in Releases \union {None}
    BY <1>1 DEF Call
  <1>3. done \in Done /\ parts \in Seq(Parts)
    BY <1>1, <1>2 DEF Done
  <1>4. call' = [call EXCEPT ![p] = d]
    BY DEF NextPart, After
  <1>5. done.part = Head(call[p].parts)
    BY DEF Part
  <1>6. parts # <<>>
    <2>1. \A t \in Seq(Parts) : Len(t) > 0 => t # <<>>
      OBVIOUS
    <2>2. Len(parts) > 0
      BY <1>1, <1>2
    <2> QED
      BY <1>3, <2>1, <2>2
  <1>7. /\ d \in Call /\ d.parts = parts /\ d.did = Append(call[p].did, done)
        /\ d.core = call[p].core /\ d.pc = FirstPc(Head(parts))
        /\ d.flavors = Head(parts).flavors /\ (d.sole <=> call[p].sole)
        /\ d.warned = call[p].warned
    <2> HIDE DEF done, parts
    <2> QED
      BY <1>1, <1>3, <1>6, Entered
  <1> HIDE DEF d
  <1>8. /\ call'[p] = d /\ Records' /\ \A q \in Callers \ {p} : call'[q] = call[q]
    BY <1>1, <1>4, <1>7 DEF Records
  <1>9. \A q \in Callers \ {p} : Follows(q)
    BY <1>1, <1>8 DEF Follows, Records
  <1>10. Asked(d)
    BY <1>1, <1>3, <1>5, <1>7, NextAsked DEF parts
  <1>11. TypeOK'
    BY <1>1, <1>8, AsideTypes, SameTypes DEF Assumptions, treeVars
  <1>12. /\ Head(parts).kind \in Kinds
         /\ Head(parts).kind = "cores" => Head(parts).flavors # <<>>
    <2>1. Head(d.parts) \in Parts
      BY <1>3, <1>6, <1>7
    <2> QED
      BY <1>7, <1>10, <2>1, HeadOfParts DEF Asked, Parts
  <1>13. \/ Head(parts).kind = "cores" /\ d.pc = "fetch"
         \/ Head(parts).kind = "switch" /\ d.pc = "switch"
         \/ Head(parts).kind = "assets" /\ d.pc = "manifest"
         \/ Head(parts).kind = "dashboard" /\ d.pc = "replace"
         \/ Head(parts).kind = "reset" /\ d.pc = "check"
         \/ Head(parts).kind = "start" /\ d.pc = "start"
    BY <1>7, <1>12, FirstPcs
  <1> HIDE DEF parts
  <1>14. Stage(d)
    BY <1>7, <1>12, <1>13 DEF Stage
  <1>15. ASSUME d.sole PROVE Alone(p)' /\ Story(p)'
    <2>1. Alone(p) /\ Story(p)
      BY <1>1, <1>7, <1>15, Here
    <2>2. ASSUME NEW i \in DOMAIN d.did, NEW part, NEW release,
                 part = d.did[i].part, release = d.did[i].release
          PROVE  Kept(p, part, release)'
      <3>1. Kept(p, part, release)
        <4>1. CASE i \in DOMAIN call[p].did
          <5>1. d.did[i] = call[p].did[i]
            BY <1>1, <1>7, <4>1 DEF Call
          <5> QED
            BY <2>1, <2>2, <4>1, <5>1 DEF Story
        <4>2. CASE i \notin DOMAIN call[p].did
          <5>1. d.did[i] = done
            BY <1>1, <1>7, <4>2 DEF Call
          <5> QED
            BY <1>1, <2>1, <2>2, <5>1 DEF Story
        <4> QED
          BY <4>1, <4>2
      <3> QED
        BY <1>1, <1>7, <1>8, <3>1, KeptSame
    <2>3. (\A i \in DOMAIN call[p].did : Kept(p, call[p].did[i].part, call[p].did[i].release))'
      BY <1>8, <2>2
    <2>4. Part(p)' = Head(parts)
      BY <1>7, <1>8 DEF Part
    <2>5. Story(p)'
      BY <1>7, <1>8, <1>13, <2>3, <2>4 DEF Story
    <2> QED
      BY <1>8, <2>1, <2>5 DEF Alone
  <1>16. ASSUME NEW g \in Flavors \ shared PROVE Fetches(g)'
    <2>1. ~Trying(p, g)'
      BY <1>8, <1>13 DEF Trying, Fetching
    <2>2. core[g] # None => Whole(core[g])
      BY <1>16 DEF Inv, Fetches
    <2> QED
      BY <1>1, <1>9, <1>16, <2>1, <2>2, EdgeFetches DEF coreVars
  <1> QED
    BY <1>1, <1>8, <1>9, <1>10, <1>11, <1>14, <1>15, <1>16, EdgeKeeps DEF coreVars

-----------------------------------------------------------------------------
(* The invariant holds.                                                    *)

LEMMA InitHolds == ASSUME Assumptions, Init PROVE Inv
  <1>1. 1 \in Releases
    BY DEF Assumptions, BoundsAssumption, Releases
  <1>2. [from |-> {1}, by |-> None] \in CoreFiles /\ Whole([from |-> {1}, by |-> None])
    BY <1>1, OfOne DEF Assumptions
  <1>3. TypeOK
    <2>1. core \in [Flavors -> {None} \union CoreFiles]
      BY <1>2 DEF Init
    <2>2. 0 \in 0..MaxCalls /\ 0 \in 0..MaxMishaps
      BY DEF Assumptions, BoundsAssumption
    <2> QED
      BY <1>1, <2>1, <2>2 DEF Init, TypeOK, Flavors, Contents
  <1>4. \A p \in Callers : call[p] = Idle
    BY DEF Init
  <1>5. ASSUME NEW f \in Flavors PROVE Fetches(f)
    <2>1. \A p \in Callers : ~Trying(p, f)
      BY <1>4 DEF Trying, Fetching, Idle
    <2>2. core[f] = None \/ core[f] = [from |-> {1}, by |-> None]
      BY DEF Init
    <2>3. core[f] # None => Whole(core[f])
      BY <1>2, <2>2
    <2> QED
      BY <2>1, <2>3 DEF Fetches
  <1> QED
    BY <1>3, <1>4, <1>5 DEF Inv

(* A step that no command takes part in.                                   *)
LEMMA SameKeeps ==
    ASSUME Inv, UNCHANGED coreVars, UNCHANGED treeVars, call' = call, TypeOK'
    PROVE  Inv'
  <1>1. ASSUME NEW p \in Callers, call[p] # Idle
        PROVE  /\ Asked(call'[p]) /\ Stage(call'[p])
               /\ call'[p].sole => Alone(p)' /\ Story(p)'
    <2>1. /\ Asked(call[p]) /\ Stage(call[p])
          /\ call[p].sole => Alone(p) /\ Story(p)
      BY <1>1 DEF Inv
    <2>2. Alone(p) => Alone(p)'
      BY DEF Alone
    <2>3. ASSUME Story(p) PROVE Story(p)'
      <3>1. Part(p)' = Part(p) /\ Flavor(p)' = Flavor(p)
        BY DEF Part, Flavor
      <3>2. \A part, release : Kept(p, part, release) => Kept(p, part, release)'
        BY KeptSame
      <3>3. /\ \A g : Downloaded(g) => Downloaded(g)'
            /\ \A g : CacheTrue(g) => CacheTrue(g)'
            /\ \A x : Gone(x) => Gone(x)'
        BY DEF Downloaded, CacheTrue, Gone, Whole, coreVars, treeVars
      <3>4. /\ core' = core /\ temp' = temp /\ active' = active /\ running' = running
            /\ assets' = assets /\ dashboard' = dashboard
        BY DEF coreVars, treeVars
      <3>5. (\A i \in DOMAIN call[p].did : Kept(p, call[p].did[i].part, call[p].did[i].release))'
        BY <2>3, <3>2 DEF Story
      <3>6. (call[p].pc = "done" /\ call[p].ok => Kept(p, Part(p), call[p].release))'
        BY <2>3, <3>1, <3>2 DEF Story
      <3>7. (call[p].pc = "cleanup" /\ call[p].ok => Whole(core[Flavor(p)]))'
        BY <2>3, <3>1, <3>4 DEF Story, Whole
      <3> QED
        BY <2>3, <3>1, <3>3, <3>4, <3>5, <3>6, <3>7 DEF Story, Elements
    <2> QED
      BY <2>1, <2>2, <2>3
  <1>2. ASSUME NEW g \in Flavors \ shared PROVE Fetches(g)'
    BY <1>2 DEF Inv, Fetches, Whole, Trying, Fetching, Flavor, coreVars
  <1> QED
    BY <1>1, <1>2 DEF Inv, coreVars

LEMMA NextKeeps ==
    ASSUME Assumptions, Inv, [Next]_vars
    PROVE  Inv'
  <1>1. CASE Publish
    <2>1. latest' \in Releases
      <3>1. latest \in Releases /\ MaxReleases \in Nat
        BY SameTypes DEF Assumptions, BoundsAssumption
      <3> QED
        BY <1>1, <3>1 DEF Publish, Releases
    <2>2. TypeOK'
      BY <1>1, <2>1 DEF Publish, Inv, TypeOK, coreVars, treeVars
    <2> QED
      BY <1>1, <2>2, SameKeeps DEF Publish
  <1>2. ASSUME NEW p \in Callers, Step(p) PROVE Inv'
    <2>1. CASE Begin(p) \/ NextPart(p) \/ Return(p) \/ Crash(p)
      BY <2>1, BeginKeeps, NextPartKeeps, ReturnKeeps, CrashKeeps
    <2>2. CASE Inspect(p) \/ SaveCache(p) \/ Switch(p) \/ ClearCache(p) \/ AskCore(p) \/ TellCache(p)
      BY <2>2, InspectKeeps, SaveCacheKeeps, SwitchKeeps, ClearCacheKeeps, AskCoreKeeps,
         TellCacheKeeps
    <2>3. CASE \/ FetchRelease(p) \/ OpenTemp(p) \/ Copied(p) \/ CopyFailed(p) \/ NoUrlLeft(p)
               \/ InstallCore(p) \/ CleanupTemp(p)
      BY <2>3, FetchReleaseKeeps, OpenTempKeeps, CopiedKeeps, CopyFailedKeeps, NoUrlLeftKeeps,
         InstallCoreKeeps, CleanupTempKeeps
    <2>4. CASE FetchAssets(p) \/ UnpackAsset(p) \/ AssetsStatus(p)
      BY <2>4, FetchAssetsKeeps, UnpackAssetKeeps, AssetsStatusKeeps
    <2>5. CASE \/ ReplaceDashboard(p) \/ DownloadDashboard(p) \/ UnpackDashboard(p)
               \/ VerifyDashboard(p)
      BY <2>5, ReplaceDashboardKeeps, DownloadDashboardKeeps, UnpackDashboardKeeps,
         VerifyDashboardKeeps
    <2>6. CASE ResetCheck(p) \/ ResetRemove(p) \/ Start(p)
      BY <2>6, ResetCheckKeeps, ResetRemoveKeeps, StartKeeps
    <2> QED
      BY <1>2, <2>1, <2>2, <2>3, <2>4, <2>5, <2>6 DEF Step
  <1>3. CASE UNCHANGED vars
    <2>1. TypeOK'
      BY <1>3 DEF vars, Inv, TypeOK
    <2> QED
      BY <1>3, <2>1, SameKeeps DEF vars, coreVars, treeVars
  <1> QED
    BY <1>1, <1>2, <1>3 DEF Next

(* The types, the stages, the downloads and the stories hold at all times,  *)
(* whatever commands overlap, fail and die.                                *)
THEOREM Invariance == Spec => []Inv
  <1> USE RequestsAssumption, BoundsAssumption, NoneAssumption DEF Assumptions
  <1>1. Init => Inv
    BY InitHolds
  <1>2. Inv /\ [Next]_vars => Inv'
    BY NextKeeps
  <1> QED
    BY <1>1, <1>2, PTL DEF Spec

(* The variables keep their types in every step of every command, a crash   *)
(* and a new release included.                                             *)
THEOREM TypeInvariant == Spec => []TypeOK
  BY Invariance, PTL DEF Inv

(* Whatever commands overlap, fail and die: the core that a runtime would   *)
(* start is whole, of every flavor that no two downloads have fetched at    *)
(* the same time.                                                          *)
THEOREM CoresStayWhole == Spec => []CoresWhole
  <1>1. Inv => CoresWhole
    BY DEF Inv, Fetches, CoresWhole
  <1> QED
    BY <1>1, Invariance, PTL

(* What a command answers that ran alone is so, at its end, of each of its  *)
(* parts, for every desired state.                                         *)
THEOREM AnswersKept == Spec => []AnswersHold
  <1>1. ASSUME Inv PROVE AnswersHold
    <2>1. ASSUME NEW p \in Callers, call[p].pc = "done", call[p].ok, call[p].sole
          PROVE  /\ Kept(p, Part(p), call[p].release)
                 /\ \A i \in DOMAIN call[p].did :
                       Kept(p, call[p].did[i].part, call[p].did[i].release)
      <3>1. Story(p)
        BY <1>1, <2>1, Here
      <3> QED
        BY <2>1, <3>1 DEF Story
    <2> QED
      BY <2>1 DEF AnswersHold
  <1> QED
    BY <1>1, Invariance, PTL
=============================================================================
