----------------------------- MODULE DecompProofs ----------------------------
(***************************************************************************)
(* Theorems about the life of the decompiler for any programs, any command *)
(* lines and any number of starts and loads; and that kuna's client and    *)
(* server never keep or show the code of one function for another          *)
(* (OwnAnswer), for any number of callers, calls and faults.               *)
(***************************************************************************)
EXTENDS Decomp, Kuna, SequenceTheorems, TLAPS

-----------------------------------------------------------------------------
(* The invariant.                                                          *)

Jobs == {"starting", "came up", "failed", "watch", "discard", "done"}
States == {"", "starting", "ready", "failed", "off"}
Names == {"", "ghidra", "kuna"}
Steps == {"idle", "learn", "check", "start", "answer", "emit", "bias", "pick", "ended"}
Records == [state : States, client : Nat, starting : BOOLEAN,
            writable : BOOLEAN, closed : BOOLEAN, sidecar : BOOLEAN, miss : BOOLEAN,
            using : Names, prefer : Names, loads : Nat, anchor : Nat]
ClientTypes == [kind : {"ghidra", "sidecar", "kuna"}, prog : Programs \cup {NoProgram, Own},
                loads : Nat, job : Jobs, alive : BOOLEAN]

\* Every variable keeps its type.
DecompTypes ==
    /\ cfg \in ConfigTypes
    /\ d \in Records
    /\ d.client \in Ids \cup {NoClient} /\ d.anchor \in Ids \cup {NoClient}
    /\ clients \in Seq(ClientTypes)
    /\ loaded \in Programs \cup {NoProgram} /\ target \in Programs \cup {NoProgram}
    /\ learned \in [exe : Programs \cup {NoProgram}, file : Programs \cup {NoProgram}]
    /\ actor \in [at : Steps, why : {"", "status", "names", "use"}, closing : Nat, held : Nat]
    /\ actor.held \in Ids \cup {NoClient} /\ actor.closing \in Ids \cup {NoClient}
    /\ pane \in Nat /\ news \in BOOLEAN

Flying == {"starting", "came up", "failed"}
InFlight(c) == clients[c].job \in Flying

\* The record's fields agree with each other.
RecordAgrees ==
    /\ (d.state = "ready") <=> (d.client # NoClient)
    /\ d.starting => d.client = NoClient
    /\ d.state = "off" => d.closed
    /\ d.closed => d.client = NoClient

\* One start at a time, the last that began, while the record says so.
OneInFlight ==
    /\ d.starting => \E c \in Ids : InFlight(c)
    /\ \A c \in Ids : InFlight(c) => d.starting /\ c = Len(clients)

\* The actor that is about to start one finds none.
FreeToStart == actor.at = "start" => ~Busy

OneStart == RecordAgrees /\ OneInFlight /\ FreeToStart

\* A process runs from the return of its start until its goroutine is done.
NoneLeft ==
    /\ NoOrphan
    /\ \A c \in Ids : clients[c].job \in {"starting", "failed", "done"} => ~clients[c].alive

\* An anchor outlives its client only until the next start; the actor holds on
\* to the client in use, or to one that has died since.
AnchorKnown ==
    /\ AnchorOfClient
    /\ d.anchor # NoClient => ~d.starting /\ d.state \in {"ready", "failed", "off"}
    /\ actor.at \in {"bias", "pick"} =>
          /\ ~d.starting /\ actor.held # NoClient
          /\ d.client = actor.held \/ (d.client = NoClient /\ d.state = "failed")

\* A start is of the program there was when it began; what came up for one
\* program is known to be that.
StartsDescribe ==
    /\ Describes
    /\ \A c \in Ids : InFlight(c) /\ clients[c].kind # "ghidra" =>
          /\ clients[c].loads <= d.loads
          /\ clients[c].loads = d.loads => clients[c].prog = Program
    /\ d.client # NoClient /\ clients[d.client].kind # "ghidra" => d.sidecar

\* The pane shows what is in use, or will be told, or is being told.
PaneTold ==
    \/ pane = d.client
    \/ news
    \/ actor.at = "ended"
    \/ actor.at \in {"learn", "check", "start", "answer", "emit"} /\ actor.why \in {"status", "use"}

DecompInv == DecompTypes /\ OneStart /\ NoneLeft /\ AnchorKnown /\ StartsDescribe /\ PaneTold

-----------------------------------------------------------------------------
(* What the steps do to the clients.                                       *)

\* Client c has gone on to another job, or its process has come or gone.
Moves(c, job, alive) ==
    /\ c \in Ids
    /\ clients' \in Seq(ClientTypes) /\ Len(clients') = Len(clients) /\ Ids' = Ids
    /\ \A i \in Ids : i # c => clients'[i] = clients[i]
    /\ clients'[c] = [clients[c] EXCEPT !.job = job, !.alive = alive]

\* A client has been started.
Starts(kind, prog) ==
    /\ clients' \in Seq(ClientTypes) /\ Len(clients') = Len(clients) + 1
    /\ Ids' = Ids \cup {Len(clients')} /\ Len(clients') \notin Ids
    /\ \A i \in Ids : clients'[i] = clients[i]
    /\ clients'[Len(clients')] = Client(kind, prog)

\* The clients are numbered from one.
LEMMA IdsFacts ==
    ASSUME DecompTypes
    PROVE  /\ Ids = 1..Len(clients) /\ Len(clients) \in Nat
           /\ NoClient \notin Ids
           /\ \A i \in Ids : clients[i] \in ClientTypes
  <1>1. clients \in Seq(ClientTypes)
    BY DEF DecompTypes
  <1>2. Len(clients) \in Nat /\ Ids = 1..Len(clients)
    BY <1>1, LenProperties DEF Ids
  <1>3. \A i \in 1..Len(clients) : clients[i] \in ClientTypes
    BY <1>1, ElementOfSeq
  <1>4. NoClient \notin 1..Len(clients)
    BY <1>2 DEF NoClient
  <1> QED
    BY <1>2, <1>3, <1>4

\* What a change of its fields makes of a client.
LEMMA ClientFields ==
    ASSUME NEW r \in ClientTypes, NEW job \in Jobs, NEW alive \in BOOLEAN
    PROVE  /\ [r EXCEPT !.job = job, !.alive = alive] \in ClientTypes
           /\ r.job \in Jobs /\ r.alive \in BOOLEAN
           /\ [r EXCEPT !.job = job] = [r EXCEPT !.job = job, !.alive = r.alive]
           /\ [r EXCEPT !.alive = alive] = [r EXCEPT !.job = r.job, !.alive = alive]
  BY DEF ClientTypes

\* A change of job or process replaces one client and no other.
LEMMA MovesFacts ==
    ASSUME DecompTypes, NEW c \in Ids, NEW job \in Jobs, NEW alive \in BOOLEAN,
           clients' = [clients EXCEPT ![c] = [clients[c] EXCEPT !.job = job, !.alive = alive]]
    PROVE  Moves(c, job, alive)
  <1> DEFINE e == [clients[c] EXCEPT !.job = job, !.alive = alive]
  <1>1. clients[c] \in ClientTypes /\ Ids = 1..Len(clients) /\ clients \in Seq(ClientTypes)
    BY IdsFacts DEF DecompTypes
  <1>2. e \in ClientTypes
    BY <1>1, ClientFields
  <1>3. clients' = [clients EXCEPT ![c] = e]
    OBVIOUS
  <1> HIDE DEF e
  <1>4. /\ clients' \in Seq(ClientTypes) /\ Len(clients') = Len(clients)
        /\ \A i \in 1..Len(clients) : clients'[i] = IF i = c THEN e ELSE clients[i]
    BY <1>1, <1>2, <1>3, ExceptSeq
  <1>5. Ids' = 1..Len(clients')
    BY <1>4, LenProperties DEF Ids
  <1>6. clients'[c] = e /\ \A i \in Ids : i # c => clients'[i] = clients[i]
    BY <1>1, <1>4
  <1> QED
    BY <1>1, <1>4, <1>5, <1>6 DEF Moves, e

\* The same for a change of the job alone, and of the process alone.
LEMMA JobMoves ==
    ASSUME DecompTypes, NEW c \in Ids, NEW job \in Jobs,
           clients' = [clients EXCEPT ![c].job = job]
    PROVE  Moves(c, job, clients[c].alive)
  <1>1. clients[c] \in ClientTypes
    BY IdsFacts
  <1>2. clients[c].alive \in BOOLEAN
        /\ [clients[c] EXCEPT !.job = job] = [clients[c] EXCEPT !.job = job, !.alive = clients[c].alive]
    BY <1>1, ClientFields
  <1> QED
    BY <1>2, MovesFacts

\* See JobMoves.
LEMMA AliveMoves ==
    ASSUME DecompTypes, NEW c \in Ids, NEW alive \in BOOLEAN,
           clients' = [clients EXCEPT ![c].alive = alive]
    PROVE  Moves(c, clients[c].job, alive)
  <1>0. "done" \in Jobs
    BY DEF Jobs
  <1>1. clients[c] \in ClientTypes
    BY IdsFacts
  <1>2. clients[c].job \in Jobs
        /\ [clients[c] EXCEPT !.alive = alive] = [clients[c] EXCEPT !.job = clients[c].job, !.alive = alive]
    BY <1>1, <1>0, ClientFields
  <1> QED
    BY <1>2, MovesFacts

\* A start appends a client.
LEMMA StartsFacts ==
    ASSUME DecompTypes, NEW kind \in {"ghidra", "sidecar", "kuna"},
           NEW prog \in Programs \cup {NoProgram, Own},
           Starting(kind, prog)
    PROVE  /\ Starts(kind, prog)
           /\ d' = [d EXCEPT !.starting = TRUE, !.state = "starting", !.using = Using(kind)]
  <1> DEFINE e == Client(kind, prog)
  <1>1. e \in ClientTypes
    <2>1. d.loads \in Nat
      BY DEF DecompTypes, Records
    <2> QED
      BY <2>1 DEF Client, ClientTypes, Jobs
  <1>2. clients \in Seq(ClientTypes) /\ Ids = 1..Len(clients) /\ Len(clients) \in Nat
    BY IdsFacts DEF DecompTypes
  <1>3. clients' = Append(clients, e)
    BY DEF Starting
  <1> HIDE DEF e
  <1>4. /\ clients' \in Seq(ClientTypes) /\ Len(clients') = Len(clients) + 1
        /\ \A i \in 1..Len(clients) : clients'[i] = clients[i]
        /\ clients'[Len(clients) + 1] = e
    BY <1>1, <1>2, <1>3, AppendProperties
  <1>5. Ids' = 1..Len(clients')
    BY <1>4, LenProperties DEF Ids
  <1>6. Ids' = Ids \cup {Len(clients')} /\ Len(clients') \notin Ids
    BY <1>2, <1>4, <1>5, SMT
  <1> QED
    BY <1>2, <1>4, <1>6 DEF Starts, Starting, e

\* Which client each step moves, and how.
LEMMA ClientSteps ==
    ASSUME DecompTypes, NEW c \in Ids
    PROVE  /\ CloseClient => Moves(actor.closing, clients[actor.closing].job, FALSE)
           /\ StartReturns(c) => Moves(c, "came up", TRUE) \/ Moves(c, "failed", clients[c].alive)
           /\ Discard(c) => Moves(c, "done", FALSE)
           /\ Watch(c) => Moves(c, "done", clients[c].alive)
           /\ Dies(c) => Moves(c, clients[c].job, FALSE)
           /\ clients' = InUse(c) => Moves(c, "watch", clients[c].alive)
           /\ clients' = NotInUse(c) =>
                 Moves(c, IF CameUp(c) THEN "discard" ELSE "done", clients[c].alive)
  <1>1. CloseClient => actor.closing \in Ids
    BY DEF CloseClient, DecompTypes
  <1>2. \A j \in {"came up", "failed", "watch", "discard", "done"} : j \in Jobs
    BY DEF Jobs
  <1>3. CloseClient => Moves(actor.closing, clients[actor.closing].job, FALSE)
    BY <1>1, AliveMoves DEF CloseClient
  <1>4. StartReturns(c) => Moves(c, "came up", TRUE) \/ Moves(c, "failed", clients[c].alive)
    <2>1. [clients EXCEPT ![c].job = "came up", ![c].alive = TRUE]
          = [clients EXCEPT ![c] = [clients[c] EXCEPT !.job = "came up", !.alive = TRUE]]
      BY IdsFacts
    <2> QED
      BY <2>1, <1>2, JobMoves, MovesFacts DEF StartReturns
  <1>5. Discard(c) => Moves(c, "done", FALSE)
    <2>1. [clients EXCEPT ![c].job = "done", ![c].alive = FALSE]
          = [clients EXCEPT ![c] = [clients[c] EXCEPT !.job = "done", !.alive = FALSE]]
      BY IdsFacts
    <2> QED
      BY <2>1, <1>2, MovesFacts DEF Discard
  <1>6. Watch(c) => Moves(c, "done", clients[c].alive)
    BY <1>2, JobMoves DEF Watch
  <1>7. Dies(c) => Moves(c, clients[c].job, FALSE)
    BY AliveMoves DEF Dies
  <1>8. clients' = InUse(c) => Moves(c, "watch", clients[c].alive)
    BY <1>2, JobMoves DEF InUse
  <1>9. clients' = NotInUse(c) =>
           Moves(c, IF CameUp(c) THEN "discard" ELSE "done", clients[c].alive)
    BY <1>2, JobMoves DEF NotInUse
  <1> QED
    BY <1>3, <1>4, <1>5, <1>6, <1>7, <1>8, <1>9

-----------------------------------------------------------------------------
(* Types.                                                                  *)

\* The actor's steps that leave the record and the clients alone.
Looks ==
    \/ \E why \in {"status", "names"} : Look(why)
    \/ Borrow \/ LearnNothing \/ CheckBusy \/ StartWaits \/ Answer \/ Emit \/ KeepAnchor
    \/ \E p \in Programs \cup {NoProgram} : ChangeTarget(p)
    \/ UNCHANGED vars

\* A load, and learning what gdb has: both go through switchSidecar.
Loads == (\E p \in Programs : Load(p)) \/ LearnProgram

\* The choice of a decompiler.
Uses == \E which \in {"ghidra", "kuna"} : Use(which) \/ UseLater(which)

\* A client is appended, or (the second look) nothing happens.
Launches == StartPerProgram \/ StartGhidra

\* A goroutine ends its start.
Lands == \E c \in Ids : LandPerProgram(c) \/ LandGhidra(c)

\* Steps of one client, of which Watch alone changes the record.
Turns == CloseClient \/ \E c \in Ids : StartReturns(c) \/ Discard(c) \/ Dies(c)

\* The steps, by what they do.
LEMMA StepCases ==
    ASSUME [Next]_vars
    PROVE  \/ Looks \/ Loads \/ Uses \/ Launches \/ StartRefused
           \/ DropAnchor \/ PickAnchor \/ CloseSession
           \/ Lands \/ Turns \/ \E c \in Ids : Watch(c)
  <1>1. CASE UNCHANGED vars
    BY <1>1 DEF Looks
  <1>2. CASE Request
    BY <1>2 DEF Request, Looks, Loads, Uses
  <1>3. CASE Handler
    BY <1>3 DEF Handler, Looks, Loads, Launches, Turns
  <1>4. CASE \E p \in Programs \cup {NoProgram} : ChangeTarget(p)
    BY <1>4 DEF Looks
  <1>5. CASE \E c \in Ids : Goroutine(c) \/ Dies(c)
    BY <1>5 DEF Goroutine, Lands, Turns
  <1> QED
    BY <1>1, <1>2, <1>3, <1>4, <1>5 DEF Next

\* What Looks leaves alone.
LEMMA LooksFacts ==
    ASSUME Looks
    PROVE  UNCHANGED <<cfg, d, clients, loaded, learned>>
  BY DEF Looks, Look, Borrow, LearnNothing, CheckBusy, StartWaits, Answer, Emit, KeepAnchor,
         ChangeTarget, vars

\* What switchSidecar makes of the record.
LEMMA SwitchFacts ==
    ASSUME DecompTypes
    PROVE  /\ Switches => SwitchSidecar = [d EXCEPT !.loads = d.loads + 1, !.client = NoClient,
                             !.state = "", !.sidecar = FALSE, !.miss = FALSE, !.using = "",
                             !.anchor = NoClient]
           /\ ~Switches => SwitchSidecar = [d EXCEPT !.loads = d.loads + 1]
           /\ LetGo = IF Switches THEN d.client ELSE NoClient
  <1>1. d \in Records
    BY DEF DecompTypes
  <1> QED
    BY <1>1 DEF SwitchSidecar, Reset, LetGo, Records

\* What the end of a start that comes to nothing makes of the record, and of one
\* that comes up.
EndedRecord(st) ==
    /\ d' \in Records
    /\ ~d'.starting /\ d'.state = st
    /\ d'.client = d.client /\ d'.anchor = d.anchor /\ d'.loads = d.loads
    /\ d'.closed = d.closed /\ d'.sidecar = d.sidecar

ReadyRecord(c) ==
    /\ d' \in Records
    /\ ~d'.starting /\ d'.state = "ready"
    /\ d'.client = c /\ d'.anchor = d.anchor /\ d'.loads = d.loads
    /\ d'.closed = d.closed

\* See EndedRecord.
LEMMA EndedFacts ==
    ASSUME DecompTypes, NEW st \in States,
           d' = [[d EXCEPT !.starting = FALSE] EXCEPT !.state = st]
    PROVE  EndedRecord(st)
  <1>1. d \in Records
    BY DEF DecompTypes
  <1> QED
    BY <1>1 DEF EndedRecord, Records

\* See ReadyRecord; the two starts differ in what else they write.
LEMMA ReadyFacts ==
    ASSUME DecompTypes, NEW c \in Nat, NEW w \in BOOLEAN, NEW u \in Names, NEW st \in States,
           \/ d' = [[d EXCEPT !.starting = FALSE]
                      EXCEPT !.state = st, !.client = c, !.writable = w, !.sidecar = TRUE,
                             !.using = u]
           \/ d' = [[d EXCEPT !.starting = FALSE]
                      EXCEPT !.state = st, !.client = c, !.writable = w, !.using = u]
    PROVE  /\ d' \in Records
           /\ ~d'.starting /\ d'.state = st
           /\ d'.client = c /\ d'.anchor = d.anchor /\ d'.loads = d.loads
           /\ d'.closed = d.closed
  <1>1. d \in Records
    BY DEF DecompTypes
  <1> QED
    BY <1>1 DEF Records

\* The end of a start: nothing comes of it, or the client is put to use.
LEMMA LandFacts ==
    ASSUME DecompTypes, NEW c \in Ids, LandPerProgram(c) \/ LandGhidra(c)
    PROVE  /\ Landing(c)
           /\ UNCHANGED <<cfg, loaded, target, learned, actor, pane>>
           /\ news' \in BOOLEAN /\ (news => news')
           /\ \/ /\ EndedRecord("off") \/ EndedRecord("") \/ EndedRecord("failed")
                 /\ d'.state = "off" => d.closed
                 /\ Moves(c, IF CameUp(c) THEN "discard" ELSE "done", clients[c].alive)
              \/ /\ ReadyRecord(c) /\ CameUp(c) /\ ~d.closed /\ news'
                 /\ Moves(c, "watch", clients[c].alive)
                 /\ clients[c].kind # "ghidra" => d'.sidecar /\ ~Stale(c)
  <1> DEFINE Nothing == /\ EndedRecord("off") \/ EndedRecord("") \/ EndedRecord("failed")
                        /\ d'.state = "off" => d.closed
                        /\ Moves(c, IF CameUp(c) THEN "discard" ELSE "done", clients[c].alive)
             Used == /\ ReadyRecord(c) /\ CameUp(c) /\ ~d.closed /\ news'
                     /\ Moves(c, "watch", clients[c].alive)
                     /\ clients[c].kind # "ghidra" => d'.sidecar /\ ~Stale(c)
             Ended(st) == d' = [[d EXCEPT !.starting = FALSE] EXCEPT !.state = st]
             Told == news' \in BOOLEAN /\ (news => news')
  <1>1. d \in Records /\ clients[c] \in ClientTypes /\ news \in BOOLEAN /\ cfg \in ConfigTypes
    BY IdsFacts DEF DecompTypes
  <1>2. ASSUME NEW st \in {"off", "", "failed"}, Ended(st), st = "off" => d.closed,
               clients' = NotInUse(c)
        PROVE  Nothing
    <2>1. st \in States
      BY DEF States
    <2>2. EndedRecord(st)
      BY <1>2, <2>1, EndedFacts
    <2>3. Moves(c, IF CameUp(c) THEN "discard" ELSE "done", clients[c].alive)
      BY <1>2, ClientSteps
    <2>4. d'.state = st
      BY <2>2 DEF EndedRecord
    <2> QED
      BY <1>2, <2>2, <2>3, <2>4
  <1>3. CASE LandPerProgram(c)
    <2>1. Landing(c) /\ UNCHANGED <<cfg, loaded, target, learned, actor, pane>>
      BY <1>3 DEF LandPerProgram
    <2>2. CASE /\ d.closed /\ Ended("off") /\ clients' = NotInUse(c)
               /\ news' = (news \/ (Stale(c) /\ ~CameUp(c)))
      BY <1>1, <1>2, <2>1, <2>2
    <2>3. CASE /\ Ended("") /\ clients' = NotInUse(c)
               /\ news' = (news \/ ~CameUp(c))
      BY <1>1, <1>2, <2>1, <2>3
    <2>4. CASE Ended("failed") /\ clients' = NotInUse(c) /\ news' = TRUE
      BY <1>1, <1>2, <2>1, <2>4
    <2>5. CASE /\ ~d.closed /\ ~Stale(c) /\ CameUp(c)
               /\ d' = [[d EXCEPT !.starting = FALSE]
                          EXCEPT !.state = "ready", !.client = c, !.writable = FALSE,
                                 !.sidecar = TRUE, !.using = Using(clients[c].kind)]
               /\ clients' = InUse(c) /\ news' = TRUE
      <3>1. ReadyRecord(c) /\ d'.sidecar
        <4>1. c \in Nat /\ "ready" \in States /\ Using(clients[c].kind) \in Names
          BY IdsFacts DEF Using, States, Names
        <4>2. ReadyRecord(c)
          BY <2>5, <4>1, ReadyFacts DEF ReadyRecord
        <4>3. d'.sidecar
          BY <1>1, <2>5 DEF Records
        <4> QED
          BY <4>2, <4>3
      <3> QED
        BY <2>1, <2>5, <3>1, ClientSteps
    <2> QED
      BY <1>3, <2>2, <2>3, <2>4, <2>5 DEF LandPerProgram
  <1>4. CASE LandGhidra(c)
    <2>1. /\ Landing(c) /\ clients[c].kind = "ghidra"
          /\ UNCHANGED <<cfg, loaded, target, learned, actor, pane>>
      BY <1>4 DEF LandGhidra
    <2>2. CASE Ended("failed") /\ clients' = NotInUse(c) /\ news' = TRUE
      BY <1>1, <1>2, <2>1, <2>2
    <2>3. CASE d.closed /\ Ended("off") /\ clients' = NotInUse(c) /\ UNCHANGED news
      BY <1>1, <1>2, <2>1, <2>3
    <2>4. CASE /\ ~d.closed /\ CameUp(c)
               /\ d' = [[d EXCEPT !.starting = FALSE]
                          EXCEPT !.state = "ready", !.client = c,
                                 !.writable = ~cfg.project, !.using = "ghidra"]
               /\ clients' = InUse(c) /\ news' = TRUE
      <3>1. ReadyRecord(c)
        <4>1. c \in Nat /\ "ready" \in States /\ "ghidra" \in Names /\ (~cfg.project) \in BOOLEAN
          BY IdsFacts DEF States, Names
        <4> QED
          BY <2>4, <4>1, ReadyFacts DEF ReadyRecord
      <3> QED
        BY <2>1, <2>4, <3>1, ClientSteps
    <2> QED
      BY <1>4, <2>2, <2>3, <2>4 DEF LandGhidra
  <1> QED
    BY <1>3, <1>4

\* The record has started over, and has counted n loads.
ResetRecord(n) ==
    /\ d' \in Records
    /\ d'.starting = d.starting /\ d'.state = "" /\ d'.client = NoClient
    /\ d'.anchor = NoClient /\ ~d'.sidecar
    /\ d'.loads = n /\ d'.closed = d.closed

\* Nothing but what the user prefers and the count of loads has changed.
CountedRecord(n) ==
    /\ d' \in Records
    /\ d'.starting = d.starting /\ d'.state = d.state /\ d'.client = d.client
    /\ d'.anchor = d.anchor /\ d'.sidecar = d.sidecar
    /\ d'.loads = n /\ d'.closed = d.closed

\* The blank values have the types of their fields.
LEMMA Blank == "" \in States /\ "" \in Names /\ NoClient \in Nat
  BY DEF States, Names, NoClient

\* A load or a new program resets the record or counts.
LEMMA LoadsFacts ==
    ASSUME DecompTypes, Loads
    PROVE  /\ Switches => ResetRecord(d.loads + 1)
           /\ ~Switches => CountedRecord(d.loads + 1)
           /\ UNCHANGED <<cfg, clients, pane>>
           /\ news' = (news \/ Switches)
           /\ actor.closing = NoClient /\ actor'.closing = LetGo
           /\ \/ actor.at = "idle" /\ actor'.at = "idle"
              \/ actor.at = "learn" /\ actor'.at = "check" /\ actor'.why = actor.why
  <1>1. d \in Records /\ d' = SwitchSidecar
    BY DEF DecompTypes, Loads, Load, LearnProgram
  <1>2. "" \in States /\ "" \in Names /\ NoClient \in Nat /\ d.loads + 1 \in Nat
    <2>1. d.loads \in Nat
      BY <1>1 DEF Records
    <2>2. \A n \in Nat : n + 1 \in Nat
      OBVIOUS
    <2> QED
      BY <2>1, <2>2, Blank
  <1>3. CASE Switches
    <2>1. d' = [d EXCEPT !.loads = d.loads + 1, !.client = NoClient,
                             !.state = "", !.sidecar = FALSE, !.miss = FALSE, !.using = "",
                             !.anchor = NoClient]
      BY <1>1, <1>3, SwitchFacts
    <2>2. ResetRecord(d.loads + 1)
      BY <1>1, <1>2, <2>1 DEF ResetRecord, Records
    <2> QED
      BY <1>3, <2>2 DEF Loads, Load, LearnProgram, Idle, At, DecompTypes
  <1>4. CASE ~Switches
    <2>1. d' = [d EXCEPT !.loads = d.loads + 1]
      BY <1>1, <1>4, SwitchFacts
    <2>2. CountedRecord(d.loads + 1)
      BY <1>1, <1>2, <2>1 DEF CountedRecord, Records
    <2> QED
      BY <1>4, <2>2 DEF Loads, Load, LearnProgram, Idle, At, DecompTypes
  <1> QED
    BY <1>3, <1>4

\* A choice resets the record when nothing is starting, and else makes a start stale.
LEMMA UsesFacts ==
    ASSUME DecompTypes, Uses
    PROVE  /\ UNCHANGED <<cfg, clients, loaded, target, learned, pane, news>>
           /\ \/ /\ ResetRecord(d.loads) /\ ~d.starting
                 /\ At("idle")
                 /\ actor' = [actor EXCEPT !.at = "learn", !.why = "use", !.closing = d.client]
              \/ /\ CountedRecord(IF d.starting THEN d.loads + 1 ELSE d.loads)
                 /\ UNCHANGED actor
  <1>1. d \in Records
    BY DEF DecompTypes
  <1>2. "" \in States /\ "" \in Names /\ NoClient \in Nat /\ d.loads + 1 \in Nat
    <2>1. d.loads \in Nat
      BY <1>1 DEF Records
    <2>2. \A n \in Nat : n + 1 \in Nat
      OBVIOUS
    <2> QED
      BY <2>1, <2>2, Blank
  <1>3. PICK which \in {"ghidra", "kuna"} : Use(which) \/ UseLater(which)
    BY DEF Uses
  <1>4. which \in Names
    BY DEF Names
  <1>5. CASE Use(which)
    <2>1. d' = [[d EXCEPT !.client = NoClient, !.state = "", !.sidecar = FALSE, !.miss = FALSE,
                          !.using = "", !.anchor = NoClient]
                  EXCEPT !.prefer = which, !.writable = FALSE]
      BY <1>5 DEF Use, Reset
    <2>2. ResetRecord(d.loads)
      BY <1>1, <1>2, <1>4, <2>1 DEF ResetRecord, Records
    <2> QED
      BY <1>5, <2>2 DEF Use
  <1>6. CASE UseLater(which)
    <2>1. d' = [d EXCEPT !.prefer = which, !.loads = IF d.starting THEN d.loads + 1 ELSE d.loads]
      BY <1>1, <1>6 DEF UseLater, Records
    <2>2. CountedRecord(IF d.starting THEN d.loads + 1 ELSE d.loads)
      BY <1>1, <1>2, <1>4, <2>1 DEF CountedRecord, Records
    <2> QED
      BY <1>6, <2>2 DEF UseLater
  <1> QED
    BY <1>3, <1>5, <1>6

\* A start has begun.
StartingRecord ==
    /\ d' \in Records
    /\ d'.starting /\ d'.state = "starting" /\ d'.client = d.client /\ d'.anchor = d.anchor
    /\ d'.sidecar = d.sidecar /\ d'.loads = d.loads /\ d'.closed = d.closed

\* Nothing but the state, to s, and the client and the anchor have changed.
EndRecord(s, c, a) ==
    /\ d' \in Records
    /\ d'.starting = d.starting /\ d'.state = s /\ d'.client = c /\ d'.anchor = a
    /\ d'.sidecar = d.sidecar /\ d'.loads = d.loads

\* What the actor goes on with once nothing is left to start.
LEMMA StartedFacts ==
    ASSUME DecompTypes
    PROVE  /\ Started.closing = actor.closing \/ Started.closing = NoClient
           /\ Started.at \in {"idle", "answer", "emit"}
           /\ Started.at = "idle" \/ Started.why = actor.why
           /\ actor.why = "status" => Started.at = "answer"
           /\ actor.why = "use" => Started.at = "emit"
           /\ Started.held = actor.held \/ Started.held = NoClient
           /\ Started \in [at : Steps, why : {"", "status", "names", "use"},
                           closing : Nat, held : Nat]
  <1>1. actor \in [at : Steps, why : {"", "status", "names", "use"}, closing : Nat, held : Nat]
    BY DEF DecompTypes
  <1>2. CASE actor.why = "status"
    <2>1. Started = [actor EXCEPT !.at = "answer"]
      BY <1>2 DEF Started
    <2> QED
      BY <1>1, <1>2, <2>1 DEF Steps
  <1>3. CASE actor.why = "use"
    <2>1. Started = [actor EXCEPT !.at = "emit"]
      BY <1>3 DEF Started
    <2> QED
      BY <1>1, <1>3, <2>1 DEF Steps
  <1>4. CASE actor.why \notin {"status", "use"}
    <2>1. Started = Idle
      BY <1>4 DEF Started
    <2> QED
      BY <1>1, <1>4, <2>1 DEF Steps, Idle, NoClient
  <1> QED
    BY <1>2, <1>3, <1>4

\* A launch starts one client, or finds one running.
LEMMA LaunchesFacts ==
    ASSUME DecompTypes, Launches
    PROVE  /\ UNCHANGED <<cfg, loaded, target, learned, pane, news>>
           /\ At("start") /\ actor' = Started
           /\ \/ UNCHANGED <<d, clients>>
              \/ /\ StartingRecord
                 /\ \E kind \in {"ghidra", "sidecar", "kuna"}, prog \in Programs \cup {NoProgram, Own} :
                       Starts(kind, prog) /\ (kind # "ghidra" => prog = Program)
  <1>1. d \in Records /\ Program \in Programs \cup {NoProgram}
    BY DEF DecompTypes, Program
  <1>2. ASSUME NEW kind \in {"ghidra", "sidecar", "kuna"}, NEW prog \in Programs \cup {NoProgram, Own},
               Starting(kind, prog)
        PROVE  StartingRecord /\ Starts(kind, prog)
    <2>1. Starts(kind, prog)
          /\ d' = [d EXCEPT !.starting = TRUE, !.state = "starting", !.using = Using(kind)]
      BY <1>2, StartsFacts
    <2>2. "starting" \in States /\ Using(kind) \in Names
      BY DEF States, Names, Using
    <2>3. StartingRecord
      BY <1>1, <2>1, <2>2 DEF StartingRecord, Records
    <2> QED
      BY <2>1, <2>3
  <1>3. CASE StartPerProgram
    <2>1. PICK kind \in {"sidecar", "kuna"} : Starting(kind, Program)
      BY <1>3 DEF StartPerProgram
    <2>2. StartingRecord /\ Starts(kind, Program)
      BY <1>1, <1>2, <2>1
    <2> QED
      BY <1>1, <1>3, <2>2 DEF StartPerProgram
  <1>4. CASE StartGhidra
    <2>1. UNCHANGED <<d, clients>>
          \/ \E prog \in Programs \cup {NoProgram, Own} : Starting("ghidra", prog)
      BY <1>1, <1>4 DEF StartGhidra
    <2>2. CASE UNCHANGED <<d, clients>>
      BY <1>4, <2>2 DEF StartGhidra
    <2>3. CASE \E prog \in Programs \cup {NoProgram, Own} : Starting("ghidra", prog)
      <3>1. PICK prog \in Programs \cup {NoProgram, Own} : Starting("ghidra", prog)
        BY <2>3
      <3>2. StartingRecord /\ Starts("ghidra", prog)
        BY <1>2, <3>1
      <3> QED
        BY <1>4, <3>2 DEF StartGhidra
    <2> QED
      BY <2>1, <2>2, <2>3
  <1> QED
    BY <1>3, <1>4 DEF Launches

\* A refused start is a failed one.
LEMMA RefusedFacts ==
    ASSUME DecompTypes, StartRefused
    PROVE  /\ UNCHANGED <<cfg, clients, loaded, target, learned, pane, news>>
           /\ At("start") /\ actor' = Started
           /\ EndRecord("failed", d.client, d.anchor) /\ d'.closed = d.closed
  <1>1. d \in Records /\ "failed" \in States
    BY DEF DecompTypes, States
  <1>2. d' = [d EXCEPT !.state = "failed", !.miss = (d.miss \/ Choice = "miss")]
    BY <1>1 DEF StartRefused, Records
  <1>3. EndRecord("failed", d.client, d.anchor) /\ d'.closed = d.closed
    BY <1>1, <1>2 DEF EndRecord, Records
  <1> QED
    BY <1>3 DEF StartRefused

\* An anchor is dropped or picked.
LEMMA AnchorFacts ==
    ASSUME DecompTypes, DropAnchor \/ PickAnchor
    PROVE  /\ UNCHANGED <<cfg, clients, loaded, target, learned, pane, news>>
           /\ d'.closed = d.closed
           /\ \/ /\ At("bias") /\ actor' = [actor EXCEPT !.at = "pick"]
                 /\ EndRecord(d.state, d.client, NoClient)
              \/ /\ At("pick") /\ actor' = Idle
                 /\ EndRecord(d.state, d.client, d.anchor)
                    \/ EndRecord(d.state, d.client, actor.held)
  <1>1. d \in Records /\ NoClient \in Nat /\ actor.held \in Nat
    BY Blank DEF DecompTypes
  <1>2. CASE DropAnchor
    <2>1. d' = [d EXCEPT !.anchor = NoClient]
      BY <1>2 DEF DropAnchor
    <2>2. EndRecord(d.state, d.client, NoClient) /\ d'.closed = d.closed
      BY <1>1, <2>1 DEF EndRecord, Records
    <2> QED
      BY <1>2, <2>2 DEF DropAnchor
  <1>3. CASE PickAnchor
    <2>1. d' = d \/ d' = [d EXCEPT !.anchor = actor.held]
      BY <1>3 DEF PickAnchor
    <2>2. /\ EndRecord(d.state, d.client, d.anchor) \/ EndRecord(d.state, d.client, actor.held)
          /\ d'.closed = d.closed
      BY <1>1, <2>1 DEF EndRecord, Records
    <2> QED
      BY <1>3, <2>2 DEF PickAnchor
  <1> QED
    BY <1>2, <1>3

\* The end of the session, and of a client in use.
LEMMA EndFacts ==
    ASSUME DecompTypes
    PROVE  /\ CloseSession => EndRecord("off", NoClient, d.anchor) /\ d'.closed
           /\ \A c \in Ids : Watch(c) =>
                 /\ d.client = c => EndRecord("failed", NoClient, NoClient)
                 /\ d.client # c => EndRecord(d.state, d.client, d.anchor)
                 /\ d'.closed = d.closed
  <1>1. d \in Records /\ NoClient \in Nat /\ "off" \in States /\ "failed" \in States
    BY Blank DEF DecompTypes, States
  <1>2. CloseSession => EndRecord("off", NoClient, d.anchor) /\ d'.closed
    BY <1>1 DEF CloseSession, EndRecord, Records
  <1>3. ASSUME NEW c \in Ids, Watch(c)
        PROVE  /\ d.client = c => EndRecord("failed", NoClient, NoClient)
               /\ d.client # c => EndRecord(d.state, d.client, d.anchor)
               /\ d'.closed = d.closed
    BY <1>1, <1>3 DEF Watch, EndRecord, Records
  <1> QED
    BY <1>2, <1>3

\* A client's own steps, and its end at the hands of the actor.
LEMMA TurnsFacts ==
    ASSUME DecompTypes, Turns
    PROVE  /\ UNCHANGED <<cfg, d, loaded, target, learned, pane>>
           /\ news' \in BOOLEAN /\ (news => news')
           /\ \E c \in Ids :
                 \/ /\ Moves(c, clients[c].job, FALSE)
                    /\ \/ UNCHANGED actor
                       \/ actor.closing = c /\ actor' = [actor EXCEPT !.closing = NoClient]
                 \/ /\ UNCHANGED actor /\ clients[c].job = "starting"
                    /\ Moves(c, "came up", TRUE) \/ Moves(c, "failed", clients[c].alive)
                 \/ /\ UNCHANGED actor /\ clients[c].job = "discard"
                    /\ Moves(c, "done", FALSE)
  <1>1. news \in BOOLEAN
    BY DEF DecompTypes
  <1>2. CASE CloseClient
    <2>1. actor.closing \in Ids
      BY <1>2 DEF CloseClient, DecompTypes
    <2>2. Moves(actor.closing, clients[actor.closing].job, FALSE)
      BY <1>2, <2>1, ClientSteps
    <2> QED
      BY <1>1, <1>2, <2>1, <2>2 DEF CloseClient
  <1>3. ASSUME NEW c \in Ids, StartReturns(c)
        PROVE  Moves(c, "came up", TRUE) \/ Moves(c, "failed", clients[c].alive)
    BY <1>3, ClientSteps
  <1>4. ASSUME NEW c \in Ids, Discard(c)
        PROVE  Moves(c, "done", FALSE)
    BY <1>4, ClientSteps
  <1>5. ASSUME NEW c \in Ids, Dies(c)
        PROVE  Moves(c, clients[c].job, FALSE)
    BY <1>5, ClientSteps
  <1>6. CASE \E c \in Ids : StartReturns(c) \/ Discard(c) \/ Dies(c)
    <2>1. PICK c \in Ids : StartReturns(c) \/ Discard(c) \/ Dies(c)
      BY <1>6
    <2>2. CASE StartReturns(c)
      BY <1>1, <1>3, <2>2 DEF StartReturns
    <2>3. CASE Discard(c)
      BY <1>1, <1>4, <2>3 DEF Discard
    <2>4. CASE Dies(c)
      BY <1>1, <1>5, <2>4 DEF Dies
    <2> QED
      BY <2>1, <2>2, <2>3, <2>4
  <1> QED
    BY <1>2, <1>6 DEF Turns

\* Where the actor is.
Actors == [at : Steps, why : {"", "status", "names", "use"}, closing : Nat, held : Nat]

ActorType(those) ==
    actor' \in Actors /\ actor'.held \in those \cup {NoClient} /\ actor'.closing \in those \cup {NoClient}

\* The same conditions, on the actor as it is.
LEMMA ActorFacts ==
    ASSUME DecompTypes
    PROVE  /\ actor \in Actors /\ Idle \in Actors /\ Idle.held = NoClient /\ Idle.closing = NoClient
           /\ actor.held \in Ids \cup {NoClient} /\ actor.closing \in Ids \cup {NoClient}
           /\ d.client \in Ids \cup {NoClient} /\ Ids \subseteq Nat
           /\ \A c \in Ids \cup {NoClient} : c \in Nat
  <1>1. Idle \in Actors /\ Idle.held = NoClient /\ Idle.closing = NoClient
    BY DEF Idle, Actors, Steps, NoClient
  <1>2. /\ actor \in Actors
        /\ actor.held \in Ids \cup {NoClient} /\ actor.closing \in Ids \cup {NoClient}
        /\ d.client \in Ids \cup {NoClient}
    BY DEF DecompTypes, Actors
  <1>3. Ids \subseteq Nat
    BY IdsFacts
  <1> QED
    BY <1>1, <1>2, <1>3, Blank

\* Each step leaves the actor with a type.
LEMMA ActorTyped ==
    ASSUME DecompTypes, [Next]_vars
    PROVE  ActorType(Ids)
  <1> USE ActorFacts
  <1>1. \A s \in Steps : [actor EXCEPT !.at = s] \in Actors
    BY DEF Actors
  <1>2. CASE UNCHANGED actor
    BY <1>2 DEF ActorType
  <1>3. CASE actor' = Idle
    BY <1>3 DEF ActorType
  <1>4. ASSUME NEW s \in Steps, actor' = [actor EXCEPT !.at = s]
        PROVE  ActorType(Ids)
    BY <1>4 DEF ActorType, Actors
  <1>5. CASE actor' = Started
    BY <1>5, StartedFacts DEF ActorType, Actors
  <1>6. CASE Loads
    <2>1. LetGo \in Ids \cup {NoClient}
      BY DEF LetGo
    <2>2. actor' = [Idle EXCEPT !.closing = LetGo] \/ actor' = [actor EXCEPT !.at = "check", !.closing = LetGo]
      BY <1>6 DEF Loads, Load, LearnProgram
    <2> QED
      BY <2>1, <2>2 DEF ActorType, Actors, Steps
  <1>7. CASE Uses
    BY <1>7, <1>2, UsesFacts DEF ActorType, Actors, Steps
  <1>8. CASE CloseSession
    BY <1>8 DEF CloseSession, ActorType, Actors, Steps
  <1>9. CASE \E why \in {"status", "names"} : Look(why)
    BY <1>9 DEF Look, ActorType, Actors, Steps
  <1>10. CASE Borrow
    BY <1>10 DEF Borrow, ActorType, Actors, Steps
  <1>11. CASE Emit
    BY <1>11 DEF Emit, ActorType, Actors, Steps
  <1>12. CASE CloseClient
    BY <1>12, Blank DEF CloseClient, ActorType, Actors
  <1>13. CASE LearnNothing \/ CheckBusy \/ DropAnchor
    <2>1. {"check", "start", "pick"} \subseteq Steps
      BY DEF Steps
    <2> QED
      BY <1>4, <1>5, <1>13, <2>1 DEF LearnNothing, CheckBusy, DropAnchor
  <1>14. CASE StartWaits \/ Answer \/ KeepAnchor \/ PickAnchor \/ StartRefused \/ Launches
    BY <1>3, <1>5, <1>14 DEF StartWaits, Answer, KeepAnchor, PickAnchor, StartRefused, Launches,
                             StartPerProgram, StartGhidra
  <1>15. CASE \E p \in Programs \cup {NoProgram} : ChangeTarget(p)
    BY <1>2, <1>15 DEF ChangeTarget
  <1>16. CASE \E c \in Ids : LandPerProgram(c) \/ LandGhidra(c) \/ StartReturns(c) \/ Discard(c)
                             \/ Dies(c) \/ Watch(c)
    BY <1>2, <1>16 DEF LandPerProgram, LandGhidra, StartReturns, Discard, Dies, Watch
  <1>17. CASE UNCHANGED vars
    BY <1>2, <1>17 DEF vars
  <1> QED
    BY <1>6, <1>7, <1>8, <1>9, <1>10, <1>11, <1>12, <1>13, <1>14, <1>15, <1>16, <1>17
       DEF Next, Request, Handler, Goroutine, Loads, Uses, Launches

\* Each step keeps the record a record and only ever adds a client.
LEMMA RecordTyped ==
    ASSUME DecompTypes, [Next]_vars
    PROVE  /\ d' \in Records
           /\ d'.client \in Ids' \cup {NoClient} /\ d'.anchor \in Ids' \cup {NoClient}
           /\ clients' \in Seq(ClientTypes)
           /\ Ids \subseteq Ids'
  <1> DEFINE Kept == clients' \in Seq(ClientTypes) /\ Ids \subseteq Ids'
             Known == d' \in Records /\ d'.client \in Ids \cup {NoClient}
                      /\ d'.anchor \in Ids \cup {NoClient}
  <1>1. /\ d \in Records /\ clients \in Seq(ClientTypes)
        /\ d.client \in Ids \cup {NoClient} /\ d.anchor \in Ids \cup {NoClient}
        /\ actor.held \in Ids \cup {NoClient}
    BY DEF DecompTypes
  <1>2. UNCHANGED clients => Kept
    BY <1>1 DEF Ids
  <1>3. UNCHANGED d => Known
    BY <1>1
  <1>4. CASE Looks
    BY <1>2, <1>3, <1>4, LooksFacts
  <1>5. CASE Loads
    BY <1>1, <1>2, <1>5, LoadsFacts DEF ResetRecord, CountedRecord
  <1>6. CASE Uses
    BY <1>1, <1>2, <1>6, UsesFacts DEF ResetRecord, CountedRecord
  <1>7. CASE Launches
    BY <1>1, <1>2, <1>3, <1>7, LaunchesFacts DEF StartingRecord, Starts
  <1>8. CASE StartRefused
    BY <1>1, <1>2, <1>8, RefusedFacts DEF EndRecord
  <1>9. CASE DropAnchor \/ PickAnchor
    BY <1>1, <1>2, <1>9, AnchorFacts DEF EndRecord
  <1>10. CASE CloseSession
    <2>1. UNCHANGED clients
      BY <1>10 DEF CloseSession
    <2> QED
      BY <1>1, <1>2, <1>10, <2>1, EndFacts DEF EndRecord
  <1>11. CASE Lands
    BY <1>1, <1>11, LandFacts DEF Lands, EndedRecord, ReadyRecord, Moves
  <1>12. CASE Turns
    <2>1. Kept
      BY <1>12, TurnsFacts DEF Moves
    <2>2. UNCHANGED d
      BY <1>12, TurnsFacts
    <2> QED
      BY <1>3, <2>1, <2>2
  <1>13. CASE \E c \in Ids : Watch(c)
    BY <1>1, <1>13, EndFacts, ClientSteps DEF EndRecord, Moves
  <1> QED
    BY <1>4, <1>5, <1>6, <1>7, <1>8, <1>9, <1>10, <1>11, <1>12, <1>13, StepCases

\* The types are kept.
LEMMA TypesKept ==
    ASSUME DecompTypes, [Next]_vars
    PROVE  DecompTypes'
  <1> DEFINE Files == Programs \cup {NoProgram}
             Rest == /\ cfg' \in ConfigTypes /\ loaded' \in Files /\ target' \in Files
                     /\ learned' \in [exe : Files, file : Files]
             Told == pane' \in Nat /\ news' \in BOOLEAN
  <1> SUFFICES Rest /\ Told
    BY ActorTyped, RecordTyped DEF DecompTypes, ActorType, Actors
  <1>1. /\ cfg \in ConfigTypes /\ loaded \in Files /\ target \in Files
        /\ learned \in [exe : Files, file : Files]
        /\ pane \in Nat /\ news \in BOOLEAN /\ d.client \in Nat
    BY ActorFacts DEF DecompTypes
  <1>2. CASE Looks
    <2>1. Rest
      BY <1>1, <1>2 DEF Looks, Look, Borrow, LearnNothing, CheckBusy, StartWaits, Answer, Emit,
                        KeepAnchor, ChangeTarget, vars
    <2>2. Told
      BY <1>1, <1>2 DEF Looks, Look, Borrow, LearnNothing, CheckBusy, StartWaits, Answer, Emit,
                        KeepAnchor, ChangeTarget, vars
    <2> QED
      BY <2>1, <2>2
  <1>3. CASE Loads
    <2>1. CASE \E p \in Programs : Load(p)
      BY <1>1, <2>1 DEF Load
    <2>2. CASE LearnProgram
      BY <1>1, <2>2 DEF LearnProgram
    <2> QED
      BY <1>3, <2>1, <2>2 DEF Loads
  <1>4. CASE Uses
    BY <1>1, <1>4, UsesFacts
  <1>5. CASE Launches
    BY <1>1, <1>5, LaunchesFacts
  <1>6. CASE StartRefused
    BY <1>1, <1>6, RefusedFacts
  <1>7. CASE DropAnchor \/ PickAnchor
    BY <1>1, <1>7, AnchorFacts
  <1>8. CASE CloseSession
    BY <1>1, <1>8 DEF CloseSession
  <1>9. CASE Lands
    BY <1>1, <1>9, LandFacts DEF Lands
  <1>10. CASE Turns
    BY <1>1, <1>10, TurnsFacts
  <1>11. CASE \E c \in Ids : Watch(c)
    BY <1>1, <1>11 DEF Watch
  <1> QED
    BY <1>2, <1>3, <1>4, <1>5, <1>6, <1>7, <1>8, <1>9, <1>10, <1>11, StepCases

-----------------------------------------------------------------------------
(* One start at a time.                                                    *)

\* The fields agree: a start that lands finds no client, one that is begun
\* finds no start.
LEMMA RecordAgreesKept ==
    ASSUME DecompTypes, OneStart, [Next]_vars
    PROVE  RecordAgrees'
  <1>1. RecordAgrees /\ OneInFlight /\ FreeToStart
    BY DEF OneStart
  <1>2. CASE Looks
    BY <1>1, <1>2, LooksFacts DEF RecordAgrees
  <1>3. CASE Loads
    BY <1>1, <1>3, LoadsFacts DEF RecordAgrees, ResetRecord, CountedRecord
  <1>4. CASE Uses
    BY <1>1, <1>4, UsesFacts DEF RecordAgrees, ResetRecord, CountedRecord
  <1>5. CASE Launches
    BY <1>1, <1>5, LaunchesFacts DEF RecordAgrees, FreeToStart, At, Busy, StartingRecord
  <1>6. CASE StartRefused
    BY <1>1, <1>6, RefusedFacts DEF RecordAgrees, FreeToStart, At, Busy, EndRecord
  <1>7. CASE DropAnchor \/ PickAnchor
    BY <1>1, <1>7, AnchorFacts DEF RecordAgrees, EndRecord
  <1>8. CASE CloseSession
    BY <1>1, <1>8, EndFacts DEF RecordAgrees, EndRecord
  <1>9. CASE Lands
    <2>1. PICK c \in Ids : LandPerProgram(c) \/ LandGhidra(c)
      BY <1>9 DEF Lands
    <2>2. d.client = NoClient
      <3>1. Landing(c)
        BY <2>1, LandFacts
      <3>2. d.starting
        BY <1>1, <3>1 DEF OneInFlight, InFlight, Landing, Flying
      <3> QED
        BY <1>1, <3>2 DEF RecordAgrees
    <2>3. c # NoClient
      BY IdsFacts
    <2> QED
      BY <1>1, <2>1, <2>2, <2>3, LandFacts DEF RecordAgrees, EndedRecord, ReadyRecord
  <1>10. CASE Turns
    BY <1>1, <1>10, TurnsFacts DEF RecordAgrees
  <1>11. CASE \E c \in Ids : Watch(c)
    BY <1>1, <1>11, EndFacts DEF RecordAgrees, EndRecord
  <1> QED
    BY <1>2, <1>3, <1>4, <1>5, <1>6, <1>7, <1>8, <1>9, <1>10, <1>11, StepCases

\* Which starts are in flight when one client has moved.
LEMMA MovesFlight ==
    ASSUME DecompTypes, NEW c \in Ids, NEW job, NEW alive, Moves(c, job, alive)
    PROVE  /\ Len(clients') = Len(clients) /\ Ids' = Ids
           /\ \A i \in Ids : i # c => (InFlight(i)' <=> InFlight(i))
           /\ InFlight(c)' <=> job \in Flying
           /\ clients'[c].alive = alive /\ clients'[c].job = job
           /\ clients'[c].kind = clients[c].kind /\ clients'[c].prog = clients[c].prog
           /\ clients'[c].loads = clients[c].loads
           /\ \A i \in Ids : i # c => clients'[i] = clients[i]
  <1>1. clients[c] \in ClientTypes
    BY IdsFacts
  <1>2. /\ clients'[c].alive = alive /\ clients'[c].job = job
        /\ clients'[c].kind = clients[c].kind /\ clients'[c].prog = clients[c].prog
        /\ clients'[c].loads = clients[c].loads
    BY <1>1 DEF Moves, ClientTypes
  <1> QED
    BY <1>2 DEF Moves, InFlight

\* A turn does not end a start.
LEMMA TurnFlight ==
    ASSUME DecompTypes, Turns
    PROVE  \E c \in Ids : \E job, alive : Moves(c, job, alive) /\ (InFlight(c) <=> job \in Flying)
  <1>1. PICK c \in Ids :
           \/ Moves(c, clients[c].job, FALSE)
           \/ /\ clients[c].job = "starting"
              /\ Moves(c, "came up", TRUE) \/ Moves(c, "failed", clients[c].alive)
           \/ clients[c].job = "discard" /\ Moves(c, "done", FALSE)
    BY TurnsFacts
  <1>2. CASE Moves(c, clients[c].job, FALSE)
    BY <1>2 DEF InFlight
  <1>3. CASE clients[c].job = "starting" /\ Moves(c, "came up", TRUE)
    BY <1>3 DEF InFlight, Flying
  <1>4. CASE clients[c].job = "starting" /\ Moves(c, "failed", clients[c].alive)
    BY <1>4 DEF InFlight, Flying
  <1>5. CASE clients[c].job = "discard" /\ Moves(c, "done", FALSE)
    <2>1. ~InFlight(c) /\ "done" \notin Flying
      BY <1>5 DEF InFlight, Flying
    <2> QED
      BY <1>5, <2>1
  <1> QED
    BY <1>1, <1>2, <1>3, <1>4, <1>5

\* What is in flight is the last start.
LEMMA OneInFlightKept ==
    ASSUME DecompTypes, OneStart, [Next]_vars
    PROVE  OneInFlight'
  <1>1. RecordAgrees /\ OneInFlight /\ FreeToStart
    BY DEF OneStart
  <1>2. ASSUME UNCHANGED clients, d'.starting = d.starting
        PROVE  OneInFlight'
    BY <1>1, <1>2 DEF OneInFlight, InFlight, Ids
  <1>3. CASE Looks
    BY <1>2, <1>3, LooksFacts
  <1>4. CASE Loads
    BY <1>2, <1>4, LoadsFacts DEF ResetRecord, CountedRecord
  <1>5. CASE Uses
    BY <1>2, <1>5, UsesFacts DEF ResetRecord, CountedRecord
  <1>6. CASE Launches
    <2>1. CASE UNCHANGED <<d, clients>>
      BY <1>2, <2>1
    <2>2. CASE StartingRecord /\ \E kind, prog : Starts(kind, prog)
      <3>1. \A i \in Ids : ~InFlight(i)
        BY <1>1, <1>6, LaunchesFacts DEF FreeToStart, At, Busy, OneInFlight
      <3>2. PICK kind, prog : Starts(kind, prog)
        BY <2>2
      <3>3. clients'[Len(clients')].job = "starting"
        BY <3>2 DEF Starts, Client
      <3>4. InFlight(Len(clients))' /\ \A i \in Ids : ~InFlight(i)'
        BY <3>1, <3>2, <3>3 DEF Starts, InFlight, Flying
      <3> QED
        BY <2>2, <3>2, <3>4 DEF OneInFlight, StartingRecord, Starts
    <2> QED
      BY <1>6, <2>1, <2>2, LaunchesFacts
  <1>7. CASE StartRefused
    BY <1>2, <1>7, RefusedFacts DEF EndRecord
  <1>8. CASE DropAnchor \/ PickAnchor
    BY <1>2, <1>8, AnchorFacts DEF EndRecord
  <1>9. CASE CloseSession
    <2>1. UNCHANGED clients
      BY <1>9 DEF CloseSession
    <2> QED
      BY <1>2, <1>9, <2>1, EndFacts DEF EndRecord
  <1>10. CASE Lands
    <2>1. PICK c \in Ids : LandPerProgram(c) \/ LandGhidra(c)
      BY <1>10 DEF Lands
    <2>2. Landing(c) /\ ~d'.starting
      BY <2>1, LandFacts DEF EndedRecord, ReadyRecord
    <2>3. \A i \in Ids : i # c => ~InFlight(i)
      BY <1>1, <2>2 DEF OneInFlight, InFlight, Landing, Flying
    <2>4. PICK job \in {"done", "discard", "watch"} : Moves(c, job, clients[c].alive)
      BY <2>1, LandFacts
    <2>5. ~InFlight(c)'
      BY <2>4, MovesFlight DEF Flying
    <2> QED
      BY <2>2, <2>3, <2>4, <2>5, MovesFlight DEF OneInFlight
  <1>11. CASE Turns
    <2>1. UNCHANGED d
      BY <1>11, TurnsFacts
    <2>2. PICK c \in Ids : \E job, alive : Moves(c, job, alive) /\ (InFlight(c) <=> job \in Flying)
      BY <1>11, TurnFlight
    <2>3. PICK job, alive : Moves(c, job, alive) /\ (InFlight(c) <=> job \in Flying)
      BY <2>2
    <2>4. Len(clients') = Len(clients) /\ Ids' = Ids /\ \A i \in Ids : (InFlight(i)' <=> InFlight(i))
      BY <2>3, MovesFlight
    <2> QED
      BY <1>1, <2>1, <2>4 DEF OneInFlight
  <1>12. CASE \E c \in Ids : Watch(c)
    <2>1. PICK c \in Ids : Watch(c)
      BY <1>12
    <2>2. Moves(c, "done", clients[c].alive) /\ d'.starting = d.starting
      BY <2>1, ClientSteps, EndFacts DEF EndRecord
    <2>3. ~InFlight(c) /\ "done" \notin Flying
      BY <2>1 DEF Watch, InFlight, Flying
    <2>4. Len(clients') = Len(clients) /\ Ids' = Ids /\ \A i \in Ids : (InFlight(i)' <=> InFlight(i))
      BY <2>2, <2>3, MovesFlight
    <2> QED
      BY <1>1, <2>2, <2>4 DEF OneInFlight
  <1> QED
    BY <1>3, <1>4, <1>5, <1>6, <1>7, <1>8, <1>9, <1>10, <1>11, <1>12, StepCases

\* Nobody starts anything between the actor's look and its start.
LEMMA FreeToStartKept ==
    ASSUME DecompTypes, OneStart, [Next]_vars
    PROVE  FreeToStart'
  <1>1. RecordAgrees /\ OneInFlight /\ FreeToStart
    BY DEF OneStart
  <1>2. ASSUME actor'.at # "start"
        PROVE  FreeToStart'
    BY <1>2 DEF FreeToStart
  <1>3. ASSUME UNCHANGED d, actor'.at = actor.at
        PROVE  FreeToStart'
    BY <1>1, <1>3 DEF FreeToStart, Busy
  <1>4. actor \in Actors
    BY ActorFacts
  <1>15. Idle.at # "start"
    BY DEF Idle
  <1>5. CASE Looks
    <2>1. CASE CheckBusy
      <3>1. CASE Busy
        BY <1>2, <2>1, <3>1, StartedFacts DEF CheckBusy
      <3>2. CASE ~Busy
        BY <2>1, <3>2 DEF CheckBusy, FreeToStart, Busy
      <3> QED
        BY <3>1, <3>2
    <2>2. CASE \E why \in {"status", "names"} : Look(why)
      BY <1>2, <1>4, <2>2 DEF Look, Actors
    <2>3. CASE Borrow \/ LearnNothing \/ Emit
      BY <1>2, <1>4, <2>3 DEF Borrow, LearnNothing, Emit, Actors
    <2>4. CASE StartWaits
      BY <1>2, <2>4, StartedFacts DEF StartWaits
    <2>5. CASE Answer \/ KeepAnchor
      <3>1. actor' = Idle
        BY <2>5 DEF Answer, KeepAnchor
      <3> QED
        BY <1>2, <1>15, <3>1
    <2>6. CASE (\E p \in Programs \cup {NoProgram} : ChangeTarget(p)) \/ UNCHANGED vars
      BY <1>3, <2>6 DEF ChangeTarget, vars
    <2> QED
      BY <1>5, <2>1, <2>2, <2>3, <2>4, <2>5, <2>6 DEF Looks
  <1>6. CASE Loads
    BY <1>2, <1>6, LoadsFacts
  <1>7. CASE Uses
    <2>1. CASE actor' = [actor EXCEPT !.at = "learn", !.why = "use", !.closing = d.client]
      BY <1>2, <1>4, <2>1 DEF Actors
    <2>2. CASE UNCHANGED actor /\ \E n : CountedRecord(n)
      BY <1>1, <2>2 DEF FreeToStart, Busy, CountedRecord
    <2> QED
      BY <1>7, <2>1, <2>2, UsesFacts
  <1>8. CASE Launches
    BY <1>2, <1>8, LaunchesFacts, StartedFacts
  <1>9. CASE StartRefused
    BY <1>2, <1>9, RefusedFacts, StartedFacts
  <1>10. CASE DropAnchor \/ PickAnchor
    <2>1. actor' = Idle \/ actor' = [actor EXCEPT !.at = "pick"]
      BY <1>10, AnchorFacts
    <2>2. CASE actor' = [actor EXCEPT !.at = "pick"]
      BY <1>2, <1>4, <2>2 DEF Actors
    <2> QED
      BY <1>2, <1>15, <2>1, <2>2
  <1>11. CASE CloseSession
    BY <1>2, <1>11 DEF CloseSession, Idle
  <1>12. CASE Lands
    <2>1. PICK c \in Ids : LandPerProgram(c) \/ LandGhidra(c)
      BY <1>12 DEF Lands
    <2>2. d.starting /\ UNCHANGED actor
      BY <1>1, <2>1, LandFacts DEF OneInFlight, InFlight, Landing, Flying
    <2> QED
      BY <1>1, <1>2, <2>2 DEF FreeToStart, Busy
  <1>13. CASE Turns
    <2>1. UNCHANGED d /\ (UNCHANGED actor \/ actor' = [actor EXCEPT !.closing = NoClient])
      BY <1>13, TurnsFacts
    <2> QED
      BY <1>3, <1>4, <2>1 DEF Actors
  <1>14. CASE \E c \in Ids : Watch(c)
    <2>1. PICK c \in Ids : Watch(c)
      BY <1>14
    <2>2. UNCHANGED actor
      BY <2>1 DEF Watch
    <2>3. CASE d.client = c
      <3>1. d.state = "ready"
        BY <1>1, <2>3, IdsFacts DEF RecordAgrees
      <3> QED
        BY <1>1, <1>2, <2>2, <3>1 DEF FreeToStart, Busy
    <2>4. CASE d.client # c
      BY <1>3, <2>1, <2>2, <2>4 DEF Watch
    <2> QED
      BY <2>3, <2>4
  <1> QED
    BY <1>5, <1>6, <1>7, <1>8, <1>9, <1>10, <1>11, <1>12, <1>13, <1>14, StepCases

-----------------------------------------------------------------------------
(* No process is left behind.                                              *)

\* Somebody has client c, or will deal with it.
Owned(c) == d.client = c \/ clients[c].job \in {"came up", "discard"} \/ actor.closing = c

Resting == {"starting", "failed", "done"}

\* NoneLeft, in these words.
LEMMA NoneLeftIs ==
    NoneLeft <=> \A c \in Ids : /\ clients[c].alive => Owned(c)
                                /\ clients[c].job \in Resting => ~clients[c].alive
  BY DEF NoneLeft, NoOrphan, Owned, CameUp, Resting

\* An actor that looks is closing nothing.
LEMMA LooksClosing ==
    ASSUME Looks
    PROVE  actor.closing = NoClient \/ UNCHANGED actor
  BY DEF Looks, Look, Borrow, LearnNothing, CheckBusy, StartWaits, Answer, Emit, KeepAnchor,
         ChangeTarget, vars, At

\* A process that runs is in use or about to be put to use or to be closed.
LEMMA NoneLeftKept ==
    ASSUME DecompTypes, OneStart, NoneLeft, [Next]_vars
    PROVE  NoneLeft'
  <1> DEFINE Fine(c) == /\ clients[c].alive => Owned(c)
                        /\ clients[c].job \in Resting => ~clients[c].alive
  <1>1. RecordAgrees /\ OneInFlight
    BY DEF OneStart
  <1>2. \A c \in Ids : Fine(c)
    BY NoneLeftIs
  <1>3. NoClient \notin Ids
    BY IdsFacts
  <1> SUFFICES \A c \in Ids' : (Fine(c))'
    BY DEF NoneLeft, NoOrphan, Owned, CameUp, Resting
  <1>4. ASSUME UNCHANGED clients,
               \A c \in Ids : d.client = c \/ actor.closing = c => d'.client = c \/ actor'.closing = c
        PROVE  \A c \in Ids' : (Fine(c))'
    BY <1>2, <1>4 DEF Owned, Ids
  <1>5. CASE Looks
    BY <1>3, <1>4, <1>5, LooksFacts, LooksClosing
  <1>6. CASE Loads
    BY <1>3, <1>4, <1>6, LoadsFacts DEF ResetRecord, CountedRecord, LetGo
  <1>7. CASE Uses
    <2>1. CASE /\ ResetRecord(d.loads) /\ At("idle")
               /\ actor' = [actor EXCEPT !.at = "learn", !.why = "use", !.closing = d.client]
      <3>1. actor'.closing = d.client /\ actor.closing = NoClient
        BY <2>1, ActorFacts DEF At, Actors
      <3> QED
        BY <1>3, <1>4, <1>7, <3>1, UsesFacts
    <2>2. CASE UNCHANGED actor /\ \E n : CountedRecord(n)
      BY <1>4, <1>7, <2>2, UsesFacts DEF CountedRecord
    <2> QED
      BY <1>7, <2>1, <2>2, UsesFacts
  <1>8. CASE Launches
    <2>1. actor.closing = NoClient /\ d'.client = d.client
      BY <1>8, LaunchesFacts DEF At, StartingRecord
    <2>2. CASE UNCHANGED <<d, clients>>
      BY <1>3, <1>4, <2>1, <2>2
    <2>3. CASE \E kind, prog : Starts(kind, prog)
      <3>1. PICK kind, prog : Starts(kind, prog)
        BY <2>3
      <3>2. ~clients'[Len(clients')].alive
        BY <3>1 DEF Starts, Client
      <3>3. \A c \in Ids : (Fine(c))'
        BY <1>2, <1>3, <2>1, <3>1 DEF Owned, Starts
      <3> QED
        BY <3>1, <3>2, <3>3 DEF Starts
    <2> QED
      BY <1>8, <2>2, <2>3, LaunchesFacts
  <1>9. CASE StartRefused
    BY <1>3, <1>4, <1>9, RefusedFacts DEF EndRecord, At
  <1>10. CASE DropAnchor \/ PickAnchor
    BY <1>3, <1>4, <1>10, AnchorFacts DEF EndRecord, At
  <1>11. CASE CloseSession
    <2>1. UNCHANGED clients /\ actor.closing = NoClient /\ actor'.closing = d.client
      BY <1>11 DEF CloseSession, At, Idle
    <2> QED
      BY <1>3, <1>4, <2>1
  <1>12. CASE Lands
    <2>1. PICK c \in Ids : LandPerProgram(c) \/ LandGhidra(c)
      BY <1>12 DEF Lands
    <2>2. Landing(c) /\ UNCHANGED actor
      BY <2>1, LandFacts
    <2>3. d.client = NoClient
      BY <1>1, <2>2 DEF OneInFlight, RecordAgrees, InFlight, Landing, Flying
    <2>4. CASE Moves(c, IF CameUp(c) THEN "discard" ELSE "done", clients[c].alive) /\ d'.client = d.client
      <3>1. PICK job : job = (IF CameUp(c) THEN "discard" ELSE "done") /\ Moves(c, job, clients[c].alive)
        BY <2>4
      <3>2. clients'[c].alive = clients[c].alive /\ clients'[c].job = job
        BY <3>1, MovesFlight
      <3>3. clients[c].job \in Resting \/ CameUp(c)
        BY <2>2 DEF Landing, CameUp, Resting
      <3>4. ASSUME CameUp(c)
            PROVE  (Fine(c))'
        BY <3>1, <3>2, <3>4 DEF Owned, Resting
      <3>5. ASSUME ~CameUp(c)
            PROVE  (Fine(c))'
        BY <1>2, <3>2, <3>3, <3>5
      <3>6. \A i \in Ids : i # c => clients'[i] = clients[i]
        BY <3>1, MovesFlight
      <3>7. \A i \in Ids : i # c => (Fine(i))'
        BY <1>2, <2>2, <2>4, <3>6 DEF Owned
      <3>8. (Fine(c))'
        BY <3>4, <3>5
      <3> QED
        BY <2>4, <3>7, <3>8 DEF Moves
    <2>5. CASE Moves(c, "watch", clients[c].alive) /\ d'.client = c
      <3>1. (Fine(c))'
        <4>1. clients'[c].job = "watch"
          BY <2>5, MovesFlight
        <4> QED
          BY <2>5, <4>1 DEF Owned, Resting
      <3>3. \A i \in Ids : i # c => clients'[i] = clients[i]
        BY <2>5, MovesFlight
      <3>4. \A i \in Ids : d.client # i
        BY <1>3, <2>3
      <3>2. \A i \in Ids : i # c => (Fine(i))'
        BY <1>2, <2>2, <3>3, <3>4 DEF Owned
      <3> QED
        BY <2>5, <3>1, <3>2 DEF Moves
    <2> QED
      BY <2>1, <2>4, <2>5, LandFacts DEF EndedRecord, ReadyRecord
  <1>13. CASE Turns
    <2>1. UNCHANGED d
      BY <1>13, TurnsFacts
    <2>2. PICK c \in Ids :
             \/ /\ Moves(c, clients[c].job, FALSE)
                /\ \/ UNCHANGED actor
                   \/ actor.closing = c /\ actor' = [actor EXCEPT !.closing = NoClient]
             \/ /\ UNCHANGED actor /\ clients[c].job = "starting"
                /\ Moves(c, "came up", TRUE) \/ Moves(c, "failed", clients[c].alive)
             \/ /\ UNCHANGED actor /\ clients[c].job = "discard"
                /\ Moves(c, "done", FALSE)
      BY <1>13, TurnsFacts
    <2>7. clients[c].job = "starting" => ~clients[c].alive
      BY <1>2 DEF Resting
    <2> DEFINE Others == Ids' = Ids /\ \A i \in Ids : i # c => clients'[i] = clients[i]
    <2>3. Others /\ (~clients'[c].alive \/ clients'[c].job = "came up")
      <3>1. CASE Moves(c, clients[c].job, FALSE)
        BY <3>1, MovesFlight
      <3>2. CASE Moves(c, "came up", TRUE)
        BY <3>2, MovesFlight
      <3>3. CASE clients[c].job = "starting" /\ Moves(c, "failed", clients[c].alive)
        <4>1. Others /\ clients'[c].alive = clients[c].alive
          BY <3>3, MovesFlight
        <4>2. ~clients[c].alive
          BY <2>7, <3>3
        <4> QED
          BY <4>1, <4>2
      <3>4. CASE Moves(c, "done", FALSE)
        BY <3>4, MovesFlight
      <3> QED
        BY <2>2, <3>1, <3>2, <3>3, <3>4
    <2>4. (Fine(c))'
      BY <2>3 DEF Owned, Resting
    <2>5. \A i \in Ids : i # c => (Fine(i))'
      <3>1. ASSUME NEW i \in Ids, i # c
            PROVE  actor.closing = i => actor'.closing = i
        BY <2>2, <3>1
      <3> QED
        BY <1>2, <2>1, <2>3, <3>1 DEF Owned
    <2> QED
      BY <2>3, <2>4, <2>5
  <1>14. CASE \E c \in Ids : Watch(c)
    <2>1. PICK c \in Ids : Watch(c)
      BY <1>14
    <2>2. Moves(c, "done", clients[c].alive) /\ ~clients[c].alive /\ UNCHANGED actor
      BY <2>1, ClientSteps DEF Watch
    <2>3. d.client # c => d'.client = d.client
      BY <2>1 DEF Watch
    <2>4. (Fine(c))'
      BY <2>2, MovesFlight
    <2>5. \A i \in Ids : i # c => clients'[i] = clients[i]
      BY <2>2, MovesFlight
    <2>6. \A i \in Ids : i # c => (Fine(i))'
      BY <1>2, <2>2, <2>3, <2>5 DEF Owned
    <2> QED
      BY <2>2, <2>4, <2>6 DEF Moves
  <1> QED
    BY <1>5, <1>6, <1>7, <1>8, <1>9, <1>10, <1>11, <1>12, <1>13, <1>14, StepCases

-----------------------------------------------------------------------------
(* The anchor.                                                             *)

\* What the actor that maps addresses holds.
Holding == {"bias", "pick"}

\* Where a step that looks leaves the actor.
LEMMA LooksAt ==
    ASSUME DecompTypes, Looks
    PROVE  \/ UNCHANGED <<actor, pane, news>>
           \/ /\ actor'.at \notin Holding
              /\ actor'.at = "start" => ~Busy
           \/ actor'.at = "bias" /\ actor'.held = d.client /\ d.client # NoClient
  <1>1. actor \in Actors
    BY ActorFacts
  <1>2. Idle.at \notin Holding /\ Started.at \notin Holding
    BY StartedFacts DEF Idle, Holding
  <1>3. Idle.at # "start" /\ Started.at # "start"
    BY StartedFacts DEF Idle
  <1>4. CASE \E why \in {"status", "names"} : Look(why)
    BY <1>1, <1>4 DEF Look, Actors, Holding
  <1>5. CASE Borrow
    BY <1>1, <1>5 DEF Borrow, Actors
  <1>6. CASE LearnNothing \/ Emit
    BY <1>1, <1>6 DEF LearnNothing, Emit, Actors, Holding
  <1>7. CASE CheckBusy
    <2>1. CASE Busy
      BY <1>2, <1>3, <1>7, <2>1 DEF CheckBusy
    <2>2. CASE ~Busy
      BY <1>1, <1>7, <2>2 DEF CheckBusy, Actors, Holding
    <2> QED
      BY <2>1, <2>2
  <1>8. CASE StartWaits
    BY <1>2, <1>3, <1>8 DEF StartWaits
  <1>9. CASE Answer \/ KeepAnchor
    <2>1. actor' = Idle
      BY <1>9 DEF Answer, KeepAnchor
    <2> QED
      BY <1>2, <1>3, <2>1
  <1>10. CASE (\E p \in Programs \cup {NoProgram} : ChangeTarget(p)) \/ UNCHANGED vars
    BY <1>10 DEF ChangeTarget, vars
  <1> QED
    BY <1>4, <1>5, <1>6, <1>7, <1>8, <1>9, <1>10 DEF Looks

\* Where the anchor may have come from.
AnchorSafe ==
    /\ AnchorOfClient
    /\ d.anchor # NoClient => ~d.starting /\ d.state \in {"ready", "failed", "off"}

HeldKnown ==
    actor.at \in Holding =>
        /\ ~d.starting /\ actor.held # NoClient
        /\ d.client = actor.held \/ (d.client = NoClient /\ d.state = "failed")

\* AnchorKnown, in these words.
LEMMA AnchorKnownIs == AnchorKnown <=> AnchorSafe /\ HeldKnown
  BY DEF AnchorKnown, AnchorSafe, HeldKnown, Holding

\* The anchor is that of the client in use, or of one that has died since.
LEMMA AnchorSafeKept ==
    ASSUME DecompTypes, OneStart, AnchorKnown, [Next]_vars
    PROVE  AnchorSafe'
  <1>1. RecordAgrees /\ OneInFlight /\ FreeToStart /\ AnchorSafe /\ HeldKnown
    BY AnchorKnownIs DEF OneStart
  <1>2. CASE Looks
    BY <1>1, <1>2, LooksFacts DEF AnchorSafe, AnchorOfClient
  <1>3. CASE Loads
    BY <1>1, <1>3, LoadsFacts DEF AnchorSafe, AnchorOfClient, ResetRecord, CountedRecord
  <1>4. CASE Uses
    BY <1>1, <1>4, UsesFacts DEF AnchorSafe, AnchorOfClient, ResetRecord, CountedRecord
  <1>5. ASSUME At("start")
        PROVE  d.anchor = NoClient
    BY <1>1, <1>5 DEF AnchorSafe, FreeToStart, At, Busy, RecordAgrees
  <1>6. CASE Launches
    BY <1>1, <1>5, <1>6, LaunchesFacts DEF AnchorSafe, AnchorOfClient, StartingRecord
  <1>7. CASE StartRefused
    BY <1>1, <1>5, <1>7, RefusedFacts DEF AnchorSafe, AnchorOfClient, EndRecord
  <1>8. CASE DropAnchor \/ PickAnchor
    <2>1. CASE EndRecord(d.state, d.client, NoClient)
      BY <1>1, <2>1 DEF AnchorSafe, AnchorOfClient, EndRecord
    <2>2. CASE EndRecord(d.state, d.client, d.anchor)
      BY <1>1, <2>2 DEF AnchorSafe, AnchorOfClient, EndRecord
    <2>3. CASE At("pick") /\ EndRecord(d.state, d.client, actor.held)
      <3>1. actor.at \in Holding
        BY <2>3 DEF At, Holding
      <3>2. /\ ~d.starting
            /\ d.client = actor.held \/ (d.client = NoClient /\ d.state = "failed")
        BY <1>1, <3>1 DEF HeldKnown
      <3> QED
        BY <1>1, <2>3, <3>2 DEF AnchorSafe, AnchorOfClient, EndRecord, RecordAgrees
    <2> QED
      BY <1>8, <2>1, <2>2, <2>3, AnchorFacts
  <1>9. CASE CloseSession
    <2>1. EndRecord("off", NoClient, d.anchor)
      BY <1>9, EndFacts
    <2> QED
      BY <1>1, <2>1 DEF AnchorSafe, AnchorOfClient, EndRecord
  <1>10. CASE Lands
    <2>1. PICK c \in Ids : LandPerProgram(c) \/ LandGhidra(c)
      BY <1>10 DEF Lands
    <2>2. d.starting
      BY <1>1, <2>1, LandFacts DEF OneInFlight, InFlight, Landing, Flying
    <2>3. d'.anchor = d.anchor
      BY <2>1, LandFacts DEF EndedRecord, ReadyRecord
    <2> QED
      BY <1>1, <2>2, <2>3 DEF AnchorSafe, AnchorOfClient
  <1>11. CASE Turns
    BY <1>1, <1>11, TurnsFacts DEF AnchorSafe, AnchorOfClient
  <1>12. CASE \E c \in Ids : Watch(c)
    <2>1. EndRecord("failed", NoClient, NoClient) \/ EndRecord(d.state, d.client, d.anchor)
      BY <1>12, EndFacts
    <2> QED
      BY <1>1, <2>1 DEF AnchorSafe, AnchorOfClient, EndRecord
  <1> QED
    BY <1>2, <1>3, <1>4, <1>6, <1>7, <1>8, <1>9, <1>10, <1>11, <1>12, StepCases

\* The client the actor holds on to is in use, or has died.
LEMMA HeldKnownKept ==
    ASSUME DecompTypes, OneStart, AnchorKnown, [Next]_vars
    PROVE  HeldKnown'
  <1>1. RecordAgrees /\ OneInFlight /\ FreeToStart /\ AnchorSafe /\ HeldKnown
    BY AnchorKnownIs DEF OneStart
  <1>2. ASSUME actor'.at \notin Holding
        PROVE  HeldKnown'
    BY <1>2 DEF HeldKnown
  <1>3. actor \in Actors
    BY ActorFacts
  <1>4. Idle.at \notin Holding /\ Started.at \notin Holding
    BY StartedFacts DEF Idle, Holding
  <1>5. CASE Looks
    <2>1. CASE UNCHANGED actor
      BY <1>1, <1>5, <2>1, LooksFacts DEF HeldKnown
    <2>2. CASE actor'.held = d.client /\ d.client # NoClient
      BY <1>1, <1>5, <2>2, LooksFacts DEF HeldKnown, RecordAgrees
    <2> QED
      BY <1>2, <1>5, <2>1, <2>2, LooksAt
  <1>6. CASE Loads
    <2>1. actor'.at \in {"idle", "check"}
      BY <1>6, LoadsFacts
    <2> QED
      BY <1>2, <2>1 DEF Holding
  <1>7. CASE Uses
    <2>1. CASE actor' = [actor EXCEPT !.at = "learn", !.why = "use", !.closing = d.client]
      BY <1>2, <1>3, <2>1 DEF Actors, Holding
    <2>2. CASE UNCHANGED actor /\ \E n : CountedRecord(n)
      BY <1>1, <2>2 DEF HeldKnown, CountedRecord
    <2> QED
      BY <1>7, <2>1, <2>2, UsesFacts
  <1>8. CASE Launches \/ StartRefused
    BY <1>2, <1>4, <1>8, LaunchesFacts, RefusedFacts
  <1>9. CASE DropAnchor \/ PickAnchor
    <2>1. CASE actor' = Idle
      BY <1>2, <1>4, <2>1
    <2>2. CASE At("bias") /\ actor' = [actor EXCEPT !.at = "pick"] /\ EndRecord(d.state, d.client, NoClient)
      <3>1. actor.at \in Holding /\ actor'.held = actor.held
        BY <1>3, <2>2 DEF At, Holding, Actors
      <3> QED
        BY <1>1, <2>2, <3>1 DEF HeldKnown, EndRecord
    <2> QED
      BY <1>9, <2>1, <2>2, AnchorFacts
  <1>10. CASE CloseSession
    BY <1>2, <1>10 DEF CloseSession, Idle, Holding
  <1>11. CASE Lands
    <2>1. PICK c \in Ids : LandPerProgram(c) \/ LandGhidra(c)
      BY <1>11 DEF Lands
    <2>2. d.starting /\ UNCHANGED actor
      BY <1>1, <2>1, LandFacts DEF OneInFlight, InFlight, Landing, Flying
    <2> QED
      BY <1>1, <1>2, <2>2 DEF HeldKnown
  <1>12. CASE Turns
    <2>1. UNCHANGED d /\ (UNCHANGED actor \/ actor' = [actor EXCEPT !.closing = NoClient])
      BY <1>12, TurnsFacts
    <2>2. actor'.at = actor.at /\ actor'.held = actor.held
      BY <1>3, <2>1 DEF Actors
    <2> QED
      BY <1>1, <2>1, <2>2 DEF HeldKnown
  <1>13. CASE \E c \in Ids : Watch(c)
    <2>1. UNCHANGED actor
      BY <1>13 DEF Watch
    <2>2. EndRecord("failed", NoClient, NoClient) \/ EndRecord(d.state, d.client, d.anchor)
      BY <1>13, EndFacts
    <2> QED
      BY <1>1, <2>1, <2>2 DEF HeldKnown, EndRecord
  <1> QED
    BY <1>5, <1>6, <1>7, <1>8, <1>9, <1>10, <1>11, <1>12, <1>13, StepCases

-----------------------------------------------------------------------------
(* What a client for one program describes.                                *)

\* A start of one program that has not landed.
StartTrue(c) ==
    InFlight(c) /\ clients[c].kind # "ghidra" =>
        /\ clients[c].loads <= d.loads
        /\ clients[c].loads = d.loads => clients[c].prog = Program

\* A client in use, of one program.
UseTrue ==
    d.client # NoClient /\ clients[d.client].kind # "ghidra" =>
        clients[d.client].prog = Program /\ d.sidecar

\* StartsDescribe, in these words.
LEMMA StartsDescribeIs ==
    StartsDescribe <=> UseTrue /\ \A c \in Ids : StartTrue(c)
  BY DEF StartsDescribe, Describes, UseTrue, StartTrue

\* Loads are counted in numbers.
LEMMA LoadsNumbers ==
    ASSUME DecompTypes
    PROVE  d.loads \in Nat /\ \A c \in Ids : clients[c].loads \in Nat
  <1>1. d \in Records
    BY DEF DecompTypes
  <1>2. ASSUME NEW c \in Ids
        PROVE  clients[c].loads \in Nat
    <2>1. clients[c] \in ClientTypes
      BY IdsFacts
    <2> QED
      BY <2>1 DEF ClientTypes
  <1>3. d.loads \in Nat
    BY <1>1 DEF Records
  <1> QED
    BY <1>2, <1>3

\* A start knows its program for as long as nothing was loaded since.
LEMMA StartTrueKept ==
    ASSUME DecompTypes, OneStart, StartsDescribe, [Next]_vars
    PROVE  \A c \in Ids' : StartTrue(c)'
  <1>1. OneInFlight /\ FreeToStart /\ \A c \in Ids : StartTrue(c)
    BY StartsDescribeIs DEF OneStart
  <1>2. \A m, n \in Nat : (m <= n => m <= n + 1 /\ m # n + 1) /\ m <= m
    OBVIOUS
  <1>3. d.loads \in Nat /\ \A c \in Ids : clients[c].loads \in Nat
    BY LoadsNumbers
  <1>4. ASSUME UNCHANGED clients, UNCHANGED <<loaded, learned>>, d'.loads = d.loads
        PROVE  \A c \in Ids' : StartTrue(c)'
    BY <1>1, <1>4 DEF StartTrue, InFlight, Program, Ids
  <1>5. ASSUME UNCHANGED clients, d'.loads = d.loads + 1
        PROVE  \A c \in Ids' : StartTrue(c)'
    <2>1. ASSUME NEW c \in Ids, InFlight(c), clients[c].kind # "ghidra"
          PROVE  clients[c].loads <= d'.loads /\ clients[c].loads # d'.loads
      BY <1>1, <1>2, <1>3, <1>5, <2>1 DEF StartTrue
    <2> QED
      BY <1>5, <2>1 DEF StartTrue, InFlight, Ids
  <1>6. ASSUME UNCHANGED <<loaded, learned>>, d'.loads = d.loads,
               NEW c \in Ids, NEW job, NEW alive, Moves(c, job, alive),
               job \in Flying => InFlight(c)
        PROVE  \A i \in Ids' : StartTrue(i)'
    <2>1. /\ Ids' = Ids /\ \A i \in Ids : i # c => clients'[i] = clients[i]
          /\ InFlight(c)' <=> job \in Flying
          /\ clients'[c].kind = clients[c].kind /\ clients'[c].prog = clients[c].prog
          /\ clients'[c].loads = clients[c].loads
      BY <1>6, MovesFlight
    <2>2. StartTrue(c)'
      BY <1>1, <1>6, <2>1 DEF StartTrue, Program
    <2>3. \A i \in Ids : i # c => StartTrue(i)'
      BY <1>1, <1>6, <2>1 DEF StartTrue, InFlight, Program
    <2> QED
      BY <2>1, <2>2, <2>3
  <1>7. CASE Looks
    BY <1>4, <1>7, LooksFacts
  <1>8. CASE Loads
    BY <1>5, <1>8, LoadsFacts DEF ResetRecord, CountedRecord
  <1>9. CASE Uses
    <2>1. d'.loads = d.loads \/ d'.loads = d.loads + 1
      BY <1>9, UsesFacts DEF ResetRecord, CountedRecord
    <2> QED
      BY <1>4, <1>5, <1>9, <2>1, UsesFacts
  <1>10. CASE Launches
    <2>1. UNCHANGED <<loaded, learned>>
      BY <1>10, LaunchesFacts
    <2>2. CASE UNCHANGED <<d, clients>>
      BY <1>4, <2>1, <2>2
    <2>3. CASE StartingRecord /\ \E kind, prog : Starts(kind, prog) /\ (kind # "ghidra" => prog = Program)
      <3>1. PICK kind, prog : Starts(kind, prog) /\ (kind # "ghidra" => prog = Program)
        BY <2>3
      <3>2. d'.loads = d.loads
        BY <2>3 DEF StartingRecord
      <3> DEFINE new == clients'[Len(clients')]
      <3>3. new.kind = kind /\ new.prog = prog /\ new.loads = d.loads
        BY <3>1 DEF Starts, Client
      <3>4. d.loads <= d.loads
        BY <1>2, <1>3
      <3>5. StartTrue(Len(clients))'
        BY <2>1, <3>1, <3>2, <3>3, <3>4 DEF StartTrue, Program
      <3>6. \A i \in Ids : StartTrue(i)'
        BY <1>1, <2>1, <3>1, <3>2 DEF Starts, StartTrue, InFlight, Program
      <3> QED
        BY <3>1, <3>5, <3>6 DEF Starts
    <2> QED
      BY <1>10, <2>2, <2>3, LaunchesFacts
  <1>11. CASE StartRefused
    BY <1>4, <1>11, RefusedFacts DEF EndRecord
  <1>12. CASE DropAnchor \/ PickAnchor
    BY <1>4, <1>12, AnchorFacts DEF EndRecord
  <1>13. CASE CloseSession
    <2>1. UNCHANGED <<clients, loaded, learned>>
      BY <1>13 DEF CloseSession
    <2> QED
      BY <1>4, <1>13, <2>1, EndFacts DEF EndRecord
  <1>14. CASE Lands
    <2>1. PICK c \in Ids : LandPerProgram(c) \/ LandGhidra(c)
      BY <1>14 DEF Lands
    <2>2. UNCHANGED <<loaded, learned>> /\ d'.loads = d.loads
      BY <2>1, LandFacts DEF EndedRecord, ReadyRecord
    <2>3. PICK job \in {"done", "discard", "watch"} : Moves(c, job, clients[c].alive)
      BY <2>1, LandFacts
    <2>4. job \notin Flying
      BY <2>3 DEF Flying
    <2> QED
      BY <1>6, <2>2, <2>3, <2>4
  <1>15. CASE Turns
    <2>1. UNCHANGED <<d, loaded, learned>>
      BY <1>15, TurnsFacts
    <2>2. PICK c \in Ids : \E job, alive : Moves(c, job, alive) /\ (InFlight(c) <=> job \in Flying)
      BY <1>15, TurnFlight
    <2> QED
      BY <1>6, <2>1, <2>2
  <1>16. CASE \E c \in Ids : Watch(c)
    <2>1. PICK c \in Ids : Watch(c)
      BY <1>16
    <2>2. Moves(c, "done", clients[c].alive) /\ UNCHANGED <<loaded, learned>> /\ d'.loads = d.loads
      BY <2>1, ClientSteps, EndFacts DEF Watch, EndRecord
    <2>3. "done" \notin Flying
      BY DEF Flying
    <2> QED
      BY <1>6, <2>2, <2>3
  <1> QED
    BY <1>7, <1>8, <1>9, <1>10, <1>11, <1>12, <1>13, <1>14, <1>15, <1>16, StepCases

\* A client in use describes the program there is: what came up in time does,
\* and a new program takes it out of use.
LEMMA UseTrueKept ==
    ASSUME DecompTypes, OneStart, StartsDescribe, [Next]_vars
    PROVE  UseTrue'
  <1>1. RecordAgrees /\ OneInFlight /\ FreeToStart /\ UseTrue /\ \A c \in Ids : StartTrue(c)
    BY StartsDescribeIs DEF OneStart
  <1>2. ASSUME UNCHANGED <<loaded, learned>>, d'.client = d.client, d'.sidecar = d.sidecar,
               d.client # NoClient =>
                   /\ clients'[d.client].kind = clients[d.client].kind
                   /\ clients'[d.client].prog = clients[d.client].prog
        PROVE  UseTrue'
    BY <1>1, <1>2 DEF UseTrue, Program
  <1>3. ASSUME d'.client = NoClient
        PROVE  UseTrue'
    BY <1>3 DEF UseTrue
  <1>4. d.client \in Ids \cup {NoClient}
    BY DEF DecompTypes
  <1>5. ASSUME NEW c \in Ids, NEW job, NEW alive, Moves(c, job, alive), d.client # NoClient
        PROVE  /\ clients'[d.client].kind = clients[d.client].kind
               /\ clients'[d.client].prog = clients[d.client].prog
    BY <1>4, <1>5, MovesFlight
  <1>6. CASE Looks
    BY <1>2, <1>6, LooksFacts
  <1>7. CASE Loads
    <2>1. CASE Switches
      BY <1>3, <1>7, <2>1, LoadsFacts DEF ResetRecord
    <2>2. CASE ~Switches
      <3>1. d.starting \/ ~d.sidecar
        BY <2>2 DEF Switches
      <3>2. d.client = NoClient \/ clients[d.client].kind = "ghidra"
        BY <1>1, <3>1 DEF RecordAgrees, UseTrue
      <3>3. UNCHANGED clients /\ d'.client = d.client
        BY <1>7, <2>2, LoadsFacts DEF CountedRecord
      <3> QED
        BY <3>2, <3>3 DEF UseTrue
    <2> QED
      BY <2>1, <2>2
  <1>8. CASE Uses
    BY <1>2, <1>3, <1>8, UsesFacts DEF ResetRecord, CountedRecord
  <1>9. CASE Launches
    <2>1. d.client = NoClient
      BY <1>1, <1>9, LaunchesFacts DEF FreeToStart, At, Busy, RecordAgrees
    <2> QED
      BY <1>3, <1>9, <2>1, LaunchesFacts DEF StartingRecord
  <1>10. CASE StartRefused
    BY <1>2, <1>10, RefusedFacts DEF EndRecord
  <1>11. CASE DropAnchor \/ PickAnchor
    BY <1>2, <1>11, AnchorFacts DEF EndRecord
  <1>12. CASE CloseSession
    BY <1>3, <1>12, EndFacts DEF EndRecord
  <1>13. CASE Lands
    <2>1. PICK c \in Ids : LandPerProgram(c) \/ LandGhidra(c)
      BY <1>13 DEF Lands
    <2>2. InFlight(c) /\ UNCHANGED <<loaded, learned>>
      BY <2>1, LandFacts DEF InFlight, Landing, Flying
    <2>3. d.client = NoClient
      BY <1>1, <2>2 DEF OneInFlight, RecordAgrees
    <2>4. CASE d'.client = d.client
      BY <1>3, <2>3, <2>4
    <2>5. CASE d'.client = c /\ Moves(c, "watch", clients[c].alive)
               /\ (clients[c].kind # "ghidra" => d'.sidecar /\ ~Stale(c))
      <3>1. clients'[c].kind = clients[c].kind /\ clients'[c].prog = clients[c].prog
        BY <2>5, MovesFlight
      <3>2. clients[c].kind # "ghidra" => clients[c].prog = Program /\ d'.sidecar
        BY <1>1, <2>2, <2>5 DEF StartTrue, Stale
      <3> QED
        BY <2>2, <2>5, <3>1, <3>2 DEF UseTrue, Program
    <2> QED
      BY <2>1, <2>4, <2>5, LandFacts DEF EndedRecord, ReadyRecord
  <1>14. CASE Turns
    <2>1. UNCHANGED <<d, loaded, learned>>
      BY <1>14, TurnsFacts
    <2>2. \E c \in Ids : \E job, alive : Moves(c, job, alive)
      BY <1>14, TurnFlight
    <2> QED
      BY <1>2, <1>5, <2>1, <2>2
  <1>15. CASE \E c \in Ids : Watch(c)
    <2>1. PICK c \in Ids : Watch(c)
      BY <1>15
    <2>2. Moves(c, "done", clients[c].alive) /\ UNCHANGED <<loaded, learned>>
      BY <2>1, ClientSteps DEF Watch
    <2>3. CASE d.client = c
      BY <1>3, <2>1, <2>3, EndFacts DEF EndRecord
    <2>4. CASE d.client # c
      BY <1>2, <1>5, <2>1, <2>2, <2>4, EndFacts DEF EndRecord
    <2> QED
      BY <2>3, <2>4
  <1> QED
    BY <1>6, <1>7, <1>8, <1>9, <1>10, <1>11, <1>12, <1>13, <1>14, <1>15, StepCases

-----------------------------------------------------------------------------
(* What the browser is told, and the theorems.                             *)

\* The actor is in a handler that ends by telling the browser.
Telling ==
    /\ actor.at \in {"learn", "check", "start", "answer", "emit"}
    /\ actor.why \in {"status", "use"}

\* PaneTold, in these words.
LEMMA PaneToldIs == PaneTold <=> pane = d.client \/ news \/ actor.at = "ended" \/ Telling
  BY DEF PaneTold, Telling

\* A handler that will tell goes on to tell.
LEMMA StartedTelling ==
    ASSUME DecompTypes, Telling, actor' = Started
    PROVE  Telling'
  BY StartedFacts DEF Telling

\* Whatever comes into use or goes out of use is told.
LEMMA PaneToldKept ==
    ASSUME DecompTypes, PaneTold, [Next]_vars
    PROVE  PaneTold'
  <1>1. pane = d.client \/ news \/ actor.at = "ended" \/ Telling
    BY PaneToldIs
  <1> SUFFICES (pane = d.client \/ news \/ actor.at = "ended" \/ Telling)'
    BY DEF PaneTold, Telling
  <1>2. actor \in Actors
    BY ActorFacts
  <1> DEFINE Told == pane = d.client \/ news
  <1>3. ASSUME NEW at, At(at), at \notin {"learn", "check", "start", "answer", "emit", "ended"}
        PROVE  Told
    BY <1>1, <1>3 DEF At, Telling
  <1>4. ASSUME NEW at, At(at), at # "ended"
        PROVE  Told \/ Telling
    BY <1>1, <1>4 DEF At
  <1>5. ASSUME Told, d'.client = d.client, pane' = pane, news => news'
        PROVE  Told'
    BY <1>5
  <1>6. ASSUME actor'.at = actor.at, actor'.why = actor.why,
               d'.client = d.client, pane' = pane, news => news'
        PROVE  (Told \/ actor.at = "ended" \/ Telling)'
    BY <1>1, <1>6 DEF Telling
  <1>7. CASE Looks
    <2>1. UNCHANGED d
      BY <1>7, LooksFacts
    <2>2. ASSUME NEW why \in {"status", "names"}, Look(why)
          PROVE  (Told \/ Telling)'
      <3>1. CASE why = "status"
        BY <1>2, <2>2, <3>1 DEF Look, Telling, Actors
      <3>2. CASE why = "names"
        <4>1. Told
          BY <1>3, <2>2 DEF Look
        <4> QED
          BY <2>1, <2>2, <3>2, <4>1 DEF Look
      <3> QED
        BY <3>1, <3>2
    <2>3. CASE Borrow \/ KeepAnchor
      <3>1. Told
        BY <1>3, <2>3 DEF Borrow, KeepAnchor
      <3> QED
        BY <1>5, <2>1, <2>3, <3>1 DEF Borrow, KeepAnchor
    <2>4. CASE LearnNothing
      <3>1. Told \/ Telling
        BY <1>4, <2>4 DEF LearnNothing
      <3>2. actor'.at = "check" /\ actor'.why = actor.why
        BY <1>2, <2>4 DEF LearnNothing, Actors
      <3> QED
        BY <2>1, <2>4, <3>1, <3>2 DEF LearnNothing, Telling
    <2>5. CASE CheckBusy
      <3>1. Told \/ Telling
        BY <1>4, <2>5 DEF CheckBusy
      <3>2. CASE Busy
        BY <2>1, <2>5, <3>1, <3>2, StartedTelling DEF CheckBusy
      <3>3. CASE ~Busy
        <4>1. actor'.at = "start" /\ actor'.why = actor.why
          BY <1>2, <2>5, <3>3 DEF CheckBusy, Actors
        <4> QED
          BY <2>1, <2>5, <3>1, <4>1 DEF CheckBusy, Telling
      <3> QED
        BY <3>2, <3>3
    <2>6. CASE StartWaits
      <3>1. Told \/ Telling
        BY <1>4, <2>6 DEF StartWaits
      <3> QED
        BY <2>1, <2>6, <3>1, StartedTelling DEF StartWaits
    <2>7. CASE Answer \/ Emit
      BY <2>1, <2>7 DEF Answer, Emit
    <2>8. CASE (\E p \in Programs \cup {NoProgram} : ChangeTarget(p)) \/ UNCHANGED vars
      BY <1>6, <2>1, <2>8 DEF ChangeTarget, vars
    <2> QED
      BY <1>7, <2>2, <2>3, <2>4, <2>5, <2>6, <2>7, <2>8 DEF Looks
  <1>8. CASE Loads
    <2>1. CASE Switches
      BY <1>8, <2>1, LoadsFacts
    <2>2. CASE ~Switches
      <3>1. d'.client = d.client /\ pane' = pane /\ news' = news
        BY <1>8, <2>2, LoadsFacts DEF CountedRecord, DecompTypes
      <3>2. CASE \E p \in Programs : Load(p)
        <4>1. Told
          BY <1>3, <3>2 DEF Load
        <4> QED
          BY <1>5, <3>1, <4>1
      <3>3. CASE LearnProgram
        <4>1. Told \/ Telling
          BY <1>4, <3>3 DEF LearnProgram
        <4>2. actor'.at = "check" /\ actor'.why = actor.why
          BY <1>2, <3>3 DEF LearnProgram, Actors
        <4> QED
          BY <3>1, <4>1, <4>2 DEF Telling
      <3> QED
        BY <1>8, <3>2, <3>3 DEF Loads
    <2> QED
      BY <2>1, <2>2
  <1>9. CASE Uses
    <2>1. CASE actor' = [actor EXCEPT !.at = "learn", !.why = "use", !.closing = d.client]
      BY <1>2, <2>1 DEF Telling, Actors
    <2>2. CASE UNCHANGED <<actor, pane, news>> /\ d'.client = d.client
      BY <1>6, <2>2
    <2> QED
      BY <1>9, <2>1, <2>2, UsesFacts DEF CountedRecord
  <1>10. CASE Launches \/ StartRefused
    <2>1. /\ d'.client = d.client /\ UNCHANGED <<pane, news>>
          /\ At("start") /\ actor' = Started
      BY <1>10, LaunchesFacts, RefusedFacts DEF StartingRecord, EndRecord
    <2>2. Told \/ Telling
      BY <1>4, <2>1
    <2> QED
      BY <2>1, <2>2, StartedTelling
  <1>11. CASE DropAnchor \/ PickAnchor
    <2>1. d'.client = d.client /\ UNCHANGED <<pane, news>> /\ (At("bias") \/ At("pick"))
      BY <1>11, AnchorFacts DEF EndRecord
    <2>2. Told
      BY <1>3, <2>1
    <2> QED
      BY <1>5, <2>1, <2>2
  <1>12. CASE CloseSession
    BY <1>12 DEF CloseSession, Idle
  <1>13. CASE Lands
    <2>1. UNCHANGED <<actor, pane>> /\ (news => news') /\ (d'.client = d.client \/ news')
      BY <1>13, LandFacts DEF Lands, EndedRecord
    <2> QED
      BY <1>6, <2>1
  <1>14. CASE Turns
    <2>1. /\ UNCHANGED <<d, pane>> /\ (news => news')
          /\ UNCHANGED actor \/ actor' = [actor EXCEPT !.closing = NoClient]
      BY <1>14, TurnsFacts
    <2>2. actor'.at = actor.at /\ actor'.why = actor.why
      BY <1>2, <2>1 DEF Actors
    <2> QED
      BY <1>6, <2>1, <2>2
  <1>15. CASE \E c \in Ids : Watch(c)
    BY <1>15 DEF Watch
  <1> QED
    BY <1>7, <1>8, <1>9, <1>10, <1>11, <1>12, <1>13, <1>14, <1>15, StepCases

\* The invariant holds at first.
LEMMA DecompInvInit ==
    ASSUME Init
    PROVE  DecompInv
  <1>1. cfg \in ConfigTypes /\ Ids = {} /\ clients \in Seq(ClientTypes)
    <2>1. cfg \in Configs /\ clients = <<>>
      BY DEF Init
    <2>2. cfg \in ConfigTypes
      BY <2>1, ConfigsAssumption
    <2>3. <<>> \in Seq(ClientTypes) /\ DOMAIN <<>> = {}
      BY EmptySeq
    <2> QED
      BY <2>1, <2>2, <2>3 DEF Ids
  <1>2. d \in Records /\ d.client = NoClient /\ d.anchor = NoClient
    BY DEF Init, Records, States, Names, NoClient
  <1>3. actor \in Actors /\ actor.held = NoClient /\ actor.closing = NoClient
    BY DEF Init, Actors, Steps, NoClient
  <1>4. DecompTypes
    BY <1>1, <1>2, <1>3, Blank DEF Init, DecompTypes, Actors
  <1>5. OneStart
    BY <1>1, <1>2 DEF Init, OneStart, RecordAgrees, OneInFlight, FreeToStart
  <1>6. NoneLeft
    BY <1>1 DEF NoneLeft, NoOrphan
  <1>7. AnchorKnown
    BY <1>2 DEF Init, AnchorKnown, AnchorOfClient
  <1>8. StartsDescribe
    BY <1>1, <1>2 DEF StartsDescribe, Describes
  <1>9. PaneTold
    BY <1>2 DEF Init, PaneTold
  <1> QED
    BY <1>4, <1>5, <1>6, <1>7, <1>8, <1>9 DEF DecompInv

\* The invariant is kept.
LEMMA DecompInvKept ==
    ASSUME DecompInv, [Next]_vars
    PROVE  DecompInv'
  <1>1. DecompTypes /\ OneStart /\ NoneLeft /\ AnchorKnown /\ StartsDescribe /\ PaneTold
    BY DEF DecompInv
  <1>2. DecompTypes'
    BY <1>1, TypesKept
  <1>3. OneStart'
    BY <1>1, RecordAgreesKept, OneInFlightKept, FreeToStartKept DEF OneStart
  <1>4. NoneLeft'
    BY <1>1, NoneLeftKept
  <1>5. AnchorKnown'
    <2>1. AnchorSafe' /\ HeldKnown'
      BY <1>1, AnchorSafeKept, HeldKnownKept
    <2> QED
      BY <2>1 DEF AnchorKnown, AnchorSafe, HeldKnown, Holding
  <1>6. StartsDescribe'
    <2>1. UseTrue' /\ \A c \in Ids' : StartTrue(c)'
      BY <1>1, UseTrueKept, StartTrueKept
    <2> QED
      BY <2>1 DEF StartsDescribe, Describes, UseTrue, StartTrue
  <1>7. PaneTold'
    BY <1>1, PaneToldKept
  <1> QED
    BY <1>2, <1>3, <1>4, <1>5, <1>6, <1>7 DEF DecompInv

\* The inductive invariant: what decomp.go keeps true between any two steps of
\* the actor, the starts and the watchers.
THEOREM DecompInvHolds == Spec => []DecompInv
  BY DecompInvInit, DecompInvKept, PTL DEF Spec

\* decomp.go's record tells one story: never two starts, and a client exactly
\* when the state is ready.
THEOREM OneStoryHolds == Spec => []OneStory
  <1>1. DecompInv => OneStory
    BY DEF DecompInv, OneStart, RecordAgrees, OneInFlight, OneStory, InFlight, Flying, Landing
  <1> QED
    BY <1>1, DecompInvHolds, PTL

\* No decompiler process is left running by a switch, a load or a shutdown that
\* overtakes a start.
THEOREM NoOrphanHolds == Spec => []NoOrphan
  <1>1. DecompInv => NoOrphan
    BY DEF DecompInv, NoneLeft
  <1> QED
    BY <1>1, DecompInvHolds, PTL

\* A sidecar or a kuna in use describes the program that is loaded, however late
\* it came up.
THEOREM DescribesHolds == Spec => []Describes
  <1>1. DecompInv => Describes
    BY DEF DecompInv, StartsDescribe
  <1> QED
    BY <1>1, DecompInvHolds, PTL

\* The cached anchor of the address mapping is that of the client in use.
THEOREM AnchorOfClientHolds == Spec => []AnchorOfClient
  <1>1. DecompInv => AnchorOfClient
    BY DEF DecompInv, AnchorKnown
  <1> QED
    BY <1>1, DecompInvHolds, PTL

\* With nothing in progress the pane shows the decompiler in use.
THEOREM PaneCurrentHolds == Spec => []PaneCurrent
  <1>1. DecompInv => PaneCurrent
    BY DEF DecompInv, PaneTold, PaneCurrent, Quiet, At
  <1> QED
    BY <1>1, DecompInvHolds, PTL

-----------------------------------------------------------------------------
(* The client and the server of kuna.                                      *)
(*                                                                         *)
(* What a caller gets is right if the goroutine that answers its id was    *)
(* started for the function it asked for (CallsAgree), and if the reply    *)
(* that goroutine's Run reads is to the request it wrote.  The page's      *)
(* replies carry no id, so the second rests on the connection: it owes     *)
(* nothing when nobody runs, and at most the one reply Run waits for       *)
(* (Private).  Ids are not used twice (IdsFresh), so that no goroutine     *)
(* takes another's place.                                                  *)

Asked == Functions \cup {Index}
Shown == Asked \cup {NoFunction}
KunaStates == {"none", "up", "down"}
Requests == [op : {"load", "upload", "run"}, fn : Shown]
Replies == [kind : {"ok", "have", "result", "error", "no binary"}, fn : Shown]
Links == [state : KunaStates, owed : Seq(Requests), replies : Seq(Replies)]
Calls == [id : Nat, fn : Shown, got : Shown, waits : BOOLEAN]
Lines == [id : Nat, fn : Shown]

KunaTypes ==
    /\ call \in [Callers -> Calls]
    /\ ids \in Nat
    /\ queue \in Seq(Lines)
    /\ DOMAIN handlers \subseteq Nat \ {NoId} /\ handlers \in [DOMAIN handlers -> Asked]
    /\ cache \in [Functions -> Shown]
    /\ running \in Nat
    /\ link \in Links
    /\ outlived \in BOOLEAN

\* The goroutines that wait for the engine, and the one that has it, decompile.
Decompiling ==
    /\ wanting \subseteq DOMAIN handlers
    /\ \A id \in wanting : handlers[id] # Index
    /\ running # NoId => running \in DOMAIN handlers /\ handlers[running] # Index
    /\ running \notin wanting

\* An id is written once, and read once.
IdsFresh ==
    /\ \A i \in 1 .. Len(queue) :
        /\ queue[i].id <= ids
        /\ queue[i].id \notin DOMAIN handlers
        /\ queue[i].id = NoId => queue[i] = Quit
        /\ queue[i].id # NoId => queue[i].fn \in Asked
    /\ \A i, j \in 1 .. Len(queue) : queue[i].id = queue[j].id /\ queue[i].id # NoId => i = j
    /\ \A h \in DOMAIN handlers : h <= ids

\* What is on its way for a call's id is what the call asked for.
CallsAgree ==
    \A c \in Callers :
        /\ call[c].id <= ids
        /\ \A i \in 1 .. Len(queue) :
               queue[i].id = call[c].id /\ call[c].id # NoId => queue[i].fn = call[c].fn
        /\ call[c].id \in DOMAIN handlers => handlers[call[c].id] = call[c].fn

\* Whatever is on the connection l is about the function f.
About(l, f) ==
    /\ \A i \in 1 .. Len(l.owed) : l.owed[i].fn \in {f, NoFunction}
    /\ \A i \in 1 .. Len(l.replies) : l.replies[i].fn \in {f, NoFunction}

KunaQuiet(l) == l.owed = <<>> /\ l.replies = <<>>

OneAtMost(l) ==
    /\ Len(l.owed) + Len(l.replies) <= 1
    /\ l.state # "up" => l.owed = <<>>

\* The connection is the one Run's that is running.
Private ==
    ~outlived =>
        /\ OneAtMost(link)
        /\ IF running = NoId THEN KunaQuiet(link) ELSE About(link, handlers[running])

KunaInv == KunaTypes /\ Decompiling /\ IdsFresh /\ CallsAgree /\ Private /\ OwnAnswer

-----------------------------------------------------------------------------
(* The connection.                                                         *)

\* What Run writes is a request, about the function it is run for or none.
LEMMA RequestFacts ==
    /\ LoadOp \in Requests /\ LoadOp.fn = NoFunction
    /\ Upload \in Requests /\ Upload.fn = NoFunction
    /\ \A f \in Asked : Run(f) \in Requests /\ Run(f).fn = f
BY DEF Requests, LoadOp, Upload, Run, Shown

\* What a connection consists of.
LEMMA LinkFields ==
    ASSUME NEW l \in Links
    PROVE  l.owed \in Seq(Requests) /\ l.replies \in Seq(Replies) /\ l.state \in KunaStates
BY DEF Links

\* A connection is given by its fields.
LEMMA LinkMade ==
    ASSUME NEW s \in KunaStates, NEW o \in Seq(Requests), NEW r \in Seq(Replies)
    PROVE  [state |-> s, owed |-> o, replies |-> r] \in Links
BY DEF Links

\* What is changed in a connection leaves the rest of it.
LEMMA OwedChanged ==
    ASSUME NEW l \in Links, NEW o \in Seq(Requests)
    PROVE  LET after == [l EXCEPT !.owed = o]
           IN  after \in Links /\ after.state = l.state /\ after.owed = o /\ after.replies = l.replies
BY DEF Links

LEMMA RepliesChanged ==
    ASSUME NEW l \in Links, NEW r \in Seq(Replies)
    PROVE  LET after == [l EXCEPT !.replies = r]
           IN  after \in Links /\ after.state = l.state /\ after.owed = l.owed /\ after.replies = r
BY DEF Links

\* The length of what is empty, and of what is not.
LEMMA Lengths ==
    ASSUME NEW S, NEW q \in Seq(S)
    PROVE  /\ Len(q) \in Nat
           /\ Len(q) = 0 <=> q = <<>>
           /\ q # <<>> => Tail(q) \in Seq(S) /\ Len(Tail(q)) = Len(q) - 1 /\ Head(q) = q[1] /\ Head(q) \in S
                          /\ Len(q) >= 1 /\ \A i \in 1 .. Len(Tail(q)) : Tail(q)[i] = q[i + 1]
OBVIOUS

\* A queue to which a request is appended, or from which one is taken.
LEMMA Appended ==
    ASSUME NEW S, NEW q \in Seq(S), NEW e \in S
    PROVE  /\ Append(q, e) \in Seq(S) /\ Len(Append(q, e)) = Len(q) + 1
           /\ \A i \in 1 .. Len(Append(q, e)) :
                  \/ i \in 1 .. Len(q) /\ Append(q, e)[i] = q[i]
                  \/ i = Len(q) + 1 /\ Append(q, e)[i] = e
OBVIOUS

\* None is a sequence of anything.
LEMMA EmptyFacts == Len(<<>>) = 0 /\ \A S : <<>> \in Seq(S)
OBVIOUS

\* The states of a connection.
LEMMA StateFacts == "none" \in KunaStates /\ "up" \in KunaStates /\ "down" \in KunaStates
BY DEF KunaStates

\* A connection on which nothing is under way is fit for any Run.
LEMMA QuietFacts ==
    ASSUME NEW l \in Links, KunaQuiet(l), NEW f
    PROVE  OneAtMost(l) /\ About(l, f)
BY DEF KunaQuiet, OneAtMost, About

\* One that is closed has nothing under way.
LEMMA NoLinkFacts == NoLink \in Links /\ KunaQuiet(NoLink)
<1>1. NoLink = [state |-> "none", owed |-> <<>>, replies |-> <<>>]
  BY DEF NoLink
<1>2. NoLink \in Links
  <2> HIDE DEF NoLink
  <2> QED
    BY <1>1, EmptyFacts, LinkMade, StateFacts
<1>3. KunaQuiet(NoLink)
  BY DEF NoLink, KunaQuiet
<1> QED
  BY <1>2, <1>3

\* One that was dialled owes what was written first, the binary.
LEMMA FreshFacts ==
    ASSUME NEW f
    PROVE  Fresh(LoadOp) \in Links /\ OneAtMost(Fresh(LoadOp)) /\ About(Fresh(LoadOp), f)
<1>1. LoadOp \in Requests /\ LoadOp.fn = NoFunction
  BY RequestFacts
<1>2. <<LoadOp>> \in Seq(Requests) /\ Len(<<LoadOp>>) = 1 /\ <<LoadOp>>[1] = LoadOp
  BY <1>1
<1>3. Fresh(LoadOp) = [state |-> "up", owed |-> <<LoadOp>>, replies |-> <<>>]
  BY DEF Fresh
<1>4. Fresh(LoadOp) \in Links
  BY <1>2, <1>3, EmptyFacts, LinkMade, StateFacts
<1>5. Fresh(LoadOp).owed = <<LoadOp>> /\ Fresh(LoadOp).replies = <<>> /\ Fresh(LoadOp).state = "up"
  BY <1>3
<1> QED
  BY <1>1, <1>2, <1>4, <1>5 DEF OneAtMost, About

\* A request written to a quiet connection is all that is under way on it.
LEMMA WrittenFacts ==
    ASSUME NEW l \in Links, KunaQuiet(l), NEW f, NEW r \in Requests, r.fn \in {f, NoFunction}
    PROVE  /\ Written(l, r) \in Links
           /\ OneAtMost(Written(l, r))
           /\ About(Written(l, r), f)
<1>1. CASE l.state # "up"
  <2>1. Written(l, r) = l
    BY <1>1 DEF Written
  <2> QED
    BY <2>1, QuietFacts
<1>2. CASE l.state = "up"
  <2> DEFINE o == Append(l.owed, r)
  <2>1. l.owed = <<>> /\ l.replies = <<>>
    BY DEF KunaQuiet
  <2>2. o \in Seq(Requests) /\ Len(o) = 1 /\ o[1] = r
    BY <2>1, LinkFields
  <2>3. Written(l, r) = [l EXCEPT !.owed = o]
    BY <1>2 DEF Written
  <2> HIDE DEF o
  <2> DEFINE w == Written(l, r)
  <2>4. w \in Links /\ w.owed = o /\ w.replies = l.replies /\ w.state = l.state
    BY <2>2, <2>3, OwedChanged
  <2> HIDE DEF w
  <2>5. w.replies = <<>> /\ w.state = "up"
    BY <1>2, <2>1, <2>4
  <2>6. Len(w.owed) = 1 /\ Len(w.replies) = 0
    BY <2>2, <2>4, <2>5, EmptyFacts
  <2>7. OneAtMost(w)
    <3>1. Len(w.owed) + Len(w.replies) <= 1
      BY <2>6
    <3> QED
      BY <2>5, <3>1 DEF OneAtMost
  <2>8. About(w, f)
    <3>1. \A i \in 1 .. Len(w.owed) : i = 1
      BY <2>6
    <3>2. \A i \in 1 .. Len(w.replies) : FALSE
      BY <2>6
    <3>3. w.owed[1].fn \in {f, NoFunction}
      BY <2>2, <2>4
    <3> QED
      BY <3>1, <3>2, <3>3 DEF About
  <2> QED
    BY <2>4, <2>7, <2>8 DEF w
<1> QED
  BY <1>1, <1>2

\* Written to any connection, it leaves a connection.
LEMMA WrittenTyped ==
    ASSUME NEW l \in Links, NEW r \in Requests
    PROVE  Written(l, r) \in Links
<1>1. CASE l.state # "up"
  BY <1>1 DEF Written
<1>2. CASE l.state = "up"
  <2>1. Append(l.owed, r) \in Seq(Requests)
    BY LinkFields
  <2>2. Written(l, r) = [l EXCEPT !.owed = Append(l.owed, r)]
    BY <1>2 DEF Written
  <2> QED
    BY <2>1, <2>2, OwedChanged
<1> QED
  BY <1>1, <1>2

\* The reply that is read is about the function, and was all there was.
LEMMA ReadFacts ==
    ASSUME NEW l \in Links, l.replies # <<>>
    PROVE  LET rest == [l EXCEPT !.replies = Tail(@)]
           IN  /\ rest \in Links
               /\ Head(l.replies) \in Replies
               /\ OneAtMost(l) => KunaQuiet(rest)
               /\ \A f : About(l, f) => Head(l.replies).fn \in {f, NoFunction}
<1> DEFINE rest == [l EXCEPT !.replies = Tail(@)]
<1>1. l.replies \in Seq(Replies) /\ l.owed \in Seq(Requests) /\ l.state \in KunaStates
  BY LinkFields
<1>2. Tail(l.replies) \in Seq(Replies) /\ Len(l.replies) >= 1
      /\ Len(Tail(l.replies)) = Len(l.replies) - 1
      /\ Head(l.replies) = l.replies[1] /\ Head(l.replies) \in Replies
  BY <1>1, Lengths
<1>3. rest = [l EXCEPT !.replies = Tail(l.replies)]
  OBVIOUS
<1>4. rest \in Links /\ rest.owed = l.owed /\ rest.replies = Tail(l.replies)
  BY <1>2, <1>3, RepliesChanged
<1> HIDE DEF rest
<1>6. ASSUME OneAtMost(l) PROVE KunaQuiet(rest)
  <2> DEFINE m == Len(l.owed)
             n == Len(l.replies)
             k == Len(Tail(l.replies))
  <2>1. m + n <= 1
    BY <1>6 DEF OneAtMost
  <2>2. m \in Nat /\ n \in Nat /\ n >= 1 /\ k = n - 1
    BY <1>1, <1>2, Lengths
  <2> HIDE DEF m, n, k
  <2>3. m = 0 /\ k = 0
    BY <2>1, <2>2
  <2>4. l.owed = <<>>
    BY <1>1, <2>3, Lengths DEF m
  <2>5. Tail(l.replies) = <<>>
    BY <1>2, <2>3, Lengths DEF k
  <2> QED
    BY <1>4, <2>4, <2>5 DEF KunaQuiet
<1>7. ASSUME NEW f, About(l, f) PROVE Head(l.replies).fn \in {f, NoFunction}
  <2>1. 1 \in 1 .. Len(l.replies)
    BY <1>1, <1>2
  <2> QED
    BY <1>2, <1>7, <2>1 DEF About
<1> QED
  BY <1>2, <1>4, <1>6, <1>7 DEF rest

\* A reply in place of the request it answers.
LEMMA AnswerFacts ==
    ASSUME NEW l \in Links, l.owed # <<>>, l.state = "up", NEW r \in Replies,
           r.fn \in {Head(l.owed).fn, NoFunction}
    PROVE  LET after == [l EXCEPT !.owed = Tail(@), !.replies = Append(@, r)]
           IN  /\ after \in Links
               /\ OneAtMost(l) => OneAtMost(after)
               /\ ~KunaQuiet(l)
               /\ \A f : About(l, f) => About(after, f)
<1> DEFINE after == [l EXCEPT !.owed = Tail(@), !.replies = Append(@, r)]
           o == Tail(l.owed)
           p == Append(l.replies, r)
<1>1. l.replies \in Seq(Replies) /\ l.owed \in Seq(Requests) /\ l.state \in KunaStates
  BY LinkFields
<1>2. o \in Seq(Requests) /\ Len(l.owed) >= 1 /\ Len(o) = Len(l.owed) - 1
      /\ Head(l.owed) = l.owed[1]
  BY <1>1, Lengths
<1>3. p \in Seq(Replies) /\ Len(p) = Len(l.replies) + 1
  BY <1>1
<1>4. after = [l EXCEPT !.owed = o, !.replies = p]
  OBVIOUS
<1> HIDE DEF o, p, after
<1>5. after \in Links /\ after.owed = o /\ after.replies = p /\ after.state = l.state
  BY <1>2, <1>3, <1>4 DEF Links
<1>6. ASSUME OneAtMost(l) PROVE OneAtMost(after)
  <2> DEFINE m == Len(l.owed)
             n == Len(l.replies)
  <2>1. m + n <= 1
    BY <1>6 DEF OneAtMost
  <2>2. m \in Nat /\ n \in Nat
    BY <1>1, Lengths
  <2>3. Len(o) = m - 1 /\ Len(p) = n + 1
    BY <1>2, <1>3
  <2> HIDE DEF m, n
  <2>4. Len(o) + Len(p) <= 1
    BY <2>1, <2>2, <2>3
  <2> QED
    BY <1>5, <2>4 DEF OneAtMost
<1>7. ~KunaQuiet(l)
  BY DEF KunaQuiet
<1>8. ASSUME NEW f, About(l, f) PROVE About(after, f)
  <2>1. r.fn \in {f, NoFunction}
    <3>1. 1 \in 1 .. Len(l.owed)
      BY <1>1, <1>2
    <3>2. Head(l.owed).fn \in {f, NoFunction}
      BY <1>2, <1>8, <3>1 DEF About
    <3> QED
      BY <3>2
  <2>2. ASSUME NEW i \in 1 .. Len(o) PROVE o[i].fn \in {f, NoFunction}
    <3>1. o[i] = l.owed[i + 1] /\ i + 1 \in 1 .. Len(l.owed)
      BY <1>1, <1>2, <2>2, Lengths DEF o
    <3> QED
      BY <1>8, <3>1 DEF About
  <2>3. ASSUME NEW i \in 1 .. Len(p) PROVE p[i].fn \in {f, NoFunction}
    <3>1. CASE i <= Len(l.replies)
      <4>1. p[i] = l.replies[i] /\ i \in 1 .. Len(l.replies)
        BY <1>1, <1>3, <2>3, <3>1 DEF p
      <4> QED
        BY <1>8, <4>1 DEF About
    <3>2. CASE i = Len(l.replies) + 1
      <4>1. p[i] = r
        BY <1>1, <3>2 DEF p
      <4> QED
        BY <2>1, <4>1
    <3> QED
      BY <1>1, <1>3, <2>3, <3>1, <3>2
  <2> QED
    BY <1>5, <2>2, <2>3 DEF About
<1> QED
  BY <1>5, <1>6, <1>7, <1>8 DEF after, o, p

\* A connection that dropped owes nothing any more.
LEMMA DropFacts ==
    ASSUME NEW l \in Links
    PROVE  LET after == [l EXCEPT !.state = "down", !.owed = <<>>]
           IN  /\ after \in Links
               /\ OneAtMost(l) => OneAtMost(after)
               /\ KunaQuiet(l) => KunaQuiet(after)
               /\ \A f : About(l, f) => About(after, f)
<1> DEFINE after == [l EXCEPT !.state = "down", !.owed = <<>>]
<1>1. l.replies \in Seq(Replies) /\ l.owed \in Seq(Requests)
  BY LinkFields
<1>2. after \in Links /\ after.owed = <<>> /\ after.replies = l.replies
  <2>1. <<>> \in Seq(Requests) /\ "down" \in KunaStates
    BY EmptyFacts, StateFacts
  <2> QED
    BY <2>1 DEF Links
<1> HIDE DEF after
<1>5. Len(l.owed) \in Nat /\ Len(l.replies) \in Nat
  BY <1>1, Lengths
<1>6. ASSUME OneAtMost(l) PROVE OneAtMost(after)
  <2> DEFINE m == Len(l.owed)
             n == Len(l.replies)
  <2>1. m + n <= 1 /\ m \in Nat /\ n \in Nat
    BY <1>5, <1>6 DEF OneAtMost
  <2> HIDE DEF m, n
  <2>2. n <= 1 /\ 0 + n <= 1
    BY <2>1
  <2>3. Len(after.owed) = 0 /\ Len(after.replies) = n
    BY <1>2, EmptyFacts DEF n
  <2>4. Len(after.owed) + Len(after.replies) <= 1
    BY <2>2, <2>3
  <2> QED
    BY <1>2, <2>4 DEF OneAtMost
<1>7. KunaQuiet(l) => KunaQuiet(after)
  BY <1>2 DEF KunaQuiet
<1>8. ASSUME NEW f, About(l, f) PROVE About(after, f)
  BY <1>2, <1>8 DEF About
<1> QED
  BY <1>2, <1>6, <1>7, <1>8 DEF after

-----------------------------------------------------------------------------
(* What a step does.                                                       *)

\* The reply a step passes on, of those about a function, is of one of them.
LEMMA ReplyFacts ==
    ASSUME NEW request \in Requests, NEW r \in RepliesTo(request)
    PROVE  r \in Replies /\ r.fn \in {request.fn, NoFunction}
<1>1. NoFunction \in Shown /\ request.fn \in Shown
  BY DEF Requests, Shown
<1>2. ASSUME NEW f \in Shown
      PROVE  /\ Reply("ok", f) \in Replies /\ Reply("have", f) \in Replies
             /\ Reply("result", f) \in Replies /\ Reply("error", f) \in Replies
             /\ Reply("no binary", f) \in Replies
  BY <1>2 DEF Replies, Reply
<1>3. ASSUME NEW f, NEW kind PROVE Reply(kind, f).fn = f
  BY DEF Reply
<1>4. \/ r = Reply("ok", NoFunction) \/ r = Reply("have", NoFunction)
      \/ r = Reply("result", request.fn) \/ r = Reply("error", NoFunction)
      \/ r = Reply("no binary", NoFunction)
  BY DEF RepliesTo
<1> HIDE DEF Reply
<1> QED
  BY <1>1, <1>2, <1>3, <1>4

\* A goroutine that answers: its caller gets f, and it is gone.
Ended(id, f) ==
    /\ id \in DOMAIN handlers
    /\ handlers' = Without(id) /\ wanting' = wanting \ {id}
    /\ call' = call \/ call' = Answered(id, f)
    /\ queue' = queue /\ ids' = ids

\* One that answers from what is kept, and the one that has run.
AnswersKept ==
    \E id \in DOMAIN handlers, f \in Shown :
        /\ Ended(id, f)
        /\ id # running /\ running' = running /\ link' = link
        /\ cache' = cache /\ outlived' = outlived
        /\ ~outlived => f \in {handlers[id], NoFunction}

RunReturns ==
    \E f \in Shown :
        /\ running # NoId /\ Ended(running, f) /\ running' = NoId
        /\ cache' = cache \/ (f # NoFunction /\ cache' = [cache EXCEPT ![handlers[running]] = f])
        /\ link' \in Links
        /\ outlived' \in BOOLEAN
        /\ ~outlived' => ~outlived /\ f \in {handlers[running], NoFunction} /\ KunaQuiet(link')

\* Nothing of the goroutines changes but what one wants.
Steady == UNCHANGED <<call, ids, queue, handlers, cache, outlived>>

Misses ==
    /\ Steady /\ link' = link /\ running' = running
    /\ \E id \in DOMAIN handlers :
           handlers[id] # Index /\ id # running /\ wanting' = wanting \cup {id}

KunaStarts ==
    /\ Steady
    /\ \E id \in wanting :
           /\ running = NoId /\ running' = id /\ wanting' = wanting \ {id}
           /\ link' \in Links
           /\ ~outlived => OneAtMost(link') /\ About(link', handlers[id])

\* Something on the connection, or nothing at all.
KunaMoves ==
    /\ Steady /\ wanting' = wanting /\ running' = running
    /\ link' \in Links
    /\ ~outlived =>
           /\ OneAtMost(link')
           /\ IF running = NoId THEN KunaQuiet(link') ELSE About(link', handlers[running])

\* Nobody gets anything, and nothing new is written.
Quitting ==
    /\ UNCHANGED <<ids, handlers, wanting, cache, running, link, outlived>>
    /\ call' = AllFailed \/ (\E c \in Callers : call' = [call EXCEPT ![c].waits = FALSE]) \/ call' = call
    /\ queue' = queue \/ queue' = <<>> \/ queue' = Append(queue, Quit)

Asking == \E c \in Callers, f \in Asked : Ask(c, f)

\* A goroutine's answer ends it, whoever gets it.
LEMMA AnswersEnd ==
    ASSUME NEW id \in DOMAIN handlers, NEW f, Answers(id, f), queue' = queue, ids' = ids
    PROVE  Ended(id, f)
BY DEF Answers, Ended

\* Answers from the index.
LEMMA AnswerFromIndexFacts ==
    ASSUME KunaInv, NEW id \in DOMAIN handlers, AnswerFromIndex(id)
    PROVE  AnswersKept
<1>1. Ended(id, Index)
  BY AnswersEnd DEF AnswerFromIndex
<1>2. id # running
  <2>1. id # NoId
    BY DEF KunaInv, KunaTypes
  <2> QED
    BY <2>1 DEF KunaInv, Decompiling, AnswerFromIndex
<1>3. Index \in Shown /\ handlers[id] = Index
  BY DEF Shown, Asked, AnswerFromIndex
<1>4. UNCHANGED <<cache, running, link, outlived>>
  BY DEF AnswerFromIndex, engine, page
<1> QED
  BY <1>1, <1>2, <1>3, <1>4 DEF AnswersKept

\* What is asked for, but for what the index has, is a function.
LEMMA HandlerFacts ==
    ASSUME KunaInv, NEW id \in DOMAIN handlers
    PROVE  /\ handlers[id] \in Asked /\ id # NoId
           /\ handlers[id] # Index =>
                  /\ handlers[id] \in Functions /\ cache[handlers[id]] \in Shown
                  /\ ~outlived => cache[handlers[id]] \in {handlers[id], NoFunction}
<1>1. handlers[id] \in Asked /\ id # NoId
  BY DEF KunaInv, KunaTypes
<1>2. ASSUME handlers[id] # Index PROVE handlers[id] \in Functions
  BY <1>1, <1>2 DEF Asked
<1>3. \A f \in Functions : cache[f] \in Shown
  BY DEF KunaInv, KunaTypes
<1>4. ~outlived => \A f \in Functions : cache[f] \in {f, NoFunction}
  BY DEF KunaInv, OwnAnswer
<1> QED
  BY <1>1, <1>2, <1>3, <1>4

\* Answers from the cache, or wants to run.
LEMMA LookInCacheFacts ==
    ASSUME KunaInv, NEW id \in DOMAIN handlers, LookInCache(id)
    PROVE  AnswersKept \/ Misses
<1>1. handlers[id] # Index /\ id # running /\ UNCHANGED <<ids, queue, cache, running, link, outlived>>
  BY DEF LookInCache, engine, page
<1>2. CASE cache[handlers[id]] # NoFunction
  <2> DEFINE f == cache[handlers[id]]
  <2>1. Answers(id, f)
    BY <1>2 DEF LookInCache
  <2>2. f \in Shown /\ (~outlived => f \in {handlers[id], NoFunction})
    BY <1>1, HandlerFacts
  <2> HIDE DEF f
  <2>3. Ended(id, f)
    BY <1>1, <2>1, AnswersEnd
  <2> QED
    BY <1>1, <2>2, <2>3 DEF AnswersKept
<1>3. CASE ~(cache[handlers[id]] # NoFunction)
  <2>1. wanting' = wanting \cup {id} /\ UNCHANGED <<handlers, call>>
    BY <1>3 DEF LookInCache
  <2> QED
    BY <1>1, <2>1 DEF Misses, Steady
<1> QED
  BY <1>2, <1>3

\* Answers from the cache all the same, or runs.
LEMMA TakeRunFacts ==
    ASSUME KunaInv, NEW id \in DOMAIN handlers, TakeRun(id)
    PROVE  AnswersKept \/ KunaStarts
<1>1. id \in wanting /\ running = NoId /\ UNCHANGED <<ids, queue, cache, outlived>>
  BY DEF TakeRun
<1>2. handlers[id] # Index
  BY <1>1 DEF KunaInv, Decompiling
<1>3. id # running
  BY <1>1, HandlerFacts
<1>4. CASE cache[handlers[id]] # NoFunction
  <2> DEFINE f == cache[handlers[id]]
  <2>1. Answers(id, f) /\ UNCHANGED <<running, link>>
    BY <1>4 DEF TakeRun
  <2>2. f \in Shown /\ (~outlived => f \in {handlers[id], NoFunction})
    BY <1>2, HandlerFacts
  <2> HIDE DEF f
  <2>3. Ended(id, f)
    BY <1>1, <2>1, AnswersEnd
  <2> QED
    BY <1>1, <1>3, <2>1, <2>2, <2>3 DEF AnswersKept
<1>5. CASE ~(cache[handlers[id]] # NoFunction)
  <2>1. /\ running' = id /\ wanting' = wanting \ {id} /\ UNCHANGED <<handlers, call>>
        /\ link' = Written(link, Run(handlers[id]))
    BY <1>5 DEF TakeRun
  <2>2. Run(handlers[id]) \in Requests /\ Run(handlers[id]).fn = handlers[id]
    BY RequestFacts, HandlerFacts
  <2>3. link \in Links
    BY DEF KunaInv, KunaTypes
  <2>4. link' \in Links
    BY <2>1, <2>2, <2>3, WrittenTyped
  <2>5. ASSUME ~outlived PROVE OneAtMost(link') /\ About(link', handlers[id])
    <3>1. KunaQuiet(link)
      BY <1>1, <2>5 DEF KunaInv, Private
    <3> QED
      BY <2>1, <2>2, <2>3, <3>1, WrittenFacts
  <2>6. Steady
    BY <1>1, <2>1 DEF Steady
  <2> QED
    BY <1>1, <2>1, <2>4, <2>5, <2>6 DEF KunaStarts
<1> QED
  BY <1>4, <1>5

\* Run returns what it has, and leaves a connection that owes nothing.
LEMMA ReturnsFacts ==
    ASSUME KunaInv, NEW f \in Shown, Returns(f), running # NoId, queue' = queue, ids' = ids,
           link' \in Links, outlived' \in BOOLEAN,
           ~outlived' => ~outlived /\ f \in {handlers[running], NoFunction} /\ KunaQuiet(link')
    PROVE  RunReturns
<1>1. running \in DOMAIN handlers
  BY DEF KunaInv, Decompiling
<1>2. Ended(running, f)
  BY <1>1, AnswersEnd DEF Returns
<1>3. running' = NoId
      /\ (cache' = cache \/ (f # NoFunction /\ cache' = [cache EXCEPT ![handlers[running]] = f]))
  BY DEF Returns
<1> QED
  BY <1>2, <1>3 DEF RunReturns

\* Run goes on: what it writes follows what it has read.
LEMMA ContinuesFacts ==
    ASSUME KunaInv, running # NoId, NEW next, NEW request \in Requests, NEW l \in Links,
           request.fn \in {handlers[running], NoFunction},
           ~outlived => KunaQuiet(l),
           Continues(next, request, l), UNCHANGED <<ids, queue, outlived>>
    PROVE  KunaMoves
<1>1. link' = Written(l, request) /\ UNCHANGED <<running, cache, handlers, wanting, call>>
  BY DEF Continues
<1>2. link' \in Links
  BY <1>1, WrittenTyped
<1>3. ASSUME ~outlived PROVE OneAtMost(link') /\ About(link', handlers[running])
  BY <1>1, <1>3, WrittenFacts
<1>4. Steady
  BY <1>1 DEF Steady
<1> QED
  BY <1>1, <1>2, <1>3, <1>4 DEF KunaMoves

\* Run reads a reply, and returns or goes on.
LEMMA GotFacts ==
    ASSUME KunaInv, Got
    PROVE  RunReturns \/ KunaMoves
<1> DEFINE r == Head(link.replies)
           rest == [link EXCEPT !.replies = Tail(@)]
           f == handlers[running]
<1>1. running # NoId /\ link.replies # <<>> /\ UNCHANGED <<ids, queue, outlived>>
  BY DEF Got
<1>2. link \in Links /\ outlived \in BOOLEAN
  BY DEF KunaInv, KunaTypes
<1>3. ~outlived => OneAtMost(link) /\ About(link, f)
  BY <1>1 DEF KunaInv, Private
<1>4. rest \in Links /\ r \in Replies /\ (OneAtMost(link) => KunaQuiet(rest))
      /\ (About(link, f) => r.fn \in {f, NoFunction})
  BY <1>1, <1>2, ReadFacts
<1>5. r.fn \in Shown /\ NoFunction \in Shown
  <2>1. r.fn \in Shown
    BY <1>4 DEF Replies
  <2> QED
    BY <2>1 DEF Shown
<1>6. /\ LoadOp \in Requests /\ LoadOp.fn = NoFunction
      /\ Upload \in Requests /\ Upload.fn = NoFunction
      /\ Run(f) \in Requests /\ Run(f).fn = f
  <2>1. f \in Asked
    BY <1>1, HandlerFacts DEF KunaInv, Decompiling
  <2> QED
    BY <2>1, RequestFacts
<1>7. \/ Returns(r.fn) /\ link' = rest
      \/ \E next : Continues(next, LoadOp, rest) \/ Continues(next, Run(f), rest) \/ Continues(next, Upload, rest)
      \/ Returns(NoFunction) /\ (link' = NoLink \/ link' = rest)
  BY DEF Got
<1> HIDE DEF r, rest, f
<1>8. CASE Returns(r.fn) /\ link' = rest
  <2>1. ~outlived' => ~outlived /\ r.fn \in {f, NoFunction} /\ KunaQuiet(link')
    BY <1>1, <1>3, <1>4, <1>8
  <2> QED
    BY <1>1, <1>2, <1>4, <1>5, <1>8, <2>1, ReturnsFacts DEF f
<1>9. CASE \E next : Continues(next, LoadOp, rest) \/ Continues(next, Run(f), rest) \/ Continues(next, Upload, rest)
  <2>1. PICK next : Continues(next, LoadOp, rest) \/ Continues(next, Run(f), rest) \/ Continues(next, Upload, rest)
    BY <1>9
  <2>2. ~outlived => KunaQuiet(rest)
    BY <1>3, <1>4
  <2>3. CASE Continues(next, LoadOp, rest)
    BY <1>1, <1>4, <1>6, <2>2, <2>3, ContinuesFacts DEF f
  <2>4. CASE Continues(next, Run(f), rest)
    BY <1>1, <1>4, <1>6, <2>2, <2>4, ContinuesFacts DEF f
  <2>5. CASE Continues(next, Upload, rest)
    BY <1>1, <1>4, <1>6, <2>2, <2>5, ContinuesFacts DEF f
  <2> QED
    BY <2>1, <2>3, <2>4, <2>5
<1>10. CASE Returns(NoFunction) /\ (link' = NoLink \/ link' = rest)
  <2>1. link' \in Links /\ (~outlived => KunaQuiet(link'))
    BY <1>3, <1>4, <1>10, NoLinkFacts
  <2>2. ~outlived' => ~outlived /\ NoFunction \in {f, NoFunction} /\ KunaQuiet(link')
    BY <1>1, <2>1
  <2> QED
    BY <1>1, <1>2, <1>5, <1>10, <2>1, <2>2, ReturnsFacts DEF f
<1> QED
  BY <1>7, <1>8, <1>9, <1>10

\* Run connects again, or gives up and hangs up.
LEMMA ReconnectFacts ==
    ASSUME KunaInv, NEW dialled \in BOOLEAN, Reconnect(dialled)
    PROVE  RunReturns \/ KunaMoves
<1>1. running # NoId /\ UNCHANGED <<ids, queue, outlived>>
  BY DEF Reconnect, RequestFails
<1>2. \/ link' = Fresh(LoadOp) /\ UNCHANGED <<running, cache, handlers, wanting, call>>
      \/ link' = NoLink /\ Returns(NoFunction)
  BY DEF Reconnect
<1>3. CASE link' = Fresh(LoadOp) /\ UNCHANGED <<running, cache, handlers, wanting, call>>
  <2>1. link' \in Links /\ OneAtMost(link') /\ About(link', handlers[running])
    BY <1>3, FreshFacts
  <2>2. Steady
    BY <1>1, <1>3 DEF Steady
  <2> QED
    BY <1>1, <1>3, <2>1, <2>2 DEF KunaMoves
<1>4. CASE link' = NoLink /\ Returns(NoFunction)
  <2>1. link' \in Links /\ KunaQuiet(link')
    BY <1>4, NoLinkFacts
  <2>2. NoFunction \in Shown /\ outlived' \in BOOLEAN
    BY <1>1 DEF Shown, KunaInv, KunaTypes
  <2> QED
    BY <1>1, <1>4, <2>1, <2>2, ReturnsFacts
<1> QED
  BY <1>2, <1>3, <1>4

\* The second failure is the last: what it leaves owed, outlived remembers.
LEMMA GiveUpRunFacts ==
    ASSUME KunaInv, GiveUpRun
    PROVE  RunReturns
<1>1. running # NoId /\ UNCHANGED <<ids, queue>> /\ Returns(NoFunction)
  BY DEF GiveUpRun, RequestFails
<1>2. /\ late \/ (link.state # "up" /\ link.replies = <<>>)
      /\ link' = NoLink \/ link' = link
      /\ outlived' = (outlived \/ (late /\ link' # NoLink))
  BY DEF GiveUpRun, RequestFails
<1>3. link \in Links /\ outlived \in BOOLEAN
  BY DEF KunaInv, KunaTypes
<1>4. link' \in Links
  BY <1>2, <1>3, NoLinkFacts
<1>5. outlived' \in BOOLEAN
  BY <1>2, <1>3
<1>6. ASSUME ~outlived' PROVE ~outlived /\ KunaQuiet(link')
  <2>1. ~outlived
    BY <1>2, <1>6
  <2>2. CASE link' = NoLink
    BY <2>1, <2>2, NoLinkFacts
  <2>3. CASE link' # NoLink
    <3>1. link.state # "up" /\ link.replies = <<>> /\ link' = link
      BY <1>2, <1>6, <2>3
    <3>2. link.owed = <<>>
      BY <2>1, <3>1 DEF KunaInv, Private, OneAtMost
    <3> QED
      BY <2>1, <3>1, <3>2 DEF KunaQuiet
  <2> QED
    BY <2>2, <2>3
<1>7. NoFunction \in Shown
  BY DEF Shown
<1> QED
  BY <1>1, <1>4, <1>5, <1>6, <1>7, ReturnsFacts

\* The page, and what becomes of the connection.
LEMMA PageFacts ==
    ASSUME KunaInv, PageAnswers \/ PageForgets \/ LinkDrops \/ Expire
    PROVE  KunaMoves
<1>1. link \in Links
  BY DEF KunaInv, KunaTypes
<1>2. Steady /\ UNCHANGED <<wanting, running>>
  BY DEF PageAnswers, PageForgets, LinkDrops, Expire, Steady, client, server, engine
<1>3. CASE PageAnswers
  <2>1. link.state = "up" /\ link.owed # <<>>
    BY <1>3 DEF PageAnswers
  <2>2. PICK r \in RepliesTo(Head(link.owed)) :
            link' = [link EXCEPT !.owed = Tail(@), !.replies = Append(@, r)]
    BY <1>3 DEF PageAnswers
  <2>3. Head(link.owed) \in Requests
    BY <1>1, <2>1, LinkFields, Lengths
  <2>4. r \in Replies /\ r.fn \in {Head(link.owed).fn, NoFunction}
    BY <2>3, ReplyFacts
  <2>5. /\ link' \in Links /\ (OneAtMost(link) => OneAtMost(link')) /\ ~KunaQuiet(link)
        /\ \A f : About(link, f) => About(link', f)
    BY <1>1, <2>1, <2>2, <2>4, AnswerFacts
  <2> QED
    BY <1>2, <2>5 DEF KunaInv, Private, KunaMoves
<1>4. CASE LinkDrops
  <2>1. link' = [link EXCEPT !.state = "down", !.owed = <<>>]
    BY <1>4 DEF LinkDrops
  <2>2. /\ link' \in Links /\ (OneAtMost(link) => OneAtMost(link')) /\ (KunaQuiet(link) => KunaQuiet(link'))
        /\ \A f : About(link, f) => About(link', f)
    BY <1>1, <2>1, DropFacts
  <2> QED
    BY <1>2, <2>2 DEF KunaInv, Private, KunaMoves
<1>5. CASE PageForgets \/ Expire
  <2>1. link' = link
    BY <1>5 DEF PageForgets, Expire, page
  <2> QED
    BY <1>1, <1>2, <2>1 DEF KunaInv, Private, KunaMoves
<1> QED
  BY <1>3, <1>4, <1>5

\* The engine's connection is closed when nobody runs.
LEMMA CloseEngineFacts ==
    ASSUME KunaInv, CloseEngine
    PROVE  KunaMoves
<1>1. running = NoId /\ link' = NoLink /\ Steady /\ UNCHANGED <<wanting, running>>
  BY DEF CloseEngine, Steady, client, server, engine
<1>2. link' \in Links /\ KunaQuiet(link') /\ OneAtMost(link')
  BY <1>1, NoLinkFacts, QuietFacts
<1> QED
  BY <1>1, <1>2 DEF KunaMoves

\* The callers that give up, and the end.
LEMMA QuittingFacts ==
    ASSUME KunaInv, (\E c \in Callers : GiveUp(c)) \/ HangUp \/ CloseConn \/ Close
    PROVE  Quitting
<1>1. CASE \E c \in Callers : GiveUp(c)
  BY <1>1 DEF GiveUp, Quitting, server, engine, page
<1>2. CASE HangUp
  BY <1>2 DEF HangUp, Quitting, server, engine, page
<1>3. CASE CloseConn
  BY <1>3 DEF CloseConn, Quitting, server, engine, page
<1>4. CASE Close
  BY <1>4 DEF Close, Quitting, client, server, engine, page
<1> QED
  BY <1>1, <1>2, <1>3, <1>4

\* Every step is one of these.
LEMMA KunaStepCases ==
    ASSUME KunaInv, KunaNext
    PROVE  AnswersKept \/ RunReturns \/ Misses \/ KunaStarts \/ KunaMoves \/ Quitting \/ Asking \/ Serve
<1>1. CASE \E c \in Callers, f \in Functions \cup {Index} : Ask(c, f)
  BY <1>1 DEF Asking, Asked
<1>2. CASE (\E c \in Callers : GiveUp(c)) \/ HangUp \/ CloseConn \/ Close
  BY <1>2, QuittingFacts
<1>3. CASE PageAnswers \/ PageForgets \/ LinkDrops \/ Expire
  BY <1>3, PageFacts
<1>4. CASE \E dialled \in BOOLEAN : Reconnect(dialled)
  BY <1>4, ReconnectFacts
<1>5. CASE \E id \in DOMAIN handlers : AnswerFromIndex(id) \/ LookInCache(id) \/ TakeRun(id)
  BY <1>5, AnswerFromIndexFacts, LookInCacheFacts, TakeRunFacts
<1>6. CASE Got
  BY <1>6, GotFacts
<1>7. CASE GiveUpRun
  BY <1>7, GiveUpRunFacts
<1>8. CASE CloseEngine
  BY <1>8, CloseEngineFacts
<1>9. CASE Serve
  BY <1>9
<1> QED
  BY <1>1, <1>2, <1>3, <1>4, <1>5, <1>6, <1>7, <1>8, <1>9 DEF KunaNext, Goroutines

-----------------------------------------------------------------------------
(* What becomes of a call, of the handlers and of the queue.               *)

\* A call is changed, but for what it got, to nothing but that it waits no more.
Kept(before, after) ==
    /\ after \in [Callers -> Calls]
    /\ \A c \in Callers : after[c].id = before[c].id /\ after[c].fn = before[c].fn

\* A reply ends the call that has its id, and no other.
LEMMA AnsweredFacts ==
    ASSUME KunaInv, NEW id, NEW f \in Shown
    PROVE  /\ Kept(call, Answered(id, f))
           /\ \A c \in Callers : \/ Answered(id, f)[c].got = call[c].got
                                 \/ call[c].id = id /\ Answered(id, f)[c].got = f
<1> DEFINE a == Answered(id, f)
<1>1. ASSUME NEW c \in Callers
      PROVE  /\ a[c] \in Calls /\ a[c].id = call[c].id /\ a[c].fn = call[c].fn
             /\ a[c].got = call[c].got \/ (call[c].id = id /\ a[c].got = f)
  <2>1. call[c] \in Calls
    BY DEF KunaInv, KunaTypes
  <2>2. CASE call[c].waits /\ call[c].id = id
    <3>1. a[c] = [call[c] EXCEPT !.waits = FALSE, !.got = f]
      BY <2>2 DEF Answered
    <3> QED
      BY <2>1, <2>2, <3>1 DEF Calls
  <2>3. CASE ~(call[c].waits /\ call[c].id = id)
    <3>1. a[c] = call[c]
      BY <2>3 DEF Answered
    <3> QED
      BY <2>1, <3>1
  <2> QED
    BY <2>2, <2>3
<1>2. a = [c \in Callers |-> a[c]]
  BY DEF Answered
<1> HIDE DEF a
<1>3. a \in [Callers -> Calls]
  BY <1>1, <1>2
<1> QED
  BY <1>1, <1>3 DEF Kept, a

\* A call that is given up is as it was, but that nobody waits.
LEMMA GivenUpFacts ==
    ASSUME KunaInv, NEW after,
           after = AllFailed \/ (\E c \in Callers : after = [call EXCEPT ![c].waits = FALSE]) \/ after = call
    PROVE  Kept(call, after) /\ \A c \in Callers : after[c].got = call[c].got
<1>1. call \in [Callers -> Calls]
  BY DEF KunaInv, KunaTypes
<1>2. ASSUME NEW x \in Calls
      PROVE  LET y == [x EXCEPT !.waits = FALSE]
             IN  y \in Calls /\ y.id = x.id /\ y.fn = x.fn /\ y.got = x.got
  BY DEF Calls
<1>3. CASE after = AllFailed
  <2>1. after = [c \in Callers |-> [call[c] EXCEPT !.waits = FALSE]]
    BY <1>3 DEF AllFailed
  <2> QED
    BY <1>1, <1>2, <2>1 DEF Kept
<1>4. CASE \E c \in Callers : after = [call EXCEPT ![c].waits = FALSE]
  <2>1. PICK c \in Callers : after = [call EXCEPT ![c].waits = FALSE]
    BY <1>4
  <2>2. after = [call EXCEPT ![c] = [call[c] EXCEPT !.waits = FALSE]]
    BY <1>1, <2>1
  <2> QED
    BY <1>1, <1>2, <2>2 DEF Kept
<1>5. CASE after = call
  BY <1>1, <1>5 DEF Kept
<1> QED
  BY <1>3, <1>4, <1>5

\* The handlers that are left are what they were.
LEMMA KunaEndedFacts ==
    ASSUME KunaInv, NEW id, NEW f, Ended(id, f)
    PROVE  /\ DOMAIN handlers' = DOMAIN handlers \ {id}
           /\ \A h \in DOMAIN handlers' : handlers'[h] = handlers[h]
           /\ handlers' \in [DOMAIN handlers' -> Asked]
           /\ id \in DOMAIN handlers
<1>1. handlers' = [h \in DOMAIN handlers \ {id} |-> handlers[h]]
  BY DEF Ended, Without
<1>2. DOMAIN handlers' = DOMAIN handlers \ {id} /\ \A h \in DOMAIN handlers' : handlers'[h] = handlers[h]
  BY <1>1
<1>3. \A h \in DOMAIN handlers : handlers[h] \in Asked
  BY HandlerFacts
<1>4. handlers' \in [DOMAIN handlers' -> Asked]
  BY <1>1, <1>2, <1>3
<1> QED
  BY <1>2, <1>4 DEF Ended

\* What serve reads is a request nobody has read before, or quit.
LEMMA ServeFacts ==
    ASSUME KunaInv, Serve
    PROVE  LET h == Head(queue).id
           IN  /\ queue \in Seq(Lines) /\ queue # <<>> /\ queue' = Tail(queue)
               /\ UNCHANGED <<call, ids, wanting, cache, running, link, outlived>>
               /\ \/ handlers' = handlers
                  \/ /\ h # NoId /\ h \in Nat /\ h <= ids /\ Head(queue).fn \in Asked
                     /\ Head(queue) = queue[1] /\ h \notin DOMAIN handlers
                     /\ DOMAIN handlers' = DOMAIN handlers \cup {h}
                     /\ handlers' \in [DOMAIN handlers' -> Asked]
                     /\ handlers'[h] = Head(queue).fn
                     /\ \A i \in DOMAIN handlers : handlers'[i] = handlers[i]
<1> DEFINE h == Head(queue).id
<1>1. queue \in Seq(Lines) /\ queue # <<>> /\ queue' = Tail(queue)
      /\ UNCHANGED <<call, ids, wanting, cache, running, link, outlived>>
  BY DEF Serve, KunaInv, KunaTypes, client, engine, page
<1>2. Head(queue) = queue[1] /\ Head(queue) \in Lines /\ 1 \in 1 .. Len(queue)
  BY <1>1, Lengths
<1>3. CASE Head(queue) = Quit
  BY <1>1, <1>3 DEF Serve
<1>4. CASE Head(queue) # Quit
  <2>1. handlers' = [i \in DOMAIN handlers \cup {h} |-> IF i = h THEN Head(queue).fn ELSE handlers[i]]
    BY <1>4 DEF Serve, With
  <2>2. h \in Nat
    BY <1>2 DEF Lines
  <2>3. h # NoId /\ h <= ids /\ Head(queue).fn \in Asked /\ h \notin DOMAIN handlers
    BY <1>2, <1>4 DEF KunaInv, IdsFresh
  <2>4. \A i \in DOMAIN handlers : handlers[i] \in Asked
    BY HandlerFacts
  <2> HIDE DEF h
  <2>5. DOMAIN handlers' = DOMAIN handlers \cup {h}
    BY <2>1
  <2>6. handlers' \in [DOMAIN handlers' -> Asked] /\ handlers'[h] = Head(queue).fn
    BY <2>1, <2>3, <2>4, <2>5
  <2>7. \A i \in DOMAIN handlers : handlers'[i] = handlers[i]
    BY <2>1, <2>3
  <2> QED
    BY <1>1, <1>2, <2>2, <2>3, <2>5, <2>6, <2>7 DEF h
<1> QED
  BY <1>3, <1>4

\* A call's request is the last in the queue, under an id of its own.
LEMMA AskingFacts ==
    ASSUME KunaInv, Asking
    PROVE  \E c \in Callers, f \in Asked :
               LET request == [id |-> ids', fn |-> f]
               IN  /\ ids' = ids + 1
                   /\ queue' = Append(queue, request) /\ request \in Lines
                   /\ call' \in [Callers -> Calls]
                   /\ call'[c].id = ids' /\ call'[c].fn = f /\ call'[c].got = NoFunction
                   /\ \A o \in Callers \ {c} : call'[o] = call[o]
                   /\ UNCHANGED <<handlers, wanting, cache, running, link, outlived>>
<1>1. PICK c \in Callers, f \in Asked : Ask(c, f)
  BY DEF Asking
<1> DEFINE new == [id |-> ids', fn |-> f, got |-> NoFunction, waits |-> TRUE]
<1>2. ids' = ids + 1 /\ queue' = Append(queue, [id |-> ids', fn |-> f])
      /\ call' = [call EXCEPT ![c] = new]
      /\ UNCHANGED <<handlers, wanting, cache, running, link, outlived>>
  BY <1>1 DEF Ask, engine, page
<1>3. ids' \in Nat /\ call \in [Callers -> Calls]
  BY <1>2 DEF KunaInv, KunaTypes
<1>4. new \in Calls /\ [id |-> ids', fn |-> f] \in Lines
  BY <1>3 DEF Calls, Lines, Shown
<1>5. new.id = ids' /\ new.fn = f /\ new.got = NoFunction
  OBVIOUS
<1> HIDE DEF new
<1>6. call' \in [Callers -> Calls] /\ call'[c] = new /\ \A o \in Callers \ {c} : call'[o] = call[o]
  BY <1>2, <1>3, <1>4
<1> QED
  BY <1>2, <1>4, <1>5, <1>6

-----------------------------------------------------------------------------
(* Each part of the invariant, kept by each kind of step.                  *)

\* The invariant's types, one by one.
LEMMA TypeFacts ==
    ASSUME KunaInv
    PROVE  /\ call \in [Callers -> Calls] /\ ids \in Nat /\ queue \in Seq(Lines)
           /\ DOMAIN handlers \subseteq Nat \ {NoId} /\ handlers \in [DOMAIN handlers -> Asked]
           /\ cache \in [Functions -> Shown] /\ running \in Nat /\ link \in Links
           /\ outlived \in BOOLEAN /\ Quit \in Lines
<1>1. Quit \in Lines
  BY DEF Quit, Lines, Shown, NoId
<1> QED
  BY <1>1 DEF KunaInv, KunaTypes

\* What stays as it is while Run is at work.
LEMMA SteadyFacts ==
    /\ Misses \/ KunaStarts \/ KunaMoves => UNCHANGED <<call, ids, queue, handlers, cache, outlived>>
    /\ KunaMoves => UNCHANGED <<wanting, running>> /\ link' \in Links
<1>1. Misses => Steady
  BY DEF Misses
<1>2. KunaStarts => Steady
  BY DEF KunaStarts
<1>3. KunaMoves => Steady
  BY DEF KunaMoves
<1>4. KunaMoves => UNCHANGED <<wanting, running>> /\ link' \in Links
  BY DEF KunaMoves
<1> QED
  BY <1>1, <1>2, <1>3, <1>4 DEF Steady

\* The types are kept.
LEMMA KunaTypesKept ==
    ASSUME KunaInv, KunaNext
    PROVE  KunaTypes'
<1> USE TypeFacts
<1>1. CASE AnswersKept
  <2>1. PICK id \in DOMAIN handlers, f \in Shown :
            /\ Ended(id, f)
            /\ running' = running /\ link' = link /\ cache' = cache /\ outlived' = outlived
    BY <1>1 DEF AnswersKept
  <2>2. call' = call \/ call' = Answered(id, f)
    BY <2>1 DEF Ended
  <2>3. call' \in [Callers -> Calls]
    BY <2>2, AnsweredFacts DEF Kept
  <2>4. queue' = queue /\ ids' = ids
    BY <2>1 DEF Ended
  <2> QED
    BY <2>1, <2>3, <2>4, KunaEndedFacts DEF KunaTypes
<1>2. CASE RunReturns
  <2>1. PICK f \in Shown :
            /\ running # NoId /\ Ended(running, f) /\ running' = NoId
            /\ cache' = cache \/ (f # NoFunction /\ cache' = [cache EXCEPT ![handlers[running]] = f])
            /\ link' \in Links /\ outlived' \in BOOLEAN
    BY <1>2 DEF RunReturns
  <2>2. call' = call \/ call' = Answered(running, f)
    BY <2>1 DEF Ended
  <2>3. call' \in [Callers -> Calls]
    BY <2>2, AnsweredFacts DEF Kept
  <2>4. queue' = queue /\ ids' = ids
    BY <2>1 DEF Ended
  <2>5. cache' \in [Functions -> Shown]
    BY <2>1
  <2>6. running' \in Nat
    BY <2>1 DEF NoId
  <2> QED
    BY <2>1, <2>3, <2>4, <2>5, <2>6, KunaEndedFacts DEF KunaTypes
<1>3. CASE Misses
  BY <1>3 DEF Misses, Steady, KunaTypes
<1>4. CASE KunaStarts
  <2>1. PICK id \in wanting : running' = id /\ link' \in Links
    BY <1>4 DEF KunaStarts
  <2>2. id \in Nat
    BY DEF KunaInv, Decompiling
  <2> QED
    BY <1>4, <2>1, <2>2 DEF KunaStarts, Steady, KunaTypes
<1>5. CASE KunaMoves
  BY <1>5, SteadyFacts DEF KunaTypes
<1>6. CASE Quitting
  <2>1. UNCHANGED <<ids, handlers, cache, running, link, outlived>>
    BY <1>6 DEF Quitting
  <2>2. call' \in [Callers -> Calls]
    BY <1>6, GivenUpFacts DEF Quitting, Kept
  <2>3. queue' \in Seq(Lines)
    <3>1. queue' = queue \/ queue' = <<>> \/ queue' = Append(queue, Quit)
      BY <1>6 DEF Quitting
    <3> HIDE DEF Quit
    <3>2. Append(queue, Quit) \in Seq(Lines) /\ <<>> \in Seq(Lines)
      BY EmptyFacts, Appended
    <3> QED
      BY <3>1, <3>2
  <2> QED
    BY <2>1, <2>2, <2>3 DEF KunaTypes
<1>7. CASE Asking
  <2>1. PICK c \in Callers, f \in Asked :
            LET request == [id |-> ids', fn |-> f]
            IN  /\ ids' = ids + 1
                /\ queue' = Append(queue, request) /\ request \in Lines
                /\ call' \in [Callers -> Calls]
                /\ UNCHANGED <<handlers, wanting, cache, running, link, outlived>>
    BY <1>7, AskingFacts
  <2> DEFINE request == [id |-> ids', fn |-> f]
  <2>2. queue' = Append(queue, request) /\ request \in Lines
    BY <2>1
  <2> HIDE DEF request
  <2>3. queue' \in Seq(Lines)
    BY <2>2
  <2>4. ids' \in Nat
    BY <2>1
  <2> QED
    BY <2>1, <2>3, <2>4 DEF KunaTypes
<1>8. CASE Serve
  <2>1. queue' \in Seq(Lines)
    <3>1. queue \in Seq(Lines) /\ queue # <<>> /\ queue' = Tail(queue)
      BY <1>8, ServeFacts
    <3> QED
      BY <3>1, Lengths
  <2>2. UNCHANGED <<call, ids, cache, running, link, outlived>>
    BY <1>8, ServeFacts
  <2>3. handlers' \in [DOMAIN handlers' -> Asked] /\ DOMAIN handlers' \subseteq Nat \ {NoId}
    BY <1>8, ServeFacts
  <2> QED
    BY <2>1, <2>2, <2>3 DEF KunaTypes
<1> QED
  BY <1>1, <1>2, <1>3, <1>4, <1>5, <1>6, <1>7, <1>8, KunaStepCases

\* The goroutines that want the engine, or have it, are there.
LEMMA DecompilingKept ==
    ASSUME KunaInv, KunaNext
    PROVE  Decompiling'
<1>0. /\ wanting \subseteq DOMAIN handlers
      /\ \A id \in wanting : handlers[id] # Index
      /\ running # NoId => running \in DOMAIN handlers /\ handlers[running] # Index
      /\ running \notin wanting
  BY DEF KunaInv, Decompiling
<1>1. CASE AnswersKept
  <2>1. PICK id \in DOMAIN handlers, f \in Shown :
            Ended(id, f) /\ id # running /\ running' = running
    BY <1>1 DEF AnswersKept
  <2>2. wanting' = wanting \ {id}
    BY <2>1 DEF Ended
  <2>3. DOMAIN handlers' = DOMAIN handlers \ {id} /\ \A h \in DOMAIN handlers' : handlers'[h] = handlers[h]
    BY <2>1, KunaEndedFacts
  <2> QED
    BY <1>0, <2>1, <2>2, <2>3 DEF Decompiling
<1>2. CASE RunReturns
  <2>1. PICK f \in Shown : running # NoId /\ Ended(running, f) /\ running' = NoId
    BY <1>2 DEF RunReturns
  <2>2. wanting' = wanting \ {running}
    BY <2>1 DEF Ended
  <2>3. NoId \notin wanting
    BY <1>0, TypeFacts
  <2> QED
    BY <1>0, <2>1, <2>2, <2>3, KunaEndedFacts DEF Decompiling
<1>3. CASE Misses
  <2>1. PICK id \in DOMAIN handlers :
            handlers[id] # Index /\ id # running /\ wanting' = wanting \cup {id}
    BY <1>3 DEF Misses
  <2>2. handlers' = handlers /\ running' = running
    BY <1>3 DEF Misses, Steady
  <2> QED
    BY <1>0, <2>1, <2>2 DEF Decompiling
<1>4. CASE KunaStarts
  <2>1. PICK id \in wanting : running' = id /\ wanting' = wanting \ {id}
    BY <1>4 DEF KunaStarts
  <2>2. handlers' = handlers
    BY <1>4 DEF KunaStarts, Steady
  <2> QED
    BY <1>0, <2>1, <2>2 DEF Decompiling
<1>5. CASE KunaMoves
  BY <1>0, <1>5, SteadyFacts DEF Decompiling
<1>6. CASE Quitting
  BY <1>0, <1>6 DEF Quitting, Decompiling
<1>7. CASE Asking
  <2>1. UNCHANGED <<handlers, wanting, running>>
    BY <1>7, AskingFacts
  <2> QED
    BY <1>0, <2>1 DEF Decompiling
<1>8. CASE Serve
  <2>1. UNCHANGED <<wanting, running>>
    BY <1>8, ServeFacts
  <2>2. \A id \in DOMAIN handlers : id \in DOMAIN handlers' /\ handlers'[id] = handlers[id]
    BY <1>8, ServeFacts
  <2> QED
    BY <1>0, <2>1, <2>2 DEF Decompiling
<1> QED
  BY <1>1, <1>2, <1>3, <1>4, <1>5, <1>6, <1>7, <1>8, KunaStepCases

\* Ids are fresh, as long as the queue is only consumed.
LEMMA FreshConsumed ==
    ASSUME KunaInv, ids' = ids,
           queue' = queue \/ queue' = <<>>,
           DOMAIN handlers' \subseteq DOMAIN handlers
    PROVE  IdsFresh'
<1>1. \A i \in 1 .. Len(queue') : i \in 1 .. Len(queue) /\ queue'[i] = queue[i]
  BY EmptyFacts
<1>2. IdsFresh
  BY DEF KunaInv
<1> QED
  BY <1>1, <1>2 DEF IdsFresh

\* No id is written twice or read twice.
LEMMA IdsFreshKept ==
    ASSUME KunaInv, KunaNext
    PROVE  IdsFresh'
<1>0. /\ \A i \in 1 .. Len(queue) :
             /\ queue[i].id <= ids
             /\ queue[i].id \notin DOMAIN handlers
             /\ queue[i].id = NoId => queue[i] = Quit
             /\ queue[i].id # NoId => queue[i].fn \in Asked
      /\ \A i, j \in 1 .. Len(queue) : queue[i].id = queue[j].id /\ queue[i].id # NoId => i = j
      /\ \A h \in DOMAIN handlers : h <= ids
  BY DEF KunaInv, IdsFresh
<1>1. CASE AnswersKept \/ RunReturns
  <2>1. PICK id, f : Ended(id, f)
    BY <1>1 DEF AnswersKept, RunReturns
  <2>2. ids' = ids /\ queue' = queue
    BY <2>1 DEF Ended
  <2> QED
    BY <2>1, <2>2, KunaEndedFacts, FreshConsumed
<1>2. CASE Misses \/ KunaStarts \/ KunaMoves
  <2>1. ids' = ids /\ queue' = queue /\ handlers' = handlers
    BY <1>2, SteadyFacts
  <2> QED
    BY <2>1, FreshConsumed
<1>3. CASE Quitting
  <2>1. ids' = ids /\ handlers' = handlers
    BY <1>3 DEF Quitting
  <2>2. CASE queue' = queue \/ queue' = <<>>
    BY <2>1, <2>2, FreshConsumed
  <2>3. CASE queue' = Append(queue, Quit)
    <3>1. queue \in Seq(Lines) /\ Quit \in Lines /\ ids \in Nat
      BY TypeFacts
    <3>2. \A i \in 1 .. Len(queue') :
              \/ i \in 1 .. Len(queue) /\ queue'[i] = queue[i]
              \/ i = Len(queue) + 1 /\ queue'[i] = Quit
      BY <2>3, <3>1, Appended
    <3>3. Quit.id = NoId /\ NoId <= ids /\ NoId \notin DOMAIN handlers
      BY <3>1, TypeFacts DEF Quit, NoId
    <3> HIDE DEF Quit
    <3> QED
      BY <1>0, <2>1, <3>2, <3>3 DEF IdsFresh
  <2> QED
    BY <1>3, <2>2, <2>3 DEF Quitting
<1>4. CASE Asking
  <2>1. PICK c \in Callers, f \in Asked :
            LET request == [id |-> ids', fn |-> f]
            IN  /\ ids' = ids + 1
                /\ queue' = Append(queue, request) /\ request \in Lines
                /\ UNCHANGED handlers
    BY <1>4, AskingFacts
  <2> DEFINE request == [id |-> ids', fn |-> f]
  <2>2. queue' = Append(queue, request) /\ request \in Lines /\ request.id = ids' /\ request.fn \in Asked
    BY <2>1
  <2>3. queue \in Seq(Lines) /\ ids \in Nat /\ DOMAIN handlers \subseteq Nat
    BY TypeFacts
  <2>4. \A i \in 1 .. Len(queue') :
            \/ i \in 1 .. Len(queue) /\ queue'[i] = queue[i]
            \/ i = Len(queue) + 1 /\ queue'[i] = request
    BY <2>2, <2>3, Appended
  <2> HIDE DEF request
  <2>5. \A i \in 1 .. Len(queue) : queue[i].id \in Nat
    <3>1. \A i \in 1 .. Len(queue) : queue[i] \in Lines
      BY <2>3
    <3> QED
      BY <3>1 DEF Lines
  <2>6. ids' # NoId /\ ids' \notin DOMAIN handlers /\ \A i \in 1 .. Len(queue) : queue[i].id # ids'
    BY <1>0, <2>1, <2>3, <2>5 DEF NoId
  <2>7. \A i \in 1 .. Len(queue) : queue[i].id <= ids'
    BY <1>0, <2>1, <2>3, <2>5
  <2>8. \A h \in DOMAIN handlers : h <= ids'
    BY <1>0, <2>1, <2>3
  <2>9. \A i \in 1 .. Len(queue') :
            /\ queue'[i].id <= ids'
            /\ queue'[i].id \notin DOMAIN handlers
            /\ queue'[i].id = NoId => queue'[i] = Quit
            /\ queue'[i].id # NoId => queue'[i].fn \in Asked
    <3>1. ids' <= ids'
      BY <2>1, <2>3
    <3> QED
      BY <1>0, <2>2, <2>4, <2>6, <2>7, <3>1
  <2>10. \A i, j \in 1 .. Len(queue') : queue'[i].id = queue'[j].id /\ queue'[i].id # NoId => i = j
    BY <1>0, <2>2, <2>4, <2>6
  <2>11. handlers' = handlers
    BY <2>1
  <2> QED
    BY <2>8, <2>9, <2>10, <2>11 DEF IdsFresh
<1>5. CASE Serve
  <2> DEFINE h == Head(queue).id
  <2>1. queue \in Seq(Lines) /\ queue # <<>> /\ queue' = Tail(queue) /\ ids' = ids
    BY <1>5, ServeFacts
  <2>2. \A i \in 1 .. Len(queue') : queue'[i] = queue[i + 1] /\ i + 1 \in 1 .. Len(queue) /\ i # 0
    <3>1. Len(queue') = Len(queue) - 1 /\ Len(queue) \in Nat /\ \A i \in 1 .. Len(queue') : queue'[i] = queue[i + 1]
      BY <2>1, Lengths
    <3> QED
      BY <3>1
  <2>3. \/ handlers' = handlers
        \/ /\ h # NoId /\ h = queue[1].id /\ h <= ids
           /\ DOMAIN handlers' = DOMAIN handlers \cup {h}
    BY <1>5, ServeFacts
  <2> HIDE DEF h
  <2>4. 1 \in 1 .. Len(queue)
    BY <2>1, Lengths
  <2>5. \A i \in 1 .. Len(queue') : queue'[i].id \notin DOMAIN handlers'
    <3> SUFFICES ASSUME NEW i \in 1 .. Len(queue')
                 PROVE  queue'[i].id \notin DOMAIN handlers'
      OBVIOUS
    <3>1. queue'[i] = queue[i + 1] /\ i + 1 \in 1 .. Len(queue) /\ i + 1 # 1
      BY <2>2
    <3>2. queue[i + 1].id \notin DOMAIN handlers
      BY <1>0, <3>1
    <3>3. queue[1].id # NoId => queue[i + 1].id # queue[1].id
      BY <1>0, <2>4, <3>1
    <3> QED
      BY <2>3, <3>1, <3>2, <3>3
  <2>6. \A i \in 1 .. Len(queue') :
            /\ queue'[i].id <= ids
            /\ queue'[i].id = NoId => queue'[i] = Quit
            /\ queue'[i].id # NoId => queue'[i].fn \in Asked
    BY <1>0, <2>2
  <2>7. \A i, j \in 1 .. Len(queue') : queue'[i].id = queue'[j].id /\ queue'[i].id # NoId => i = j
    <3> SUFFICES ASSUME NEW i \in 1 .. Len(queue'), NEW j \in 1 .. Len(queue'),
                        queue'[i].id = queue'[j].id, queue'[i].id # NoId
                 PROVE  i = j
      OBVIOUS
    <3>1. i + 1 = j + 1
      BY <1>0, <2>2
    <3> QED
      BY <3>1
  <2>8. \A i \in DOMAIN handlers' : i <= ids
    BY <1>0, <2>3
  <2> QED
    BY <2>1, <2>5, <2>6, <2>7, <2>8 DEF IdsFresh
<1> QED
  BY <1>1, <1>2, <1>3, <1>4, <1>5, KunaStepCases

\* What each part of the invariant says of a call, in one place.
LEMMA CallFacts ==
    ASSUME KunaInv, NEW c \in Callers
    PROVE  /\ call[c].id \in Nat /\ call[c].id <= ids
           /\ \A i \in 1 .. Len(queue) :
                  queue[i].id = call[c].id /\ call[c].id # NoId => queue[i].fn = call[c].fn
           /\ call[c].id \in DOMAIN handlers => handlers[call[c].id] = call[c].fn
           /\ ~outlived => call[c].got \in {call[c].fn, NoFunction}
<1>1. call[c].id \in Nat
  BY TypeFacts DEF Calls
<1>2. CallsAgree /\ OwnAnswer
  BY DEF KunaInv
<1> QED
  BY <1>1, <1>2 DEF CallsAgree, OwnAnswer

\* What is on its way stays what was asked for, as long as nothing is added.
LEMMA AgreeConsumed ==
    ASSUME KunaInv, ids' = ids, Kept(call, call'),
           \A i \in 1 .. Len(queue') :
               (\E j \in 1 .. Len(queue) : queue'[i] = queue[j]) \/ queue'[i].id = NoId,
           \A h \in DOMAIN handlers' : h \in DOMAIN handlers /\ handlers'[h] = handlers[h]
    PROVE  CallsAgree'
<1> SUFFICES ASSUME NEW c \in Callers
             PROVE  /\ call'[c].id <= ids'
                    /\ \A i \in 1 .. Len(queue') :
                           queue'[i].id = call'[c].id /\ call'[c].id # NoId => queue'[i].fn = call'[c].fn
                    /\ call'[c].id \in DOMAIN handlers' => handlers'[call'[c].id] = call'[c].fn
  BY DEF CallsAgree
<1>1. call'[c].id = call[c].id /\ call'[c].fn = call[c].fn
  BY DEF Kept
<1> QED
  BY <1>1, CallFacts

\* Whoever answers a call was started for what it asks for.
LEMMA CallsAgreeKept ==
    ASSUME KunaInv, KunaNext
    PROVE  CallsAgree'
<1>0. Kept(call, call)
  BY TypeFacts DEF Kept
<1>1. CASE AnswersKept \/ RunReturns
  <2>1. PICK f \in Shown, id \in DOMAIN handlers : Ended(id, f)
    BY <1>1 DEF AnswersKept, RunReturns, Ended
  <2>2. ids' = ids /\ queue' = queue /\ (call' = call \/ call' = Answered(id, f))
    BY <2>1 DEF Ended
  <2>3. Kept(call, call')
    BY <1>0, <2>2, AnsweredFacts
  <2>4. \A h \in DOMAIN handlers' : h \in DOMAIN handlers /\ handlers'[h] = handlers[h]
    BY <2>1, KunaEndedFacts
  <2> QED
    BY <2>2, <2>3, <2>4, AgreeConsumed
<1>2. CASE Misses \/ KunaStarts \/ KunaMoves
  BY <1>0, <1>2, SteadyFacts, AgreeConsumed
<1>3. CASE Quitting
  <2>1. ids' = ids /\ handlers' = handlers
    BY <1>3 DEF Quitting
  <2>2. Kept(call, call')
    BY <1>3, GivenUpFacts DEF Quitting
  <2>3. queue' = queue \/ queue' = <<>> \/ queue' = Append(queue, Quit)
    BY <1>3 DEF Quitting
  <2>4. queue \in Seq(Lines) /\ Quit \in Lines /\ Quit.id = NoId
    BY TypeFacts DEF Quit
  <2> HIDE DEF Quit
  <2>5. \A i \in 1 .. Len(queue') :
            (\E j \in 1 .. Len(queue) : queue'[i] = queue[j]) \/ queue'[i].id = NoId
    <3>1. CASE queue' = queue \/ queue' = <<>>
      BY <3>1, EmptyFacts
    <3>2. CASE queue' = Append(queue, Quit)
      BY <2>4, <3>2, Appended
    <3> QED
      BY <2>3, <3>1, <3>2
  <2> QED
    BY <2>1, <2>2, <2>5, AgreeConsumed
<1>4. CASE Asking
  <2>1. PICK c \in Callers, f \in Asked :
            LET request == [id |-> ids', fn |-> f]
            IN  /\ ids' = ids + 1
                /\ queue' = Append(queue, request) /\ request \in Lines
                /\ call' \in [Callers -> Calls]
                /\ call'[c].id = ids' /\ call'[c].fn = f
                /\ \A o \in Callers \ {c} : call'[o] = call[o]
                /\ UNCHANGED handlers
    BY <1>4, AskingFacts
  <2> DEFINE request == [id |-> ids', fn |-> f]
  <2>2. queue' = Append(queue, request) /\ request \in Lines /\ request.id = ids' /\ request.fn = f
    BY <2>1
  <2>3. queue \in Seq(Lines) /\ ids \in Nat /\ DOMAIN handlers \subseteq Nat
    BY TypeFacts
  <2>4. \A i \in 1 .. Len(queue') :
            \/ i \in 1 .. Len(queue) /\ queue'[i] = queue[i]
            \/ i = Len(queue) + 1 /\ queue'[i] = request
    BY <2>2, <2>3, Appended
  <2> HIDE DEF request
  <2>5. \A i \in 1 .. Len(queue) : queue[i].id \in Nat /\ queue[i].id <= ids
    <3>1. \A i \in 1 .. Len(queue) : queue[i] \in Lines
      BY <2>3
    <3> QED
      BY <3>1 DEF Lines, KunaInv, IdsFresh
  <2>6. \A h \in DOMAIN handlers : h <= ids
    BY DEF KunaInv, IdsFresh
  <2>7. ASSUME NEW o \in Callers
        PROVE  /\ call'[o].id <= ids'
               /\ \A i \in 1 .. Len(queue') :
                      queue'[i].id = call'[o].id /\ call'[o].id # NoId => queue'[i].fn = call'[o].fn
               /\ call'[o].id \in DOMAIN handlers => handlers[call'[o].id] = call'[o].fn
    <3>1. CASE o = c
      <4>1. call'[o].id = ids' /\ call'[o].fn = f
        BY <2>1, <3>1
      <4>2. \A i \in 1 .. Len(queue) : queue[i].id # ids'
        BY <2>1, <2>3, <2>5
      <4>3. ids' \notin DOMAIN handlers /\ ids' <= ids'
        BY <2>1, <2>3, <2>6
      <4> QED
        BY <2>2, <2>4, <4>1, <4>2, <4>3
    <3>2. CASE o # c
      <4>1. call'[o] = call[o]
        BY <2>1, <3>2
      <4>2. call[o].id \in Nat /\ call[o].id <= ids
        BY CallFacts
      <4>3. call[o].id # ids' /\ call[o].id <= ids'
        BY <2>1, <2>3, <4>2
      <4> QED
        BY <2>2, <2>4, <4>1, <4>3, CallFacts
    <3> QED
      BY <3>1, <3>2
  <2>8. handlers' = handlers
    BY <2>1
  <2> QED
    BY <2>7, <2>8 DEF CallsAgree
<1>5. CASE Serve
  <2> DEFINE h == Head(queue).id
  <2>1. /\ queue \in Seq(Lines) /\ queue # <<>> /\ queue' = Tail(queue)
        /\ ids' = ids /\ call' = call
    BY <1>5, ServeFacts
  <2>2. \A i \in 1 .. Len(queue') : queue'[i] = queue[i + 1] /\ i + 1 \in 1 .. Len(queue)
    <3>1. Len(queue') = Len(queue) - 1 /\ Len(queue) \in Nat /\ \A i \in 1 .. Len(queue') : queue'[i] = queue[i + 1]
      BY <2>1, Lengths
    <3> QED
      BY <3>1
  <2>3. 1 \in 1 .. Len(queue)
    BY <2>1, Lengths
  <2>4. CASE handlers' = handlers
    BY <1>0, <2>1, <2>2, <2>4, AgreeConsumed
  <2>5. CASE handlers' # handlers
    <3>1. /\ h # NoId /\ h = queue[1].id /\ Head(queue).fn = queue[1].fn
          /\ DOMAIN handlers' = DOMAIN handlers \cup {h}
          /\ handlers'[h] = Head(queue).fn
          /\ \A i \in DOMAIN handlers : handlers'[i] = handlers[i]
      BY <1>5, <2>5, ServeFacts
    <3> HIDE DEF h
    <3>2. ASSUME NEW c \in Callers
          PROVE  /\ call[c].id <= ids
                 /\ \A i \in 1 .. Len(queue') :
                        queue'[i].id = call[c].id /\ call[c].id # NoId => queue'[i].fn = call[c].fn
                 /\ call[c].id \in DOMAIN handlers' => handlers'[call[c].id] = call[c].fn
      <4>1. CASE call[c].id = h
        BY <2>2, <2>3, <3>1, <4>1, CallFacts
      <4>2. CASE call[c].id # h
        BY <2>2, <3>1, <4>2, CallFacts
      <4> QED
        BY <4>1, <4>2
    <3> QED
      BY <2>1, <3>2 DEF CallsAgree
  <2> QED
    BY <2>4, <2>5
<1> QED
  BY <1>1, <1>2, <1>3, <1>4, <1>5, KunaStepCases

\* Whoever runs has the connection for itself.
LEMMA PrivateKept ==
    ASSUME KunaInv, KunaNext
    PROVE  Private'
<1>0. ~outlived => OneAtMost(link) /\ IF running = NoId THEN KunaQuiet(link) ELSE About(link, handlers[running])
  BY DEF KunaInv, Private
<1>00. running # NoId => running \in DOMAIN handlers
  BY DEF KunaInv, Decompiling
<1>1. CASE AnswersKept
  <2>1. PICK id \in DOMAIN handlers, f \in Shown :
            Ended(id, f) /\ id # running /\ UNCHANGED <<running, link, outlived>>
    BY <1>1 DEF AnswersKept
  <2>2. DOMAIN handlers' = DOMAIN handlers \ {id} /\ \A h \in DOMAIN handlers' : handlers'[h] = handlers[h]
    BY <2>1, KunaEndedFacts
  <2>3. running # NoId => handlers'[running] = handlers[running]
    BY <1>00, <2>1, <2>2
  <2> QED
    BY <1>0, <2>1, <2>3 DEF Private
<1>2. CASE RunReturns
  <2>1. running' = NoId /\ link' \in Links /\ (~outlived' => KunaQuiet(link'))
    BY <1>2 DEF RunReturns
  <2> QED
    BY <2>1, QuietFacts DEF Private
<1>3. CASE Misses
  <2>1. link' = link /\ running' = running
    BY <1>3 DEF Misses
  <2> QED
    BY <1>0, <1>3, <2>1, SteadyFacts DEF Private
<1>4. CASE KunaStarts
  <2>1. PICK id \in wanting :
            running' = id /\ (~outlived => OneAtMost(link') /\ About(link', handlers[id]))
    BY <1>4 DEF KunaStarts
  <2>2. id # NoId
    BY HandlerFacts DEF KunaInv, Decompiling
  <2> QED
    BY <1>4, <2>1, <2>2, SteadyFacts DEF Private
<1>5. CASE KunaMoves
  <2>1. ~outlived => /\ OneAtMost(link')
                     /\ IF running = NoId THEN KunaQuiet(link') ELSE About(link', handlers[running])
    BY <1>5 DEF KunaMoves
  <2> QED
    BY <1>5, <2>1, SteadyFacts DEF Private
<1>6. CASE Quitting
  <2>1. UNCHANGED <<handlers, running, link, outlived>>
    BY <1>6 DEF Quitting
  <2> QED
    BY <1>0, <2>1 DEF Private
<1>7. CASE Asking
  <2>1. UNCHANGED <<handlers, running, link, outlived>>
    BY <1>7, AskingFacts
  <2> QED
    BY <1>0, <2>1 DEF Private
<1>8. CASE Serve
  <2>1. UNCHANGED <<running, link, outlived>>
    BY <1>8, ServeFacts
  <2>2. running # NoId => handlers'[running] = handlers[running]
    BY <1>00, <1>8, ServeFacts
  <2> QED
    BY <1>0, <2>1, <2>2 DEF Private
<1> QED
  BY <1>1, <1>2, <1>3, <1>4, <1>5, <1>6, <1>7, <1>8, KunaStepCases

\* What is kept stays what was kept for its function.
LEMMA CacheKept ==
    ASSUME KunaInv, KunaNext
    PROVE  ~outlived' => ~outlived /\ \A f \in Functions : cache'[f] \in {f, NoFunction}
<1>0. ~outlived => \A f \in Functions : cache[f] \in {f, NoFunction}
  BY DEF KunaInv, OwnAnswer
<1>1. CASE AnswersKept
  <2>1. cache' = cache /\ outlived' = outlived
    BY <1>1 DEF AnswersKept
  <2> QED
    BY <1>0, <2>1
<1>2. CASE RunReturns
  <2>1. PICK f \in Shown :
            /\ cache' = cache \/ cache' = [cache EXCEPT ![handlers[running]] = f]
            /\ ~outlived' => ~outlived /\ f \in {handlers[running], NoFunction}
    BY <1>2 DEF RunReturns
  <2>2. cache \in [Functions -> Shown]
    BY TypeFacts
  <2> QED
    BY <1>0, <2>1, <2>2
<1>3. CASE Misses \/ KunaStarts \/ KunaMoves
  BY <1>0, <1>3, SteadyFacts
<1>4. CASE Quitting
  <2>1. cache' = cache /\ outlived' = outlived
    BY <1>4 DEF Quitting
  <2> QED
    BY <1>0, <2>1
<1>5. CASE Asking
  <2>1. cache' = cache /\ outlived' = outlived
    BY <1>5, AskingFacts
  <2> QED
    BY <1>0, <2>1
<1>6. CASE Serve
  <2>1. cache' = cache /\ outlived' = outlived
    BY <1>6, ServeFacts
  <2> QED
    BY <1>0, <2>1
<1> QED
  BY <1>1, <1>2, <1>3, <1>4, <1>5, <1>6, KunaStepCases

\* A goroutine's caller gets what it asked for, if the goroutine has that.
LEMMA CallerGets ==
    ASSUME KunaInv, NEW id, NEW f \in Shown, Ended(id, f),
           ~outlived, f \in {handlers[id], NoFunction}
    PROVE  \A c \in Callers : call'[c].got \in {call'[c].fn, NoFunction}
<1>1. id \in DOMAIN handlers /\ (call' = call \/ call' = Answered(id, f))
  BY DEF Ended
<1>2. CASE call' = call
  BY <1>2, CallFacts
<1>3. CASE call' = Answered(id, f)
  <2> SUFFICES ASSUME NEW c \in Callers PROVE call'[c].got \in {call'[c].fn, NoFunction}
    OBVIOUS
  <2>1. call'[c].fn = call[c].fn
    BY <1>3, AnsweredFacts DEF Kept
  <2>2. CASE call'[c].got = call[c].got
    BY <2>1, <2>2, CallFacts
  <2>3. CASE call[c].id = id /\ call'[c].got = f
    BY <1>1, <2>1, <2>3, CallFacts
  <2> QED
    BY <1>3, <2>2, <2>3, AnsweredFacts
<1> QED
  BY <1>1, <1>2, <1>3

\* Every call gets what it asked for, or nothing.
LEMMA GotKept ==
    ASSUME KunaInv, KunaNext, ~outlived'
    PROVE  \A c \in Callers : call'[c].got \in {call'[c].fn, NoFunction}
<1>0. ~outlived
  BY CacheKept
<1>1. CASE AnswersKept
  <2>1. PICK id \in DOMAIN handlers, f \in Shown :
            Ended(id, f) /\ (~outlived => f \in {handlers[id], NoFunction})
    BY <1>1 DEF AnswersKept
  <2> QED
    BY <1>0, <2>1, CallerGets
<1>2. CASE RunReturns
  <2>1. PICK f \in Shown :
            Ended(running, f) /\ (~outlived' => f \in {handlers[running], NoFunction})
    BY <1>2 DEF RunReturns
  <2> QED
    BY <1>0, <2>1, CallerGets
<1>3. CASE Misses \/ KunaStarts \/ KunaMoves
  BY <1>0, <1>3, SteadyFacts, CallFacts
<1>4. CASE Quitting
  <2>1. Kept(call, call') /\ \A c \in Callers : call'[c].got = call[c].got
    BY <1>4, GivenUpFacts DEF Quitting
  <2> QED
    BY <1>0, <2>1, CallFacts DEF Kept
<1>5. CASE Asking
  <2>1. PICK c \in Callers :
            call'[c].got = NoFunction /\ \A o \in Callers \ {c} : call'[o] = call[o]
    BY <1>5, AskingFacts
  <2> QED
    BY <1>0, <2>1, CallFacts
<1>6. CASE Serve
  <2>1. call' = call
    BY <1>6, ServeFacts
  <2> QED
    BY <1>0, <2>1, CallFacts
<1> QED
  BY <1>1, <1>2, <1>3, <1>4, <1>5, <1>6, KunaStepCases

-----------------------------------------------------------------------------

\* It holds at first: nothing was asked, and the connection is quiet.
LEMMA KunaInitially == KunaInit => KunaInv
<1> SUFFICES ASSUME KunaInit PROVE KunaInv
  OBVIOUS
<1> DEFINE none == [id |-> NoId, fn |-> NoFunction, got |-> NoFunction, waits |-> FALSE]
<1>1. call = [c \in Callers |-> none] /\ ids = 0 /\ queue = <<>> /\ handlers = <<>> /\ wanting = {}
      /\ cache = [f \in Functions |-> NoFunction] /\ running = NoId /\ outlived = FALSE
  BY DEF KunaInit
<1>2. none \in Calls /\ none.id = NoId /\ none.fn = NoFunction /\ none.got = NoFunction
  BY DEF Calls, Shown, NoId
<1>3. \A c \in Callers : call[c] = none
  BY <1>1
<1>4. DOMAIN handlers = {}
  BY <1>1
<1>5. handlers \in [DOMAIN handlers -> Asked]
  BY <1>1, <1>4
<1>6. link \in Links /\ KunaQuiet(link)
  <2>1. link = [NoLink EXCEPT !.state = "up"]
    BY DEF KunaInit
  <2>2. link = [state |-> "up", owed |-> <<>>, replies |-> <<>>]
    BY <2>1 DEF NoLink
  <2>3. link.owed = <<>> /\ link.replies = <<>>
    BY <2>2
  <2> QED
    BY <2>2, <2>3, EmptyFacts, LinkMade, StateFacts DEF KunaQuiet
<1> HIDE DEF none
<1>7. KunaTypes
  <2>1. call \in [Callers -> Calls] /\ ids \in Nat /\ queue \in Seq(Lines) /\ running \in Nat
    BY <1>1, <1>2, EmptyFacts DEF NoId
  <2>2. cache \in [Functions -> Shown]
    BY <1>1 DEF Shown
  <2> QED
    BY <1>1, <1>4, <1>5, <1>6, <2>1, <2>2 DEF KunaTypes
<1>8. Decompiling
  BY <1>1 DEF Decompiling
<1>9. IdsFresh
  BY <1>1, <1>4, EmptyFacts DEF IdsFresh
<1>10. CallsAgree
  <2>1. Len(queue) = 0 /\ NoId <= ids
    BY <1>1, EmptyFacts DEF NoId
  <2>2. \A c \in Callers : call[c].id = NoId
    BY <1>2, <1>3
  <2> QED
    BY <1>4, <2>1, <2>2 DEF CallsAgree
<1>11. Private
  BY <1>1, <1>6, QuietFacts DEF Private
<1>12. OwnAnswer
  BY <1>1, <1>2, <1>3 DEF OwnAnswer
<1> QED
  BY <1>7, <1>8, <1>9, <1>10, <1>11, <1>12 DEF KunaInv

\* Every step keeps it.
LEMMA KunaStep == KunaInv /\ [KunaNext]_kunaVars => KunaInv'
<1> SUFFICES ASSUME KunaInv, [KunaNext]_kunaVars PROVE KunaInv'
  OBVIOUS
<1>1. CASE KunaNext
  <2>1. OwnAnswer'
    BY <1>1, CacheKept, GotKept DEF OwnAnswer
  <2> QED
    BY <1>1, <2>1, KunaTypesKept, DecompilingKept, IdsFreshKept, CallsAgreeKept, PrivateKept DEF KunaInv
<1>2. CASE UNCHANGED kunaVars
  <2>1. UNCHANGED <<call, ids, queue, handlers, wanting, cache, running, link, outlived>>
    BY <1>2 DEF kunaVars, client, server, engine, page
  <2> QED
    BY <2>1 DEF KunaInv, KunaTypes, Decompiling, IdsFresh, CallsAgree, Private, OwnAnswer
<1> QED
  BY <1>1, <1>2

\* Ids are fresh, answers agree with what was asked, and the connection is the
\* running request's, always (client.go: call, readLoop; kuna.go: Run, connect).
THEOREM KunaInvHolds == KunaSpec => []KunaInv
<1>1. KunaInit => KunaInv
  BY KunaInitially
<1>2. KunaInv /\ [KunaNext]_kunaVars => KunaInv'
  BY KunaStep
<1> QED
  BY <1>1, <1>2, PTL DEF KunaSpec

\* Nobody is shown, and the cache never keeps, another function's code, unless a
\* repeated request has outlived its deadline (kuna.go: Run; decompile).
THEOREM OwnAnswerHolds == KunaSpec => []OwnAnswer
<1>1. KunaInv => OwnAnswer
  BY DEF KunaInv
<1> QED
  BY <1>1, KunaInvHolds, PTL
=============================================================================
