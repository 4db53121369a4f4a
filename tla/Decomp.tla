-------------------------------- MODULE Decomp --------------------------------
(***************************************************************************)
(* The life of the decompiler in internal/debugger/decomp.go and           *)
(* decompprogram.go: a record behind a mutex, changed by the session actor *)
(* (which starts a decompiler on the first look, switches and closes it),  *)
(* by the goroutine of each start, which may take minutes, and by a        *)
(* watcher for each client that came up.  An actor handler is a sequence   *)
(* of steps, cut where the code releases the mutex or waits.               *)
(*                                                                         *)
(* A decompiler is a resident Ghidra, a sidecar (a decompilation read from *)
(* a file) or a kuna; the last two describe one program only.  What a      *)
(* pane shows is the client its last decomp.status named.                  *)
(***************************************************************************)
EXTENDS Naturals, Sequences

CONSTANTS
    Programs,     \* executables gdb may have
    NoProgram,
    Own,          \* the program of -ghidra-project or of -decomp-binary
    HasSidecar,   \* programs findSidecar finds a file for
    Configs,      \* the command lines: DecompConfig
    MaxStarts,    \* bound: starts
    MaxLoads      \* bound: decomp.loads, before the last look

ASSUME ProgramsAssumption ==
    /\ NoProgram \notin Programs
    /\ Own \notin Programs
    /\ HasSidecar \subseteq Programs

ConfigTypes ==
    [ghidra : BOOLEAN, kuna : BOOLEAN, sidecars : BOOLEAN, project : BOOLEAN, binary : BOOLEAN]

ASSUME ConfigsAssumption == Configs \subseteq ConfigTypes

ASSUME BoundsAssumption == MaxStarts \in Nat /\ MaxLoads \in Nat

VARIABLES
    cfg,       \* Session.cfg.Decomp
    d,         \* Session.decomp
    clients,   \* the clients ever started, each with its goroutine and its process
    loaded,    \* state.exePath: what gdb-wui loaded
    target,    \* what gdb has when gdb-wui loaded nothing
    learned,   \* decomp.gdbExe and the file read for it
    actor,     \* where the actor is in a handler
    pane,      \* the client the browser was last told of
    news       \* a decompChanged event on its way to the browser

vars == <<cfg, d, clients, loaded, target, learned, actor, pane, news>>

NoClient == 0
Ids == DOMAIN clients

Init ==
    /\ cfg \in Configs
    /\ d = [state |-> "", client |-> NoClient, starting |-> FALSE, writable |-> FALSE,
            closed |-> FALSE, sidecar |-> FALSE, miss |-> FALSE, using |-> "",
            prefer |-> "", loads |-> 0, anchor |-> NoClient]
    /\ clients = <<>>
    /\ loaded = NoProgram
    /\ target = NoProgram
    /\ learned = [exe |-> NoProgram, file |-> NoProgram]
    /\ actor = [at |-> "idle", why |-> "", closing |-> NoClient, held |-> NoClient]
    /\ pane = NoClient
    /\ news = FALSE

-----------------------------------------------------------------------------
(* What the actor decides by.                                              *)

\* decompProgram: the file the decompiler should describe.
Program == IF loaded # NoProgram THEN loaded ELSE learned.file

PerProgram == ~cfg.project /\ ~cfg.binary

\* decompilers: what decomp.use can choose between.
Offered ==
    IF cfg.kuna /\ PerProgram /\ (cfg.ghidra \/ (cfg.sidecars /\ Program \in HasSidecar))
    THEN {"ghidra", "kuna"}
    ELSE {}

\* Nothing to start: one is running, starting or has failed.
Busy == d.closed \/ d.starting \/ d.state \in {"ready", "failed"}

\* Mutant: the anchor of the old client is kept.
ResetKeepsAnchor(r) ==
    [r EXCEPT !.client = NoClient, !.state = "", !.sidecar = FALSE, !.miss = FALSE,
              !.using = ""]

\* Back to not started, which decompUse and switchSidecar do.
Reset(r) ==
    [r EXCEPT !.client = NoClient, !.state = "", !.sidecar = FALSE, !.miss = FALSE,
              !.using = "", !.anchor = NoClient]

\* switchSidecar starts over, unless a start is in flight or a Ghidra is kept.
Switches == ~d.starting /\ (d.sidecar \/ d.miss)

\* Mutant: a load during a start is not counted.
SwitchSidecarUncounted ==
    IF Switches THEN Reset([d EXCEPT !.loads = @ + 1]) ELSE d

SwitchSidecar ==
    LET r == [d EXCEPT !.loads = @ + 1]
    IN  IF Switches THEN Reset(r) ELSE r

\* The client a handler lets go of and closes before it goes on.
LetGo == IF Switches THEN d.client ELSE NoClient

-----------------------------------------------------------------------------
(* The actor.                                                              *)

At(step) == actor.at = step /\ actor.closing = NoClient
Idle == [at |-> "idle", why |-> "", closing |-> NoClient, held |-> NoClient]

\* The bound on starts: a request may start two.
Room == Len(clients) + 2 <= MaxStarts

\* Client.Close, which returns when the process has gone.
CloseClient ==
    /\ actor.closing # NoClient
    /\ clients' = [clients EXCEPT ![actor.closing].alive = FALSE]
    /\ actor' = [actor EXCEPT !.closing = NoClient]
    /\ UNCHANGED <<cfg, d, loaded, target, learned, pane, news>>

\* exeLoad, as far as it concerns the decompiler.
Load(p) ==
    /\ At("idle")
    /\ d.loads < MaxLoads
    /\ loaded' = p
    /\ d' = SwitchSidecar
    /\ actor' = [Idle EXCEPT !.closing = LetGo]
    /\ news' = (news \/ Switches)
    /\ UNCHANGED <<cfg, clients, target, learned, pane>>

\* The user attaches, connects to a target or types a file command (bound:
\* once between two looks).
ChangeTarget(p) ==
    /\ loaded = NoProgram
    /\ target = learned.exe
    /\ d.loads < MaxLoads
    /\ target' = p
    /\ UNCHANGED <<cfg, d, clients, loaded, learned, actor, pane, news>>

\* A request that starts a decompiler if there is none: decomp.status always,
\* decomp.function, decomp.names and the name index when there is no client.
Look(why) ==
    /\ At("idle")
    /\ Room
    /\ why = "names" => d.client = NoClient
    /\ actor' = [actor EXCEPT !.at = "learn", !.why = why]
    /\ news' = (news /\ why = "names")
    /\ UNCHANGED <<cfg, d, clients, loaded, target, learned, pane>>

\* learnGDBProgram: gdb is asked what it has, and the file may be unreadable.
\* Nothing changes when gdb's answer is the known one, or does not come.
LearnProgram ==
    /\ At("learn")
    /\ loaded = NoProgram
    /\ target # learned.exe
    /\ \E file \in {target, NoProgram} : learned' = [exe |-> target, file |-> file]
    /\ d' = SwitchSidecar
    /\ actor' = [actor EXCEPT !.at = "check", !.closing = LetGo]
    /\ news' = (news \/ Switches)
    /\ UNCHANGED <<cfg, clients, loaded, target, pane>>

LearnNothing ==
    /\ At("learn")
    /\ actor' = [actor EXCEPT !.at = "check"]
    /\ UNCHANGED <<cfg, d, clients, loaded, target, learned, pane, news>>

\* What follows maybeStartDecomp in the handler that called it.
Started ==
    CASE actor.why = "status" -> [actor EXCEPT !.at = "answer"]
      [] actor.why = "use" -> [actor EXCEPT !.at = "emit"]
      [] OTHER -> Idle

\* maybeStartDecomp, the first look under the lock.
CheckBusy ==
    /\ At("check")
    /\ actor' = IF Busy THEN Started ELSE [actor EXCEPT !.at = "start"]
    /\ UNCHANGED <<cfg, d, clients, loaded, target, learned, pane, news>>

\* maybeStartDecomp, which decompiler it comes down to.
Choice ==
    LET useKuna == cfg.kuna /\ PerProgram
        lookup == cfg.sidecars /\ PerProgram
    IN  IF useKuna /\ (d.prefer = "kuna" \/ (~cfg.ghidra /\ ~cfg.sidecars)) THEN "kuna"
        ELSE IF ~lookup THEN "ghidra"
        ELSE IF Program = NoProgram THEN "wait"
        ELSE IF Program \in HasSidecar THEN "sidecar"
        ELSE IF cfg.ghidra THEN "ghidra"
        ELSE IF useKuna THEN "kuna" ELSE "miss"

\* A client and the goroutine that starts it.
Client(kind, prog) ==
    [kind |-> kind, prog |-> prog, loads |-> d.loads, job |-> "starting", alive |-> FALSE]

Using(kind) == IF kind = "kuna" THEN "kuna" ELSE "ghidra"

Starting(kind, prog) ==
    /\ d' = [d EXCEPT !.starting = TRUE, !.state = "starting", !.using = Using(kind)]
    /\ clients' = Append(clients, Client(kind, prog))

\* startPerProgram, which does not look again whether one is starting.
StartPerProgram ==
    /\ At("start")
    /\ Choice \in {"sidecar", "kuna"}
    /\ Program # NoProgram
    /\ Starting(Choice, Program)
    /\ actor' = Started
    /\ UNCHANGED <<cfg, loaded, target, learned, pane, news>>

\* maybeStartDecomp, the start of a Ghidra, which takes CheckBusy's answer again
\* (it is the same: only the actor starts anything).
StartGhidra ==
    /\ At("start")
    /\ Choice = "ghidra"
    /\ PerProgram => Program # NoProgram
    /\ IF Busy
       THEN UNCHANGED <<d, clients>>
       ELSE Starting("ghidra", IF PerProgram THEN Program ELSE Own)
    /\ actor' = Started
    /\ UNCHANGED <<cfg, loaded, target, learned, pane, news>>

\* No sidecar, or a project of gdb-wui's own that cannot be: failed at once.
StartRefused ==
    /\ At("start")
    /\ \/ Choice = "miss"
       \/ Choice = "ghidra" /\ ~cfg.project /\ (PerProgram => Program # NoProgram)
    /\ d' = [d EXCEPT !.state = "failed", !.miss = (@ \/ Choice = "miss")]
    /\ actor' = Started
    /\ UNCHANGED <<cfg, clients, loaded, target, learned, pane, news>>

\* Nothing loaded yet to decompile, or nowhere to keep a project.
StartWaits ==
    /\ At("start")
    /\ \/ Choice = "wait"
       \/ Choice \in {"kuna", "ghidra"} /\ PerProgram /\ Program = NoProgram
       \/ Choice = "ghidra" /\ ~cfg.project
    /\ actor' = Started
    /\ UNCHANGED <<cfg, d, clients, loaded, target, learned, pane, news>>

\* decompStatus, the reply.
Answer ==
    /\ At("answer")
    /\ pane' = d.client
    /\ actor' = Idle
    /\ UNCHANGED <<cfg, d, clients, loaded, target, learned, news>>

\* decompUse for a decompiler that is not in use, with none starting.
Use(which) ==
    /\ At("idle")
    /\ Room
    /\ which \in Offered
    /\ d.using # which /\ ~d.starting
    /\ d' = [Reset(d) EXCEPT !.prefer = which, !.writable = FALSE]
    /\ actor' = [actor EXCEPT !.at = "learn", !.why = "use", !.closing = d.client]
    /\ UNCHANGED <<cfg, clients, loaded, target, learned, pane, news>>

\* decompUse otherwise: a start in flight is made stale.
UseLater(which) ==
    /\ At("idle")
    /\ d.loads < MaxLoads
    /\ which \in Offered
    /\ d.using = which \/ d.starting
    /\ d' = [d EXCEPT !.prefer = which, !.loads = IF d.starting THEN @ + 1 ELSE @]
    /\ UNCHANGED <<cfg, clients, loaded, target, learned, actor, pane, news>>

\* decompUse announces the change and answers with the status.
Emit ==
    /\ At("emit")
    /\ news' = TRUE
    /\ actor' = [actor EXCEPT !.at = "learn", !.why = "status"]
    /\ UNCHANGED <<cfg, d, clients, loaded, target, learned, pane>>

\* A request that needs the mapping of addresses takes the client (decompBias).
Borrow ==
    /\ At("idle")
    /\ d.client # NoClient
    /\ actor' = [actor EXCEPT !.at = "bias", !.held = d.client]
    /\ UNCHANGED <<cfg, d, clients, loaded, target, learned, pane, news>>

\* decompBias: the cached anchor still resolves, or is dropped.
KeepAnchor ==
    /\ At("bias")
    /\ d.anchor # NoClient
    /\ actor' = Idle
    /\ UNCHANGED <<cfg, d, clients, loaded, target, learned, pane, news>>

DropAnchor ==
    /\ At("bias")
    /\ d' = [d EXCEPT !.anchor = NoClient]
    /\ actor' = [actor EXCEPT !.at = "pick"]
    /\ UNCHANGED <<cfg, clients, loaded, target, learned, pane, news>>

\* decompBias, biasFromEntryPoint: one is picked from what the client holds,
\* if gdb knows it; the client may have died meanwhile.
PickAnchor ==
    /\ At("pick")
    /\ d' \in {d, [d EXCEPT !.anchor = actor.held]}
    /\ actor' = Idle
    /\ UNCHANGED <<cfg, clients, loaded, target, learned, pane, news>>

\* Mutant: the client is forgotten, not closed.
CloseSessionForgets ==
    /\ At("idle")
    /\ d' = [d EXCEPT !.client = NoClient, !.closed = TRUE, !.state = "off"]
    /\ actor' = [Idle EXCEPT !.at = "ended"]
    /\ UNCHANGED <<cfg, clients, loaded, target, learned, pane, news>>

\* Session.Close, after the actor has ended: closeDecomp.
CloseSession ==
    /\ At("idle")
    /\ d' = [d EXCEPT !.client = NoClient, !.closed = TRUE, !.state = "off"]
    /\ actor' = [Idle EXCEPT !.at = "ended", !.closing = d.client]
    /\ UNCHANGED <<cfg, clients, loaded, target, learned, pane, news>>

-----------------------------------------------------------------------------
(* The goroutines of the starts, and the watchers.                         *)

\* ghidra.Import, Start, StartExport or StartKuna returns.
StartReturns(c) ==
    /\ clients[c].job = "starting"
    /\ \/ clients' = [clients EXCEPT ![c].job = "came up", ![c].alive = TRUE]
       \/ clients' = [clients EXCEPT ![c].job = "failed"]
    /\ UNCHANGED <<cfg, d, loaded, target, learned, actor, pane, news>>

CameUp(c) == clients[c].job = "came up"
Landing(c) == clients[c].job \in {"came up", "failed"}

\* Something was loaded or chosen since the start began.
Stale(c) == d.loads # clients[c].loads

\* Mutant: an unwanted client is left running.
NotInUseLeaks(c) == [clients EXCEPT ![c].job = "done"]

\* A client goes into use, and is watched; anything else ends the goroutine,
\* after closing a client nobody wants.
InUse(c) == [clients EXCEPT ![c].job = "watch"]

NotInUse(c) == [clients EXCEPT ![c].job = IF CameUp(c) THEN "discard" ELSE "done"]

\* The end of startPerProgram: closed and stale before anything else.
LandPerProgram(c) ==
    /\ Landing(c)
    /\ clients[c].kind # "ghidra"
    /\ LET r == [d EXCEPT !.starting = FALSE]
       IN  \/ /\ d.closed
              /\ d' = [r EXCEPT !.state = "off"]
              /\ clients' = NotInUse(c)
              /\ news' = (news \/ (Stale(c) /\ ~CameUp(c)))
           \/ /\ ~d.closed /\ Stale(c)
              /\ d' = [r EXCEPT !.state = ""]
              /\ clients' = NotInUse(c)
              /\ news' = (news \/ ~CameUp(c))
           \/ /\ ~d.closed /\ ~Stale(c) /\ ~CameUp(c)
              /\ d' = [r EXCEPT !.state = "failed"]
              /\ clients' = NotInUse(c)
              /\ news' = TRUE
           \/ /\ ~d.closed /\ ~Stale(c) /\ CameUp(c)
              /\ d' = [r EXCEPT !.state = "ready", !.client = c, !.writable = FALSE,
                                !.sidecar = TRUE, !.using = Using(clients[c].kind)]
              /\ clients' = InUse(c)
              /\ news' = TRUE
    /\ UNCHANGED <<cfg, loaded, target, learned, actor, pane>>

\* The end of a Ghidra's start, which does not look at loads.
LandGhidra(c) ==
    /\ Landing(c)
    /\ clients[c].kind = "ghidra"
    /\ LET r == [d EXCEPT !.starting = FALSE]
       IN  \/ /\ ~CameUp(c)
              /\ d' = [r EXCEPT !.state = "failed"]
              /\ clients' = NotInUse(c)
              /\ news' = TRUE
           \/ /\ CameUp(c) /\ d.closed
              /\ d' = [r EXCEPT !.state = "off"]
              /\ clients' = NotInUse(c)
              /\ UNCHANGED news
           \/ /\ CameUp(c) /\ ~d.closed
              /\ d' = [r EXCEPT !.state = "ready", !.client = c,
                                !.writable = ~cfg.project, !.using = "ghidra"]
              /\ clients' = InUse(c)
              /\ news' = TRUE
    /\ UNCHANGED <<cfg, loaded, target, learned, actor, pane>>

\* The goroutine closes the client it could not put to use.
Discard(c) ==
    /\ clients[c].job = "discard"
    /\ clients' = [clients EXCEPT ![c].job = "done", ![c].alive = FALSE]
    /\ news' = (news \/ (clients[c].kind # "ghidra" /\ Stale(c)))
    /\ UNCHANGED <<cfg, d, loaded, target, learned, actor, pane>>

\* Mutants: the state stays ready; nobody is told.
WatchKeepsState(c) ==
    /\ clients[c].job = "watch" /\ ~clients[c].alive
    /\ clients' = [clients EXCEPT ![c].job = "done"]
    /\ d' = IF d.client = c THEN [d EXCEPT !.client = NoClient, !.anchor = NoClient] ELSE d
    /\ news' = TRUE
    /\ UNCHANGED <<cfg, loaded, target, learned, actor, pane>>

WatchSilently(c) ==
    /\ clients[c].job = "watch" /\ ~clients[c].alive
    /\ clients' = [clients EXCEPT ![c].job = "done"]
    /\ d' = IF d.client = c
            THEN [d EXCEPT !.client = NoClient, !.state = "failed", !.anchor = NoClient]
            ELSE d
    /\ UNCHANGED <<cfg, loaded, target, learned, actor, pane, news>>

\* watchDecomp: a client that was still in use has died by itself.
Watch(c) ==
    /\ clients[c].job = "watch" /\ ~clients[c].alive
    /\ clients' = [clients EXCEPT ![c].job = "done"]
    /\ d' = IF d.client = c
            THEN [d EXCEPT !.client = NoClient, !.state = "failed", !.anchor = NoClient]
            ELSE d
    /\ news' = TRUE
    /\ UNCHANGED <<cfg, loaded, target, learned, actor, pane>>

\* The JVM, or the connection to a kuna, goes away.
Dies(c) ==
    /\ clients[c].alive
    /\ clients' = [clients EXCEPT ![c].alive = FALSE]
    /\ UNCHANGED <<cfg, d, loaded, target, learned, actor, pane, news>>

-----------------------------------------------------------------------------
Request ==
    \/ \E p \in Programs : Load(p)
    \/ \E why \in {"status", "names"} : Look(why)
    \/ \E which \in {"ghidra", "kuna"} : Use(which) \/ UseLater(which)
    \/ Borrow
    \/ CloseSession

\* What the actor goes on to do by itself.
Handler ==
    \/ CloseClient
    \/ LearnProgram
    \/ LearnNothing
    \/ CheckBusy
    \/ StartPerProgram
    \/ StartGhidra
    \/ StartRefused
    \/ StartWaits
    \/ Answer
    \/ Emit
    \/ KeepAnchor
    \/ DropAnchor
    \/ PickAnchor

Goroutine(c) ==
    \/ StartReturns(c)
    \/ LandPerProgram(c)
    \/ LandGhidra(c)
    \/ Discard(c)
    \/ Watch(c)

Next ==
    \/ Request
    \/ Handler
    \/ \E p \in Programs \cup {NoProgram} : ChangeTarget(p)
    \/ \E c \in Ids : Goroutine(c) \/ Dies(c)

Spec == Init /\ [][Next]_vars

\* The actor and the goroutines run.  A start has a timeout; an import has none
\* but its process ends.  Nobody has to ask, and no decompiler has to die.
FairSpec ==
    /\ Spec
    /\ WF_vars(Handler)
    /\ \A c \in 1..MaxStarts : WF_vars(c \in Ids /\ Goroutine(c))

-----------------------------------------------------------------------------
(* Properties.                                                             *)

\* The record tells one story: "client is non-nil only in DecompReady", and a
\* start is in flight exactly when it says so, never two.  startPerProgram
\* relies on it: it sets starting without looking.
OneStory ==
    /\ (d.state = "ready") <=> (d.client # NoClient)
    /\ d.starting => \E c \in Ids : Landing(c) \/ clients[c].job = "starting"
    /\ \A c \in Ids : Landing(c) \/ clients[c].job = "starting" => d.starting /\ c = Len(clients)

\* A process that runs is in use, or somebody is about to put it to use or to
\* close it: no JVM is left behind by a switch, a load or a shutdown that
\* overtakes a start.
NoOrphan ==
    \A c \in Ids : clients[c].alive =>
        d.client = c \/ CameUp(c) \/ clients[c].job = "discard" \/ actor.closing = c

\* A sidecar or a kuna in use describes the program that is loaded, although
\* it came up minutes after it was asked for.
Describes ==
    d.client # NoClient /\ clients[d.client].kind # "ghidra" => clients[d.client].prog = Program

\* The cached anchor of the address mapping was picked from the client in use:
\* a request that held on to a dead client leaves nothing to its successor.
AnchorOfClient == d.client # NoClient => d.anchor \in {NoClient, d.client}

\* With nothing in progress and no event under way, the pane shows what is in
\* use: whatever starts, dies or is replaced is announced.
Quiet ==
    /\ At("idle") /\ ~news
    /\ \A c \in Ids : clients[c].job = "done" \/ (clients[c].job = "watch" /\ clients[c].alive)

PaneCurrent == Quiet => pane = d.client

\* After the session has closed every process ends, also one that was starting.
ProcessesEnd == d.closed ~> (\A c \in Ids : clients[c].job = "done" /\ ~clients[c].alive)
=============================================================================
