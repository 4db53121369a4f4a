------------------------------- MODULE Session -------------------------------
(***************************************************************************)
(* The session actor of internal/debugger (session.go, events.go,          *)
(* commands.go, deferredbp.go, the line walk of decomp.go): its mirror of  *)
(* the debugged program's run state, kept in step with gdb through a queue *)
(* of records that lags behind gdb, and shown to browsers through events.  *)
(*                                                                         *)
(* Handlers are written as operators from a world (mirror, gdb, landing    *)
(* pad, what the browsers were told) to the set of worlds they may leave   *)
(* behind, because a command sent to gdb may be answered, time out or find *)
(* gdb dead.  A handler runs alone on the actor; only the actor makes gdb  *)
(* start or resume the program, so what gdb does of its own accord between *)
(* two commands of a handler can as well happen before or after it; only   *)
(* what it does about a command of that handler that timed out cannot.     *)
(*                                                                         *)
(* How a command reaches gdb is MIClient's business.  What is used of it   *)
(* here: commands are executed in the order they were sent, also those     *)
(* nobody waits for any more, and no record is lost or reordered.          *)
(***************************************************************************)
EXTENDS Naturals, Sequences

CONSTANTS
    Clients,      \* senders of requests, each with one outstanding
    Tabs,         \* those that send the stopSeq they were last shown
    Files,        \* executables of the project
    NoFile,
    MaxWalk,      \* stepLineMax
    Settings      \* what the clients ask for and how often things go wrong

RequestKinds == {"load", "run", "runTo", "continue", "step", "stepLine",
                 "kill", "console", "restart"}

\* What is sent to gdb, besides "load this file": of the many queries only
\* that for the stack matters here.
Verbs == {"start", "continue", "step", "kill", "query", "cd"}

ASSUME RequestsAssumption ==
    /\ Tabs \subseteq Clients
    /\ NoFile \notin Files
    /\ Files \cap Verbs = {}
    /\ MaxWalk \in Nat \ {0}

\* clients: those that take part.  kinds: the requests made.  modes: what
\* startCommand may find, "none" for no deferred breakpoints, "resume" or "stop"
\* for a run that has them.  stops, runs, late, deaths: bounds on stops of the
\* program, processes gdb starts, commands that timed out and gdb has not
\* executed, and times gdb dies.
ASSUME SettingsAssumption ==
    Settings \subseteq [clients : SUBSET Clients, kinds : SUBSET RequestKinds,
                        modes : SUBSET {"none", "resume", "stop"},
                        stops : Nat, runs : Nat, late : Nat, deaths : Nat]

VARIABLES
    setting,     \* the one this behaviour has, for good
    st,          \* the actor's mirror (type state of session.go)
    gdb,         \* gdb and its process
    intake,      \* records gdb wrote that the actor has not handled
    shown,       \* what a browser that handles every event knows
    obituaries,  \* deaths of gdb watchGDB has not broadcast yet
    requests     \* each client's outstanding request

vars == <<setting, st, gdb, intake, shown, obituaries, requests>>

Kinds == setting.kinds
StartModes == setting.modes
MaxStops == setting.stops
MaxRuns == setting.runs
MaxLate == setting.late
MaxDeaths == setting.deaths

World == [st |-> st, gdb |-> gdb, intake |-> intake, shown |-> shown]

Become(w) ==
    /\ st' = w.st
    /\ gdb' = w.gdb
    /\ intake' = w.intake
    /\ shown' = w.shown

Commands == Files \cup Verbs

NoRequest == [kind |-> "none", got |-> 0, file |-> NoFile]

\* What a run of the program leaves behind is named by the number of that run:
\* exit code, signal and pid of run 2 are all 2, and 0 is Go's nil or "".  gdb
\* does not number its stops: number says which of them a record is about.

Record(kind, why, number, run, code, signal) ==
    [kind |-> kind, why |-> why, number |-> number,
     run |-> run, code |-> code, signal |-> signal]

RunningRecord == Record("running", "", 0, 0, 0, 0)
Started(run) == Record("started", "", 0, run, 0, 0)
GroupExited(code) == Record("groupExited", "", 0, 0, code, 0)
StopRecord(why, number) == Record("stopped", why, number, 0, 0, 0)
ExitRecord(number, code, signal) == Record("stopped", "exited", number, 0, code, signal)

-----------------------------------------------------------------------------
(* gdb.                                                                    *)

Alive(g) == g.process \in {"stepping", "running"}

\* A process that runs can still stop once within the bound.
CanResume(g) == g.process = "stopped" /\ g.stops < MaxStops

Done(g, records) == [ok |-> TRUE, gdb |-> g, records |-> records]
Refused(g) == [ok |-> FALSE, gdb |-> g, records |-> <<>>]

Resume(g, how) ==
    IF CanResume(g)
    THEN Done([g EXCEPT !.process = how], <<RunningRecord>>)
    ELSE Refused(g)

\* Starting a program over a stopped one ends that one first.
Start(g) ==
    IF /\ ~Alive(g)
       /\ g.file # NoFile
       /\ g.run < MaxRuns
       /\ g.stops < MaxStops
    THEN Done([g EXCEPT !.process = "running", !.run = @ + 1, !.begun = g.stops],
              (IF g.process = "stopped" THEN <<GroupExited(0)>> ELSE <<>>)
              \o <<Started(g.run + 1), RunningRecord>>)
    ELSE Refused(g)

\* `kill` and -file-exec-and-symbols: neither is accepted of a program that
\* runs, and with no program there is nothing to end.
End(g, file) ==
    IF Alive(g)
    THEN Refused(g)
    ELSE Done([g EXCEPT !.process = "none", !.file = file],
              IF g.process = "stopped" THEN <<GroupExited(0)>> ELSE <<>>)

Effect(g, cmd) ==
    CASE cmd = "continue" -> Resume(g, "running")
      [] cmd = "step"     -> Resume(g, "stepping")
      [] cmd = "start"    -> Start(g)
      [] cmd = "kill"     -> End(g, g.file)
      [] cmd = "query"    -> IF g.process = "stopped" THEN Done(g, <<>>)
                                                      ELSE Refused(g)
      [] cmd = "cd"       -> Done(g, <<>>)
      [] cmd \in Files    -> End(g, cmd)

\* gdb carries out a command and writes what it has to say about it.  A program
\* may be started while a stop of the one before is still on its way to the
\* actor.
Execute(w, cmd) ==
    LET e == Effect(w.gdb, cmd)
        overtakes == e.gdb.run # w.gdb.run /\ w.st.stopSeq # w.gdb.stops
    IN [ok |-> e.ok,
        w |-> [w EXCEPT !.gdb = [e.gdb EXCEPT !.overtaken = @ \/ overtakes],
                        !.intake = @ \o e.records]]

\* The program stops: at the end of a step, or because of something else.
Stop(w, why) ==
    [w EXCEPT !.gdb.process = "stopped",
              !.gdb.stops = @ + 1,
              !.intake = Append(@, StopRecord(why, w.gdb.stops + 1))]

\* The program ends: the code comes first by itself, then again with the stop.
\* A signal is told by the stop only.
Exit(w, signalled) ==
    LET number == w.gdb.stops + 1
        run == w.gdb.run
    IN [w EXCEPT !.gdb.process = "none",
                 !.gdb.stops = @ + 1,
                 !.intake = @ \o (IF signalled
                                  THEN <<GroupExited(0), ExitRecord(number, 0, run)>>
                                  ELSE <<GroupExited(run), ExitRecord(number, run, 0)>>)]

\* What a program may do while the actor is in the middle of a handler.
Meanwhile(w) ==
    {w} \cup
    (IF Alive(w.gdb)
     THEN {Stop(w, "event"), Exit(w, TRUE), Exit(w, FALSE)}
          \cup (IF w.gdb.process = "stepping" THEN {Stop(w, "step")} ELSE {})
     ELSE {})

\* Session.send.  An answer, also a refusal for reasons of gdb's own, means that
\* gdb is done with the earlier commands.  One that times out is still executed,
\* after its sender has given up: before the handler's next command, or later.
Answered(w, cmd) ==
    IF w.gdb.late = <<>> THEN {Execute(w, cmd), [ok |-> FALSE, w |-> w]} ELSE {}

TimedOut(w, cmd) ==
    IF Len(w.gdb.late) >= MaxLate
    THEN {}
    ELSE {[w EXCEPT !.gdb.late = Append(@, cmd)]}
         \cup (IF w.gdb.late = <<>> THEN Meanwhile(Execute(w, cmd).w) ELSE {})

Send(w, cmd) ==
    IF w.gdb.up
    THEN Answered(w, cmd) \cup {[ok |-> FALSE, w |-> v] : v \in TimedOut(w, cmd)}
    ELSE {[ok |-> FALSE, w |-> w]}

\* The handler goes on with After if the command succeeded.
SendThen(w, cmd, After(_)) ==
    UNION {IF r.ok THEN After(r.w) ELSE {r.w} : r \in Send(w, cmd)}

-----------------------------------------------------------------------------
(* The mirror's transitions (events.go).                                   *)

SetRunningSilently(w) ==
    [w EXCEPT !.st.runState = "running", !.st.frames = 0]

SetRunning(w) ==
    IF w.st.runState = "running"
    THEN w
    ELSE [w EXCEPT !.st.runState = "running",
                   !.st.frames = 0,
                   !.shown.runState = "running"]

\* Merges the two reports of one exit; says so only if there is news.
SetExited(w, code, signal) ==
    LET newCode == IF code = 0 THEN w.st.exitCode ELSE code
        newSignal == IF signal = 0 THEN w.st.exitSignal ELSE signal
        learned == \/ newCode # 0 /\ w.st.exitCode = 0
                   \/ newSignal # 0 /\ w.st.exitSignal = 0
        merged == [w EXCEPT !.st.pid = 0,
                            !.st.exitCode = newCode,
                            !.st.exitSignal = newSignal]
    IN IF w.st.runState = "exited" /\ ~learned
       THEN merged
       ELSE [merged EXCEPT !.st.runState = "exited",
                           !.st.frames = 0,
                           !.shown.runState = "exited",
                           !.shown.code = newCode,
                           !.shown.signal = newSignal]

FinishDeferredStartBlindly(w) ==
    LET cleared == [w EXCEPT !.st.deferred = "none"]
    IN IF w.st.deferred # "resume"
       THEN [handled |-> {}, open |-> {cleared}]
       ELSE [handled |-> {[r.w EXCEPT !.st.runState = "running"] :
                              r \in Send(cleared, "continue")},
             open |-> {}]

\* Place the deferred breakpoints and carry on unless the stop was wanted:
\* the worlds in which the stop has been dealt with, and those in which not.
FinishDeferredStart(w) ==
    LET cleared == [w EXCEPT !.st.deferred = "none"]
    IN IF w.st.deferred # "resume"
       THEN [handled |-> {}, open |-> {cleared}]
       ELSE LET sent == Send(cleared, "continue")
            IN [handled |-> {[r.w EXCEPT !.st.runState = "running"] :
                                 r \in {s \in sent : s.ok}},
                open |-> {r.w : r \in {s \in sent : ~s.ok}}]

\* A stack that cannot be read leaves the mirror as it was.
FetchFrames(w) ==
    {IF r.ok THEN [r.w EXCEPT !.st.frames = r.w.gdb.stops] ELSE r.w :
        r \in Send(w, "query")}

EmitStopped(w) ==
    [w EXCEPT !.shown.runState = w.st.runState, !.shown.stopSeq = w.st.stopSeq]

EndWalk(w) == [w EXCEPT !.st.stepping = 0]

InstructionStep(w) ==
    {IF r.ok THEN [r.w EXCEPT !.st.runState = "running"] ELSE EndWalk(r.w) :
        r \in Send(w, "step")}

\* Whether the pc is still on the line the walk began on is the program's
\* choice; the count of steps is not.
AdvanceThroughBreakpoints(w, why) ==
    LET next == [w EXCEPT !.st.stepping = @ - 1]
        sent == Send(next, "step")
    IN IF w.st.stepping <= 1
       THEN [walks |-> {}, ends |-> {EndWalk(w)}]
       ELSE [walks |-> {r.w : r \in {s \in sent : s.ok}},
             ends |-> {EndWalk(w)} \cup {EndWalk(r.w) : r \in {s \in sent : ~s.ok}}]

AdvanceUnanswered(w, why) ==
    LET next == [w EXCEPT !.st.stepping = @ - 1]
    IN IF w.st.stepping <= 1 \/ why # "step"
       THEN [walks |-> {}, ends |-> {EndWalk(w)}]
       ELSE [walks |-> {r.w : r \in Send(next, "step")}, ends |-> {EndWalk(w)}]

AdvanceStepLine(w, why) ==
    LET next == [w EXCEPT !.st.stepping = @ - 1]
        sent == Send(next, "step")
    IN IF w.st.stepping <= 1 \/ why # "step"
       THEN [walks |-> {}, ends |-> {EndWalk(w)}]
       ELSE [walks |-> {r.w : r \in {s \in sent : s.ok}},
             ends |-> {EndWalk(w)} \cup {EndWalk(r.w) : r \in {s \in sent : ~s.ok}}]

OnStopped(w, rec) ==
    LET counted == [w EXCEPT !.st.stopSeq = @ + 1]
        deferred == FinishDeferredStart([counted EXCEPT !.st.runState = "stopped"])
        repainted == UNION {FetchFrames(v) : v \in deferred.open}
        Report(v) ==
            LET advance == AdvanceStepLine(v, rec.why)
            IN {[u EXCEPT !.st.runState = "running"] : u \in advance.walks}
               \cup {EmitStopped(u) : u \in advance.ends}
    IN IF rec.why = "exited"
       THEN {SetExited([counted EXCEPT !.st.deferred = "none"], rec.code, rec.signal)}
       ELSE deferred.handled \cup UNION {Report(v) : v \in repainted}

\* onExec and onNotify.  A process that ends after its file was replaced is
\* not the program exiting.
OnRecord(w, rec) ==
    CASE rec.kind = "running" -> {SetRunning(w)}
      [] rec.kind = "stopped" -> OnStopped(w, rec)
      [] rec.kind = "started" -> {[w EXCEPT !.st.pid = rec.run]}
      [] rec.kind = "groupExited" ->
            {IF w.st.runState = "noProgram" THEN w ELSE SetExited(w, rec.code, 0)}

-----------------------------------------------------------------------------
(* Requests (commands.go, decomp.go, console.go, session.go).              *)

\* The run-state gate.
Gate(w, kind) ==
    \/ kind = "restart"
    \/ /\ w.gdb.up
       /\ \/ kind \in {"kill", "console"}
          \/ /\ w.st.runState # "running"
             /\ \/ kind \in {"continue", "step", "stepLine"} /\ w.st.runState = "stopped"
                \/ kind = "run" /\ w.st.exe # NoFile
                \/ kind = "runTo" /\ (w.st.exe # NoFile \/ w.st.runState = "stopped")
                \/ kind = "load"

CheckNothing(w, got) == TRUE

CheckStopSeq(w, got) == got = 0 \/ got = w.st.stopSeq

\* The file, then the working directory: the second may fail after the first
\* has taken effect.
ExeLoad(w, file) ==
    LET Reset(v) == {[v EXCEPT !.st.exe = file,
                               !.st.runState = "noProgram",
                               !.st.frames = 0,
                               !.shown.runState = "noProgram"]}
        ChangeDirectory(v) == SendThen(v, "cd", Reset)
    IN SendThen(w, file, ChangeDirectory)

\* -exec-run, or starti when breakpoints wait for the program to be mapped.
ExecRun(w) ==
    LET Begun(v) == {SetRunning([v EXCEPT !.st.deferred = mode]) : mode \in StartModes}
    IN SendThen(w, "start", Begun)

ExecResume(w, how) ==
    LET Resumed(v) == {SetRunning(v)} IN SendThen(w, how, Resumed)

\* With no map of the function's lines a single instruction is stepped.
ExecStepLine(w) ==
    UNION {InstructionStep([w EXCEPT !.st.stepping = left]) : left \in {0, MaxWalk}}

\* A temporary breakpoint, not itself modelled, then a resume or a run.
ExecRunTo(w) ==
    IF w.st.runState = "stopped" THEN ExecResume(w, "continue") ELSE ExecRun(w)

ExecKillBelieved(w) ==
    IF w.st.runState = "noProgram"
    THEN {w}
    ELSE {SetExited(r.w, 0, 0) : r \in Send(w, "kill")}

\* The interrupt that comes first when the mirror says running changes nothing
\* by itself: the program may stop at any time anyway.
ExecKill(w) ==
    LET Killed(v) == {SetExited(v, 0, 0)}
    IN IF w.st.runState = "noProgram" THEN {w} ELSE SendThen(w, "kill", Killed)

\* A typed `continue`.  The mirror learns of it from gdb's records only.
ConsoleExec(w) == {r.w : r \in Send(w, "continue")}

RestartGDBKeepsStack(w) ==
    IF w.gdb.up
    THEN {w}
    ELSE {[w EXCEPT !.gdb.up = TRUE, !.gdb.file = NoFile, !.gdb.born = w.gdb.stops,
                    !.st.runState = "noProgram", !.st.pid = 0]}

\* A fresh gdb; what the old one wrote stays in the queue.
RestartGDB(w) ==
    LET reset == [w EXCEPT !.gdb.up = TRUE,
                           !.gdb.file = NoFile,
                           !.gdb.born = w.gdb.stops,
                           !.st.runState = "noProgram",
                           !.st.frames = 0,
                           !.st.pid = 0]
    IN IF w.gdb.up
       THEN {w}
       ELSE {w} \cup (IF w.st.exe = NoFile THEN {reset} ELSE ExeLoad(reset, w.st.exe))

Dispatch(w, request) ==
    LET kind == request.kind
        stale == /\ ~CheckStopSeq(w, request.got)
                 /\ \/ kind \in {"continue", "step", "stepLine"}
                    \/ kind = "runTo" /\ w.st.runState = "stopped"
    IN IF ~Gate(w, kind) \/ stale
       THEN {w}
       ELSE CASE kind = "load" -> ExeLoad(w, request.file)
              [] kind = "run" -> ExecRun(w)
              [] kind = "runTo" -> ExecRunTo(w)
              [] kind \in {"continue", "step"} -> ExecResume(w, kind)
              [] kind = "stepLine" -> ExecStepLine(w)
              [] kind = "kill" -> ExecKill(w)
              [] kind = "console" -> ConsoleExec(w)
              [] kind = "restart" -> RestartGDB(w)

-----------------------------------------------------------------------------
(* Steps.                                                                  *)

Init ==
    /\ setting \in Settings
    /\ st = [runState |-> "noProgram", stopSeq |-> 0, exe |-> NoFile,
             frames |-> 0, stepping |-> 0, deferred |-> "none", pid |-> 0,
             exitCode |-> 0, exitSignal |-> 0]
    /\ gdb = [up |-> TRUE, process |-> "none", file |-> NoFile, run |-> 0,
              stops |-> 0, begun |-> 0, overtaken |-> FALSE,
              late |-> <<>>, deaths |-> 0, born |-> 0]
    /\ intake = <<>>
    /\ shown = [runState |-> "noProgram", stopSeq |-> 0, code |-> 0, signal |-> 0]
    /\ obituaries = 0
    /\ requests = [c \in Clients |-> NoRequest]

\* A client asks for something.  A tab says which stop it is looking at.
Ask(c, kind, file) ==
    /\ requests[c] = NoRequest
    /\ requests' = [requests EXCEPT ![c] =
                        [kind |-> kind,
                         got |-> IF c \in Tabs THEN shown.stopSeq ELSE 0,
                         file |-> file]]
    /\ UNCHANGED <<setting, st, gdb, intake, shown, obituaries>>

\* The actor serves a request to its end.
Serve(c) ==
    /\ requests[c] # NoRequest
    /\ \E w \in Dispatch(World, requests[c]) : Become(w)
    /\ requests' = [requests EXCEPT ![c] = NoRequest]
    /\ UNCHANGED <<setting, obituaries>>

\* The actor handles the oldest record.
Take ==
    /\ intake # <<>>
    /\ \E w \in OnRecord([World EXCEPT !.intake = Tail(@)], Head(intake)) : Become(w)
    /\ UNCHANGED <<setting, obituaries, requests>>

\* The program stops or ends of its own accord.
ProgramStops(why) ==
    /\ Alive(gdb)
    /\ why = "step" => gdb.process = "stepping"
    /\ Become(Stop(World, why))
    /\ UNCHANGED <<setting, obituaries, requests>>

ProgramExits(signalled) ==
    /\ Alive(gdb)
    /\ Become(Exit(World, signalled))
    /\ UNCHANGED <<setting, obituaries, requests>>

\* gdb gets round to a command nobody waits for any more.
ExecuteLate ==
    /\ gdb.late # <<>>
    /\ Become(Execute([World EXCEPT !.gdb.late = Tail(@)], Head(gdb.late)).w)
    /\ UNCHANGED <<setting, obituaries, requests>>

\* gdb dies, and its process with it.
GdbDies ==
    /\ gdb.up
    /\ gdb.deaths < MaxDeaths
    /\ gdb' = [gdb EXCEPT !.up = FALSE, !.process = "none", !.late = <<>>,
                          !.deaths = @ + 1]
    /\ obituaries' = obituaries + 1
    /\ UNCHANGED <<setting, st, intake, shown, requests>>

\* watchGDB, a goroutine of its own, tells the browsers.
AnnounceDeath ==
    /\ obituaries > 0
    /\ obituaries' = obituaries - 1
    /\ shown' = [shown EXCEPT !.runState = "noProgram"]
    /\ UNCHANGED <<setting, st, gdb, intake, requests>>

Next ==
    \/ \E c \in setting.clients, kind \in Kinds \ {"load"} : Ask(c, kind, NoFile)
    \/ \E c \in setting.clients, file \in Files : "load" \in Kinds /\ Ask(c, "load", file)
    \/ \E c \in Clients : Serve(c)
    \/ Take
    \/ \E why \in {"step", "event"} : ProgramStops(why)
    \/ \E signalled \in BOOLEAN : ProgramExits(signalled)
    \/ ExecuteLate
    \/ GdbDies
    \/ AnnounceDeath

Spec == Init /\ [][Next]_vars

\* The actor's loop runs, and its select chooses at random among what is ready,
\* so that requests do not keep it from records for ever; gdb gets round to what
\* it was sent, and an instruction that is stepped is carried out: the program
\* may run for ever, a step-over of a call that does not return is left out.
FairSpec ==
    /\ Spec
    /\ SF_vars(Take)
    /\ WF_vars(ExecuteLate)
    /\ WF_vars(\E why \in {"step", "event"} : gdb.process = "stepping" /\ ProgramStops(why))

-----------------------------------------------------------------------------
(* Properties.                                                             *)

\* gdb has nothing left to tell the actor or to do for it.
Settled == intake = <<>> /\ gdb.late = <<>>

\* Once the actor has caught up with a gdb that has not been replaced (the old
\* one's stops may still be queued then), its mirror says what the program does,
\* whatever was asked, timed out or typed at the console, and although every
\* handler writes runState before gdb's records arrive.
SettledAgreement ==
    Settled /\ gdb.up /\ gdb.deaths = 0 =>
        /\ (st.runState = "running") <=> Alive(gdb)
        /\ (st.runState = "stopped") <=> (gdb.process = "stopped")

\* A browser that has handled every event shows the run state a snapshot
\* taken now would give it (events.go and commands.go pair every change of
\* runState with an event; the line walk, which does not, is left out, and a
\* death of gdb is announced without the mirror).
BrowserAgrees ==
    /\ gdb.deaths = 0
    /\ "stepLine" \notin Kinds
    /\ Settled \/ MaxLate = 0 \/ "resume" \notin StartModes
    =>  /\ shown.runState = st.runState
        /\ st.runState = "stopped" => shown.stopSeq = st.stopSeq

\* The stack in a snapshot of a stopped program was not read at an earlier
\* stop than the one it is paired with: setRunning drops it, and a stop whose
\* stack cannot be read has none (a line walk is left out: instructionStep sets
\* the run state by itself and keeps the stack of the stop before).  Nor does
\* the actor keep a stack of a gdb that is gone (execFinish and the line walk
\* look at it whatever runState says), although stops of that gdb may still be
\* handled after the restart.
NoOldStack ==
    /\ st.runState = "stopped" /\ "stepLine" \notin Kinds =>
          st.frames = 0 \/ st.frames >= st.stopSeq
    /\ gdb.up => st.frames = 0 \/ st.frames > gdb.born

\* A tab's step or continue resumes the stop that tab was shown, never a later
\* one (checkStopSeq): a double click steps once.  A resume that timed out and is
\* executed later, or one typed at the console, the mirror cannot know of; and a
\* stop of an earlier process, still queued when another was begun, is taken for
\* one of that other (gdb's overtaken).
Resumes == {"continue", "step", "stepLine"}

ResumesShownStop ==
    [][\A c \in Tabs :
          /\ MaxLate = 0 /\ "console" \notin Kinds /\ ~gdb.overtaken
          /\ requests[c].kind \in Resumes
          /\ requests[c].got # 0
          /\ requests'[c] = NoRequest
          /\ Alive(gdb') /\ ~Alive(gdb)
          => requests[c].got = gdb.stops]_vars

\* A stop that is neither the end of an instruction step nor the first of its
\* process is told to the browsers: no walk and no deferred start hides a
\* breakpoint.
EventsShown ==
    [][/\ intake # <<>> /\ intake' # intake /\ st'.stopSeq # st.stopSeq
       /\ Head(intake).why = "event" /\ st'.stopSeq > gdb.begun + 1
       => shown'.runState = "stopped" /\ shown'.stopSeq = st'.stopSeq]_vars

\* A walk does not keep the mirror running for ever, unless the program is (one
\* that exits on a walk leaves the walk to the next run).
WalkEnds ==
    (st.runState = "running" /\ st.stepping > 0 /\ gdb.process # "running")
        ~> (st.runState # "running" \/ gdb.process = "running")

\* A stopped program is shown as stopped, or goes on, or is ended (a death of gdb
\* may be told late, after the stops of its replacement).
StopsShown ==
    (gdb.process = "stopped" /\ gdb.deaths = 0)
        ~> (shown.runState = "stopped" \/ gdb.process # "stopped")
=============================================================================
