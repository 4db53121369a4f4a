----------------------------- MODULE Breakpoints -----------------------------
(***************************************************************************)
(* The actor's mirror of gdb's breakpoint table (commands.go, events.go),  *)
(* the breakpoints on decompiler names that wait for the program to be     *)
(* mapped (deferredbp.go), run-to, what is typed at the console            *)
(* (console.go), and the breakpoints restored in a new gdb (session.go).   *)
(*                                                                         *)
(* gdb reports what a console command, a stop or a library does to a       *)
(* breakpoint by a record, which the actor handles later; what a -break    *)
(* command does it only answers.  The actor hides temporary breakpoints it *)
(* did not make.                                                           *)
(*                                                                         *)
(* As in Session, a handler is an operator from a world to the worlds it   *)
(* may leave.  A request is drawn when it is served, for any number: a tab *)
(* may still show a breakpoint that is gone.                               *)
(***************************************************************************)
EXTENDS Naturals, SequencesExt

CONSTANTS
    MaxQueue,     \* bound: records queued before the console makes more
    Settings      \* what is asked for and what goes wrong

RequestKinds == {"line", "library", "name", "temporary", "delete", "enable", "list",
                 "load", "run", "runTo", "continue", "typed", "restart"}

\* kinds: the requests made.  numbers, tags, stops, late, deaths: bounds on the
\* breakpoints one gdb makes, on those users ask for, on stops, on commands that
\* timed out and gdb has not executed, and on deaths of gdb.  refuse: gdb may refuse what it could do.
ASSUME SettingsAssumption ==
    /\ MaxQueue \in Nat
    /\ Settings \subseteq [kinds : SUBSET RequestKinds, numbers : Nat, tags : Nat,
                           stops : Nat, late : Nat, deaths : Nat, refuse : BOOLEAN]

VARIABLES
    setting,    \* the one this behaviour has, for good
    st,         \* the actor: run state, mirror, ours, deferred start, program
    gdb,        \* gdb: its table, its process, commands timed out
    intake,     \* records gdb wrote that the actor has not handled
    wanted,     \* what users asked for and have not taken back
    adrift      \* numbers of which the mirror cannot know what gdb knows

vars == <<setting, st, gdb, intake, wanted, adrift>>

Numbers == 1..setting.numbers

World == [st |-> st, gdb |-> gdb, intake |-> intake, wanted |-> wanted, adrift |-> adrift]

Become(w) ==
    /\ st' = w.st
    /\ gdb' = w.gdb
    /\ intake' = w.intake
    /\ wanted' = w.wanted
    /\ adrift' = w.adrift
    /\ UNCHANGED setting

\* Places gdb may have to wait for: a line of the program, a line of a library it
\* loads as it runs, a name only the decompiler knows.
Waiting == {"line", "library", "name"}

\* place: one of these, an address, or main.  tag names the lasting wish of a user
\* it serves, 0 for none; at counts the resumes before it was made.
Breakpoint(place, temporary, tag, by, at) ==
    [place |-> place, temporary |-> temporary, enabled |-> TRUE,
     pending |-> place \in Waiting, tag |-> tag, by |-> by, at |-> at]

Without(table, n) == [m \in DOMAIN table \ {n} |-> table[m]]

With(table, n, bp) == [m \in DOMAIN table \cup {n} |-> IF m = n THEN bp ELSE table[m]]

NoBreakpoints == [m \in {} |-> m]

Record(kind, n, bp) == [kind |-> kind, n |-> n, bp |-> bp]

NoBreakpoint == Breakpoint("main", FALSE, 0, "gdb", 0)

Told(w, kind, n, bp) == [w EXCEPT !.intake = Append(@, Record(kind, n, bp))]

Says(w, kind) == Told(w, kind, 0, NoBreakpoint)

\* There is a record about n that the actor has not handled.
Queued(w, n) == \E i \in DOMAIN w.intake : w.intake[i].n = n

-----------------------------------------------------------------------------
(* gdb.                                                                    *)

\* A line is found once its file is loaded, and stays found.
Resolved(g, bp) ==
    [bp EXCEPT !.pending = \/ bp.place = "name"
                           \/ bp.place = "line" /\ ~g.loaded
                           \/ bp.place = "library" /\ ~g.library]

Command(verb, n, bp, typed, wish) ==
    [verb |-> verb, n |-> n, bp |-> bp, typed |-> typed, wish |-> wish]

Plain(verb) == Command(verb, 0, NoBreakpoint, FALSE, FALSE)

\* What gdb changes of a breakpoint it tells only of a typed command; what a
\* timed-out command changes nobody will be told.
Changed(w, cmd, kind, n, bp, unheard) ==
    IF cmd.typed
    THEN Told(w, kind, n, bp)
    ELSE [w EXCEPT !.adrift = IF unheard \/ Queued(w, n) THEN @ \cup {n} ELSE @]

Insert(w, cmd, unheard) ==
    LET n == w.gdb.next
        bp == Resolved(w.gdb, cmd.bp)
        placed == [w EXCEPT !.gdb.table = With(@, n, bp), !.gdb.next = @ + 1,
                            !.wanted = IF bp.tag # 0 /\ cmd.wish
                                       THEN @ \cup {[tag |-> bp.tag, enabled |-> TRUE]} ELSE @]
    IN Changed(placed, cmd, "created", n, bp, unheard)

Delete(w, cmd, unheard) ==
    LET bp == w.gdb.table[cmd.n]
        deleted == [w EXCEPT !.gdb.table = Without(@, cmd.n),
                             !.wanted = IF cmd.wish THEN {u \in @ : u.tag # bp.tag} ELSE @]
    IN Changed(deleted, cmd, "deleted", cmd.n, bp, unheard)

Enable(w, cmd, unheard) ==
    LET bp == [w.gdb.table[cmd.n] EXCEPT !.enabled = cmd.bp.enabled]
        enabled == [w EXCEPT !.gdb.table = With(@, cmd.n, bp),
                             !.wanted = IF cmd.wish
                                        THEN {IF u.tag = bp.tag
                                              THEN [u EXCEPT !.enabled = bp.enabled]
                                              ELSE u : u \in @}
                                        ELSE @]
    IN Changed(enabled, cmd, "modified", cmd.n, bp, unheard)

\* With the files it has loaded, gdb resolves its table anew,
Reread(w, loaded) ==
    [n \in DOMAIN w.gdb.table |-> Resolved(loaded, w.gdb.table[n])]

\* and tells what changed.
RereadNews(w, loaded) ==
    LET table == Reread(w, loaded)
        changed == SetToSeq({n \in DOMAIN table : table[n] # w.gdb.table[n]})
    IN [i \in 1..Len(changed) |-> Record("modified", changed[i], table[changed[i]])]

\* A new file: the program ends, and lines are resolved anew.
Load(w) ==
    LET ended == IF w.gdb.process = "stopped" THEN Says(w, "ended") ELSE w
        loaded == [w.gdb EXCEPT !.loaded = TRUE, !.process = "none"]
    IN [ended EXCEPT !.gdb = [loaded EXCEPT !.table = Reread(w, loaded)],
                     !.intake = @ \o RereadNews(w, loaded)]

\* A library, loaded by the program as it runs.
LoadLibrary(w) ==
    LET loaded == [w.gdb EXCEPT !.library = TRUE]
    IN [w EXCEPT !.gdb = [loaded EXCEPT !.table = Reread(w, loaded)],
                 !.intake = @ \o RereadNews(w, loaded)]

\* -exec-run, which may come with a breakpoint of gdb's own on main, or starti.
Start(w, verb) ==
    LET ended == IF w.gdb.process = "stopped" THEN Says(w, "ended") ELSE w
        main == Breakpoint("main", TRUE, 0, "gdb", w.gdb.resumes)
        begun == [ended EXCEPT !.gdb.process = "running",
                               !.gdb.entry = verb = "starti",
                               !.gdb.resumes = @ + 1,
                               !.gdb.began = w.gdb.resumes,
                               !.gdb.overtaken =
                                   \E i \in DOMAIN w.intake : w.intake[i].kind = "exited"]
    IN Says(IF verb = "runMain"
            THEN Insert(begun, Command("insert", 0, main, TRUE, FALSE), FALSE)
            ELSE begun, "running")

\* The process began when the counts stood at began.  Two facts are history, for
\* the properties only: whether an exit of an earlier process was queued then
\* (overtaken), and the numbers of which records of an earlier gdb were queued
\* when this one was started (inherited).
NewGdb ==
    [up |-> TRUE, process |-> "none", loaded |-> FALSE, library |-> FALSE, entry |-> FALSE,
     table |-> NoBreakpoints, next |-> 1, late |-> <<>>, stops |-> 0,
     resumes |-> 0, began |-> 0, deaths |-> 0, overtaken |-> FALSE, inherited |-> {}]

CanMake(g) == g.next <= setting.numbers

Accepts(w, cmd) ==
    CASE cmd.verb \in {"insert", "insertNow"} ->
            /\ CanMake(w.gdb)
            /\ cmd.verb = "insertNow" => ~Resolved(w.gdb, cmd.bp).pending
      [] cmd.verb \in {"delete", "enable"} -> cmd.n \in DOMAIN w.gdb.table
      [] cmd.verb = "continue" -> w.gdb.process = "stopped" /\ w.gdb.stops < setting.stops
      [] cmd.verb \in {"run", "runMain", "starti"} ->
            /\ w.gdb.loaded /\ w.gdb.process # "running"
            /\ w.gdb.stops < setting.stops
            /\ cmd.verb = "runMain" => CanMake(w.gdb)
      [] cmd.verb = "load" -> w.gdb.process # "running"
      [] cmd.verb = "list" -> TRUE

Execute(w, cmd, unheard) ==
    IF ~Accepts(w, cmd)
    THEN w
    ELSE CASE cmd.verb \in {"insert", "insertNow"} -> Insert(w, cmd, unheard)
           [] cmd.verb = "delete" -> Delete(w, cmd, unheard)
           [] cmd.verb = "enable" -> Enable(w, cmd, unheard)
           [] cmd.verb = "continue" ->
                 Says([w EXCEPT !.gdb.process = "running", !.gdb.entry = FALSE,
                                !.gdb.resumes = @ + 1], "running")
           [] cmd.verb = "load" -> Load(w)
           [] cmd.verb = "list" -> w
           [] OTHER -> Start(w, cmd.verb)

\* What the program may do: stop for a reason of its own, at its first
\* instruction for one,
Pause(w) ==
    Says([w EXCEPT !.gdb.process = "stopped", !.gdb.stops = @ + 1], "stopped")

CanHit(g, n) ==
    n \in DOMAIN g.table /\ ~g.entry /\ g.table[n].enabled /\ ~g.table[n].pending

\* hit a breakpoint, where gdb counts the hit before the stop, and deletes a
\* temporary one after it,
Hit(w, n) ==
    LET bp == w.gdb.table[n]
        stopped == Says(Told([w EXCEPT !.gdb.process = "stopped", !.gdb.stops = @ + 1],
                             "modified", n, bp), "stopped")
    IN IF bp.temporary
       THEN Told([stopped EXCEPT !.gdb.table = Without(@, n)], "deleted", n, bp)
       ELSE stopped

\* or exit.
Exit(w) ==
    Says([w EXCEPT !.gdb.process = "none", !.gdb.stops = @ + 1], "exited")

\* What it may do while the actor is in the middle of a handler.
Meanwhile(w) ==
    IF w.gdb.process = "running"
    THEN {w, Pause(w)} \cup {Hit(w, n) : n \in {m \in Numbers : CanHit(w.gdb, m)}}
                      \cup (IF w.gdb.entry THEN {} ELSE {Exit(w)})
    ELSE {w}

\* Session.send.  gdb answers a command after those before it, and may find
\* reasons of its own to refuse a breakpoint or a resume, but not to delete,
\* disable or list what it has.  One that times out is executed all the same,
\* before the handler's next command or later.
Answered(w, cmd) ==
    IF w.gdb.late # <<>>
    THEN {}
    ELSE {[ok |-> Accepts(w, cmd), w |-> Execute(w, cmd, FALSE)]}
         \cup (IF setting.refuse /\ cmd.verb \notin {"delete", "enable", "list"}
               THEN {[ok |-> FALSE, w |-> w]} ELSE {})

TimedOut(w, cmd) ==
    IF Len(w.gdb.late) >= setting.late
    THEN {}
    ELSE {[w EXCEPT !.gdb.late = Append(@, cmd)]}
         \cup (IF w.gdb.late = <<>> THEN Meanwhile(Execute(w, cmd, TRUE)) ELSE {})

Send(w, cmd) ==
    IF w.gdb.up
    THEN Answered(w, cmd) \cup {[ok |-> FALSE, w |-> v] : v \in TimedOut(w, cmd)}
    ELSE {[ok |-> FALSE, w |-> w]}

\* The handler goes on with After, or with Otherwise.
Worlds(outcomes) == {r.w : r \in outcomes}

Follow(outcomes, After(_), Otherwise(_)) ==
    UNION {IF r.ok THEN After(r.w) ELSE Otherwise(r.w) : r \in outcomes}

SendThenElse(w, cmd, After(_), Otherwise(_)) == Follow(Send(w, cmd), After, Otherwise)

Done(w) == {w}

SendThen(w, cmd, After(_)) == SendThenElse(w, cmd, After, Done)

-----------------------------------------------------------------------------
(* The mirror (commands.go, events.go).                                    *)

\* gdb's own: what -exec-run --start puts on main.
Hidden(w, n, bp) ==
    bp.temporary /\ n \notin w.st.ours

\* -break-list, after which only what is queued can lead the mirror astray.
Reconcile(w) ==
    LET Listed(v) ==
            LET seen == {n \in DOMAIN v.gdb.table : ~Hidden(v, n, v.gdb.table[n])}
            IN {[v EXCEPT !.st.mirror = [n \in seen |-> v.gdb.table[n]],
                          !.adrift = {n \in @ : Queued(v, n)}]}
    IN SendThen(w, Plain("list"), Listed)

\* The number of the breakpoint just made.
Newest(w) == w.gdb.next - 1

InsertUnregistered(w, verb, bp, wish) ==
    LET Listed(v) == [v EXCEPT !.st.mirror = With(@, Newest(v), v.gdb.table[Newest(v)])]
    IN {IF r.ok THEN [r EXCEPT !.w = Listed(@)] ELSE r :
           r \in Send(w, Command(verb, 0, bp, FALSE, wish))}

\* insertBreakpoint: what the server makes is ours, and stays visible.
InsertBreakpoint(w, verb, bp, wish) ==
    LET Ours(v) == [v EXCEPT !.st.ours = @ \cup {Newest(v)},
                             !.st.mirror = With(@, Newest(v), v.gdb.table[Newest(v)])]
    IN {IF r.ok THEN [r EXCEPT !.w = Ours(@)] ELSE r :
           r \in Send(w, Command(verb, 0, bp, FALSE, wish))}

Forget(w, n) == [w EXCEPT !.st.mirror = Without(@, n), !.st.ours = @ \ {n}]

\* dropBreakpoint, and the body of bp.delete.
DropBreakpoint(w, n, wish) ==
    LET Dropped(v) == {Forget(v, n)}
    IN SendThen(w, Command("delete", n, NoBreakpoint, FALSE, wish), Dropped)

\* Breakpoints on names, in the mirror's eyes.
Deferred(w) == {n \in DOMAIN w.st.mirror : w.st.mirror[n].place = "name"}

PlaceOneDropFirst(w, n) ==
    LET old == w.st.mirror[n]
        bp == Breakpoint("address", old.temporary, old.tag, old.by, old.at)
    IN UNION {Worlds(InsertBreakpoint(v, "insertNow", bp, FALSE)) :
                 v \in DropBreakpoint(w, n, FALSE)}

\* One deferred breakpoint: on its address, disabled if it was, and only then
\* without the one on the name.
PlaceOne(w, n) ==
    LET old == w.st.mirror[n]
        bp == Breakpoint("address", old.temporary, old.tag, old.by, old.at)
        Dropped(v) == DropBreakpoint(v, n, FALSE)
        Disabled(v) ==
            LET m == Newest(v)
                off == [bp EXCEPT !.enabled = FALSE]
                Noted(u) == Dropped([u EXCEPT !.st.mirror = With(@, m, off)])
            IN SendThenElse(v, Command("enable", m, off, FALSE, FALSE), Noted, Dropped)
        Placed(v) == IF old.enabled THEN Dropped(v) ELSE Disabled(v)
    IN Follow(InsertBreakpoint(w, "insertNow", bp, FALSE), Placed, Done)

\* The first k of them, in one order: the worlds it may lead to.
PlaceFirst(w, order, k) ==
    LET after[i \in 0..k] ==
            IF i = 0 THEN {w} ELSE UNION {PlaceOne(v, order[i]) : v \in after[i - 1]}
    IN after[k]

\* The placement of those in D, in any order: the mirror is a Go map, and ranges
\* as it likes.  (The list is made before the first; a record in it changes
\* meanwhile only when gdb gives a new breakpoint the number of one of an earlier
\* gdb.)  The others stay pending: which they are, missed, is history, for the
\* properties only.
Resolve(w, D) ==
    LET k == Cardinality(D)
        begun == [w EXCEPT !.st.missed = Deferred(w) \ D]
    IN UNION {PlaceFirst(begun, order, k) : order \in Bijection(1..k, D)}

\* Those the decompiler can name and has an address for.
ResolveDeferred(w) ==
    UNION {Resolve(w, D) : D \in SUBSET Deferred(w)}

\* The stop a deferred start asked for: carries on unless it was wanted.
FinishDeferredStart(w) ==
    LET ds == w.st.deferred
        main == Breakpoint("main", TRUE, 0, "gdb", w.gdb.resumes)
        Goes(v) == {[v EXCEPT !.st.runState = "running"]}
        Carry(v) == SendThen(v, Plain("continue"), Goes)
        Main(v) == SendThenElse(v, Command("insertNow", 0, main, FALSE, FALSE), Carry, Carry)
        placed == ResolveDeferred([w EXCEPT !.st.deferred = "none"])
    IN CASE ds = "none" -> {w}
         [] ds = "stop" -> placed
         [] ds = "resume" -> UNION {Carry(v) : v \in placed}
         [] ds = "resumeMain" -> UNION {Main(v) : v \in placed}

\* onNotify and onExec.
OnRecord(w, rec) ==
    CASE rec.kind \in {"created", "modified"} ->
            {IF Hidden(w, rec.n, rec.bp) THEN w
             ELSE [w EXCEPT !.st.mirror = With(@, rec.n, rec.bp)]}
      [] rec.kind = "deleted" -> {Forget(w, rec.n)}
      [] rec.kind = "running" -> {[w EXCEPT !.st.runState = "running"]}
      [] rec.kind = "stopped" -> FinishDeferredStart([w EXCEPT !.st.runState = "stopped"])
      [] rec.kind = "ended" -> {[w EXCEPT !.st.runState = "none"]}
      [] rec.kind = "exited" -> {[w EXCEPT !.st.runState = "none", !.st.deferred = "none"]}

-----------------------------------------------------------------------------
(* Requests.                                                               *)

\* Whether addresses are final (started): the program of the model is
\* position-independent.
Started(w) == w.st.runState \in {"stopped", "running"}

NamePlace(w) == IF Started(w) THEN "address" ELSE "name"

\* bp.setSource and bp.setAddress.
BpSet(w, place, temporary, tag) ==
    LET bp == Breakpoint(place, temporary, tag, "user", w.gdb.resumes)
    IN Worlds(InsertBreakpoint(w, "insert", bp, TRUE))

BpSetEnabled(w, n, on) ==
    LET off == [NoBreakpoint EXCEPT !.enabled = on]
        Set(v) == {IF n \in DOMAIN v.st.mirror
                   THEN [v EXCEPT !.st.mirror[n].enabled = on] ELSE v}
    IN SendThen(w, Command("enable", n, off, FALSE, TRUE), Set)

\* The file; then the list, for gdb keeps the breakpoints and resolves them.
ExeLoad(w) ==
    LET Listed(v) == Reconcile([v EXCEPT !.st.exe = TRUE, !.st.runState = "none"])
    IN UNION {IF r.ok THEN {[r EXCEPT !.w = v] : v \in Listed(r.w)} ELSE {r} :
                 r \in Send(w, Plain("load"))}

StartPlainly(verb, named) ==
    [verb |-> verb, deferred |-> "none"]

\* startCommand: with deferred breakpoints the decompiler can name, a run begins
\* at the first instruction.
StartCommand(verb, named) ==
    IF named = {}
    THEN [verb |-> verb, deferred |-> "none"]
    ELSE [verb |-> "starti",
          deferred |-> CASE verb = "starti" -> "stop"
                         [] verb = "runMain" -> "resumeMain"
                         [] verb = "run" -> "resume"]

RunNaming(w, verb, named) ==
    LET start == StartCommand(verb, named)
        Begun(v) == [v EXCEPT !.st.deferred = start.deferred, !.st.runState = "running",
                              !.st.missed = Deferred(w) \ named]
    IN {IF r.ok THEN [r EXCEPT !.w = Begun(@)] ELSE r : r \in Send(w, Plain(start.verb))}

Run(w, verb) ==
    UNION {RunNaming(w, verb, named) : named \in SUBSET Deferred(w)}

Continue(w) ==
    {IF r.ok THEN [r EXCEPT !.w.st.runState = "running"] ELSE r : r \in Send(w, Plain("continue"))}

RunToVerb(place) == IF place = "name" THEN "insert" ELSE "insertNow"

ExecRunToLeaves(w, place) ==
    LET bp == Breakpoint(place, TRUE, 0, "runTo", w.gdb.resumes)
        Go(v) == Worlds(IF w.st.runState = "stopped" THEN Continue(v) ELSE Run(v, "run"))
    IN Follow(InsertBreakpoint(w, RunToVerb(place), bp, FALSE), Go, Done)

\* A temporary breakpoint and a resume or a run.
ExecRunTo(w, place) ==
    LET bp == Breakpoint(place, TRUE, 0, "runTo", w.gdb.resumes)
        Go(v) == LET CleanUp(u) == DropBreakpoint(u, Newest(v), FALSE)
                 IN Follow(IF w.st.runState = "stopped" THEN Continue(v) ELSE Run(v, "run"),
                           Done, CleanUp)
    IN Follow(InsertBreakpoint(w, RunToVerb(place), bp, FALSE), Go, Done)

\* A command at the console, told by records, then a resynchronisation.
ConsoleExec(w, cmd) ==
    LET Resync(v) == IF v.st.runState = "running" THEN {v} ELSE Reconcile(v)
    IN SendThenElse(w, cmd, Resync, Resync)

\* Those with a path and a line, which gdb gives once it has found the line.
Restorable(mirror) ==
    {n \in DOMAIN mirror : mirror[n].place \in {"line", "library"} /\ ~mirror[n].pending}

\* One breakpoint of the old mirror is made again, enabled and permanent; what
\* gdb refuses is lost.
RestoreOne(w, old) ==
    LET bp == Breakpoint(old.place, FALSE, old.tag, "user", w.gdb.resumes)
    IN {IF r.ok THEN r.w ELSE [r.w EXCEPT !.wanted = {u \in @ : u.tag # old.tag}] :
           r \in InsertBreakpoint(w, "insert", bp, TRUE)}

Restore(w, mirror) ==
    LET after[n \in 0..setting.numbers] ==
            IF n = 0 THEN {w}
            ELSE IF n \in Restorable(mirror)
                 THEN UNION {RestoreOne(v, mirror[n]) : v \in after[n - 1]}
            ELSE after[n - 1]
    IN after[setting.numbers]

\* A new gdb: its numbers start again, and once the program is loaded the
\* breakpoints on source lines are made again from the mirror.  Others are lost,
\* those on a line gdb was still waiting for too, and all are if no program was
\* loaded or it is not now.  Records of the old gdb stay queued.
RestartGDB(w) ==
    LET old == w.st.mirror
        lines == {u \in w.wanted : \E n \in Restorable(old) : old[n].tag = u.tag}
        queued == {n \in Numbers : Queued(w, n)}
        fresh == [w EXCEPT !.gdb = [NewGdb EXCEPT !.stops = w.gdb.stops,
                                                  !.resumes = w.gdb.resumes,
                                                  !.deaths = w.gdb.deaths,
                                                  !.inherited = queued],
                           !.st.mirror = NoBreakpoints, !.st.ours = {},
                           !.st.runState = "none",
                           !.adrift = queued,
                           !.wanted = {}]
        Owed(v) == [v EXCEPT !.wanted = {[u EXCEPT !.enabled = TRUE] : u \in lines}]
        Restored(v) == Restore(Owed(v), old)
    IN {w} \cup (IF w.st.exe THEN Follow(ExeLoad(fresh), Restored, Done) ELSE {fresh})

-----------------------------------------------------------------------------
(* Steps.                                                                  *)

Init ==
    /\ setting \in Settings
    /\ st = [runState |-> "none", exe |-> FALSE, deferred |-> "none",
             mirror |-> NoBreakpoints, ours |-> {}, issued |-> 0, missed |-> {}]
    /\ gdb = NewGdb
    /\ intake = <<>>
    /\ wanted = {}
    /\ adrift = {}

Asked(kind) == kind \in setting.kinds

\* The gate: most requests are refused while the mirror says running.
Gate(kind) ==
    \/ kind = "restart"
    \/ gdb.up /\ kind \in {"list", "typed"}
    \/ /\ gdb.up
       /\ st.runState # "running"
       /\ kind = "continue" => st.runState = "stopped"
       /\ kind = "run" => st.exe
       /\ kind = "runTo" => st.exe \/ st.runState = "stopped"

Serve(kind, worlds) ==
    /\ Asked(kind)
    /\ Gate(kind)
    /\ \E w \in worlds : Become(w)

\* A user sets a breakpoint; a name needs the program it is of.
AsksForBreakpoint(kind) ==
    LET w == [World EXCEPT !.st.issued = @ + 1]
        place == CASE kind = "name" -> NamePlace(w)
                   [] kind = "library" -> "library"
                   [] OTHER -> "line"
    IN /\ st.issued < setting.tags
       /\ kind = "name" => st.exe
       /\ Serve(kind, BpSet(w, place, kind = "temporary",
                            IF kind = "temporary" THEN 0 ELSE st.issued + 1))

AsksToDelete(n) ==
    Serve("delete", DropBreakpoint(World, n, TRUE))

AsksToEnable(n, on) ==
    Serve("enable", BpSetEnabled(World, n, on))

AsksForList ==
    Serve("list", Reconcile(World))

AsksToLoad ==
    Serve("load", Worlds(ExeLoad(World)))

AsksToRun(verb) ==
    Serve("run", Worlds(Run(World, verb)))

AsksToRunTo(name) ==
    /\ name => st.exe
    /\ Serve("runTo", ExecRunTo(World, IF name THEN NamePlace(World) ELSE "line"))

AsksToContinue ==
    Serve("continue", Worlds(Continue(World)))

\* break, delete, disable and enable at the console.
Types(verb, n, on) ==
    LET bp == IF verb = "insert" THEN Breakpoint("line", FALSE, 0, "typed", gdb.resumes)
                                 ELSE [NoBreakpoint EXCEPT !.enabled = on]
    IN /\ Len(intake) < MaxQueue
       /\ Serve("typed", ConsoleExec(World, Command(verb, n, bp, TRUE, TRUE)))

AsksToRestart ==
    /\ ~gdb.up
    /\ Serve("restart", RestartGDB(World))

\* The actor handles the oldest record.
Take ==
    /\ intake # <<>>
    /\ \E w \in OnRecord([World EXCEPT !.intake = Tail(@)], Head(intake)) : Become(w)

Pauses ==
    /\ gdb.process = "running"
    /\ Become(Pause(World))

Hits(n) ==
    /\ gdb.process = "running"
    /\ CanHit(gdb, n)
    /\ Become(Hit(World, n))

ProgramExits ==
    /\ gdb.process = "running" /\ ~gdb.entry
    /\ Become(Exit(World))

LibraryLoads ==
    /\ Asked("library")
    /\ gdb.process = "running" /\ ~gdb.entry /\ ~gdb.library
    /\ Become(LoadLibrary(World))

ExecuteLate ==
    /\ gdb.late # <<>>
    /\ Become(Execute([World EXCEPT !.gdb.late = Tail(@)], Head(gdb.late), TRUE))

GdbDies ==
    /\ gdb.up
    /\ gdb.deaths < setting.deaths
    /\ gdb' = [gdb EXCEPT !.up = FALSE, !.process = "none", !.late = <<>>, !.deaths = @ + 1]
    /\ UNCHANGED <<setting, st, intake, wanted, adrift>>

Next ==
    \/ \E kind \in {"line", "library", "name", "temporary"} : AsksForBreakpoint(kind)
    \/ \E n \in Numbers : AsksToDelete(n)
    \/ \E n \in Numbers, on \in BOOLEAN : AsksToEnable(n, on)
    \/ AsksForList
    \/ AsksToLoad
    \/ \E verb \in {"run", "runMain", "starti"} : AsksToRun(verb)
    \/ \E name \in BOOLEAN : AsksToRunTo(name)
    \/ AsksToContinue
    \/ \E n \in Numbers : Types("delete", n, FALSE)
    \/ \E n \in Numbers, on \in BOOLEAN : Types("enable", n, on)
    \/ Types("insert", 0, TRUE)
    \/ AsksToRestart
    \/ Take
    \/ Pauses
    \/ \E n \in Numbers : Hits(n)
    \/ ProgramExits
    \/ LibraryLoads
    \/ ExecuteLate
    \/ GdbDies

Spec == Init /\ [][Next]_vars

-----------------------------------------------------------------------------
(* Properties.                                                             *)

\* Once the actor has caught up, its mirror holds gdb's breakpoints as gdb has
\* them, and none of gdb's own, whatever was typed, hit, loaded, refused or
\* restarted (the exception is adrift: what was changed by a -break command
\* while a record about it was queued, or by one that had timed out, and has
\* not been listed since).
MirrorAgrees ==
    gdb.up /\ intake = <<>> /\ gdb.late = <<>> =>
        \A n \in Numbers \ adrift :
            /\ n \in DOMAIN st.mirror <=>
                   n \in DOMAIN gdb.table /\ ~Hidden(World, n, gdb.table[n])
            /\ n \in DOMAIN st.mirror => st.mirror[n] = gdb.table[n]
            /\ n \in DOMAIN st.mirror => st.mirror[n].by # "gdb"

\* A permanent breakpoint a user asked for, and has not deleted, is in gdb's
\* table, through the placement of deferred ones and whatever is refused on the
\* way, and enabled or not as the user left it, if the mirror could know; a new
\* gdb has those on source lines.  (The exceptions: what was typed at a gdb that
\* died may be told of a number of the next one; and a line the old gdb had not
\* found when the mirror last heard of it, one of a library not yet loaded for
\* one, has no path to be made again by, and is lost with its gdb.)
UsersBreakpointsKept ==
    gdb.up /\ (Asked("typed") => gdb.inherited = {}) =>
        \A u \in wanted : \E n \in DOMAIN gdb.table :
            /\ gdb.table[n].tag = u.tag
            /\ \/ gdb.table[n].enabled = u.enabled
               \/ setting.late > 0 \/ Asked("typed")

\* A program past its first instruction leaves no breakpoint waiting for it to
\* be mapped that was asked for before it began: it has been placed on its
\* address, unless gdb would not or the decompiler could not place it.  (The
\* exceptions: an exit that was queued when the program began ends its deferred
\* start, and a number of which an earlier gdb had still to tell the actor.)
NamesPlaced ==
    /\ ~setting.refuse /\ setting.late = 0 /\ CanMake(gdb)
    /\ gdb.process = "running" /\ ~gdb.entry /\ ~gdb.overtaken
    => \A n \in DOMAIN gdb.table \ (gdb.inherited \cup st.missed) :
          gdb.table[n].place = "name" => gdb.table[n].at > gdb.began

\* A run-to that could not resume the program leaves no temporary breakpoint
\* behind for a later run to stop at.
RunToCleansUp ==
    setting.late = 0 =>
        \A n \in DOMAIN gdb.table :
            gdb.table[n].by = "runTo" => gdb.table[n].at < gdb.resumes
=============================================================================
