---------------------------- MODULE SessionProofs ----------------------------
(***************************************************************************)
(* Theorems about the session actor, for any clients and files, any        *)
(* setting and any number of stops, runs, timeouts and deaths of gdb.      *)
(*                                                                         *)
(* A handler is a chain of commands and changes of the mirror.  So the     *)
(* invariant is stated of worlds, not of variables, and shown to survive   *)
(* what such a chain is made of: a move of gdb, whatever command or        *)
(* program made it (the Moves lemmas), a change of the mirror that gdb's   *)
(* state allows (Adjusts), and the oldest record leaving the queue (Takes).*)
(* Sound survives each of these by itself; Firm holds between handlers.    *)
(***************************************************************************)
EXTENDS Session, SequenceTheorems, TLAPS

\* The types of mirror, gdb, records and worlds.
RunStates == {"noProgram", "running", "stopped", "exited"}

Mirrors ==
    [runState : RunStates, stopSeq : Nat, exe : Files \cup {NoFile}, frames : Nat,
     stepping : Nat, deferred : {"none", "resume", "stop"}, pid : Nat,
     exitCode : Nat, exitSignal : Nat]

Gdbs ==
    [up : BOOLEAN, process : {"none", "stopped", "stepping", "running"},
     file : Files \cup {NoFile}, run : Nat, stops : Nat, begun : Nat,
     overtaken : BOOLEAN, late : Seq(Commands), deaths : Nat, born : Nat]

Records ==
    [kind : {"running", "started", "groupExited", "stopped"},
     why : {"", "step", "event", "exited"}, number : Nat, run : Nat,
     code : Nat, signal : Nat]

Worlds ==
    [st : Mirrors, gdb : Gdbs, intake : Seq(Records),
     shown : [runState : RunStates, stopSeq : Nat, code : Nat, signal : Nat]]

-----------------------------------------------------------------------------
(* gdb.                                                                    *)

\* What no step of gdb or its program touches.
Kept(w, v) ==
    /\ v \in Worlds
    /\ v.st = w.st
    /\ v.shown = w.shown
    /\ v.gdb.up = w.gdb.up
    /\ v.gdb.deaths = w.gdb.deaths
    /\ v.gdb.born = w.gdb.born
    /\ w.gdb.up \/ v = w

\* What gdb did, by what it wrote: nothing,
Idled(w, v) ==
    /\ v.gdb.process = w.gdb.process
    /\ v.gdb.stops = w.gdb.stops
    /\ v.gdb.begun = w.gdb.begun
    /\ v.gdb.overtaken = w.gdb.overtaken
    /\ v.intake = w.intake

\* resume the program,
Resumed(w, v) ==
    /\ w.gdb.process = "stopped"
    /\ Alive(v.gdb)
    /\ v.gdb.stops = w.gdb.stops
    /\ v.gdb.begun = w.gdb.begun
    /\ v.gdb.overtaken = w.gdb.overtaken
    /\ v.intake = Append(w.intake, RunningRecord)

\* end it,
Ended(w, v) ==
    /\ w.gdb.process = "stopped"
    /\ v.gdb.process = "none"
    /\ v.gdb.stops = w.gdb.stops
    /\ v.gdb.begun = w.gdb.begun
    /\ v.gdb.overtaken = w.gdb.overtaken
    /\ v.intake = Append(w.intake, GroupExited(0))

\* begin a process,
Began(w, v) ==
    /\ w.gdb.process = "none"
    /\ Alive(v.gdb)
    /\ v.gdb.stops = w.gdb.stops
    /\ v.gdb.begun = w.gdb.stops
    /\ v.gdb.overtaken = (w.gdb.overtaken \/ w.st.stopSeq # w.gdb.stops)
    /\ v.intake = w.intake \o <<Started(w.gdb.run + 1), RunningRecord>>

\* end a stopped one and begin another,
BeganAnew(w, v) ==
    /\ w.gdb.process = "stopped"
    /\ Alive(v.gdb)
    /\ v.gdb.stops = w.gdb.stops
    /\ v.gdb.begun = w.gdb.stops
    /\ v.gdb.overtaken = (w.gdb.overtaken \/ w.st.stopSeq # w.gdb.stops)
    /\ v.intake = w.intake \o <<GroupExited(0), Started(w.gdb.run + 1), RunningRecord>>

\* see the program stop,
Stopped(w, v) ==
    /\ Alive(w.gdb)
    /\ v.gdb.process = "stopped"
    /\ v.gdb.stops = w.gdb.stops + 1
    /\ v.gdb.begun = w.gdb.begun
    /\ v.gdb.overtaken = w.gdb.overtaken
    /\ \E why \in {"step", "event"} :
          v.intake = Append(w.intake, StopRecord(why, w.gdb.stops + 1))

\* see it exit.
Exited(w, v) ==
    /\ Alive(w.gdb)
    /\ v.gdb.process = "none"
    /\ v.gdb.stops = w.gdb.stops + 1
    /\ v.gdb.begun = w.gdb.begun
    /\ v.gdb.overtaken = w.gdb.overtaken
    /\ \E code, signal \in Nat :
          v.intake = w.intake \o <<GroupExited(code),
                                   ExitRecord(w.gdb.stops + 1, code, signal)>>

\* A move of gdb, as a handler or nobody waits for it.
Moved(w, v) ==
    /\ Kept(w, v)
    /\ \/ Idled(w, v) \/ Resumed(w, v) \/ Ended(w, v) \/ Began(w, v)
       \/ BeganAnew(w, v) \/ Stopped(w, v) \/ Exited(w, v)

\* Concatenation, for sequences as short as gdb's reports.
LEMMA Prepended ==
    ASSUME NEW S, NEW a \in S, NEW b \in S, NEW c \in S
    PROVE  <<a>> \o <<b, c>> = <<a, b, c>>
<1> DEFINE s == <<a>>
           t == <<b, c>>
           u == <<a, b, c>>
<1>1. s \in Seq(S) /\ t \in Seq(S) /\ u \in Seq(S)
  OBVIOUS
<1>2. Len(s) = 1 /\ Len(t) = 2 /\ Len(u) = 3 /\ s[1] = a /\ t[1] = b /\ t[2] = c
      /\ u[1] = a /\ u[2] = b /\ u[3] = c
  OBVIOUS
<1> HIDE DEF s, t, u
<1>3. /\ s \o t \in Seq(S) /\ Len(s \o t) = Len(s) + Len(t)
      /\ \A i \in 1 .. Len(s) + Len(t) :
            (s \o t)[i] = IF i <= Len(s) THEN s[i] ELSE t[i - Len(s)]
  BY ONLY <1>1, ConcatProperties
<1>4. \A i \in 1 .. 3 : (s \o t)[i] = u[i]
  BY <1>2, <1>3
<1>5. s \o t = u
  BY <1>1, <1>2, <1>3, <1>4, SeqEqual
<1> QED
  BY <1>5 DEF s, t, u

\* The records of gdb.
LEMMA RecordTypes ==
    /\ RunningRecord \in Records
    /\ \A n \in Nat : Started(n) \in Records /\ GroupExited(n) \in Records
    /\ \A why \in {"step", "event"}, n \in Nat : StopRecord(why, n) \in Records
    /\ \A n, code, signal \in Nat : ExitRecord(n, code, signal) \in Records
BY DEF RunningRecord, Started, GroupExited, StopRecord, ExitRecord, Record, Records

\* Two states of gdb that may differ in the file loaded and in overtaken.
Same(g, h) ==
    /\ h.up = g.up /\ h.process = g.process /\ h.run = g.run /\ h.stops = g.stops
    /\ h.begun = g.begun /\ h.late = g.late /\ h.deaths = g.deaths /\ h.born = g.born

\* Execute of a command gdb accepts.
LEMMA DoneExecution ==
    ASSUME NEW w \in Worlds, NEW cmd, NEW g \in Gdbs, NEW recs \in Seq(Records),
           Effect(w.gdb, cmd) = Done(g, recs)
    PROVE  /\ Execute(w, cmd).ok
           /\ Execute(w, cmd).w \in Worlds
           /\ Execute(w, cmd).w.st = w.st
           /\ Execute(w, cmd).w.shown = w.shown
           /\ Execute(w, cmd).w.intake = w.intake \o recs
           /\ Same(g, Execute(w, cmd).w.gdb)
           /\ Execute(w, cmd).w.gdb.overtaken =
                  (g.overtaken \/ (g.run # w.gdb.run /\ w.st.stopSeq # w.gdb.stops))
<1> DEFINE o == g.run # w.gdb.run /\ w.st.stopSeq # w.gdb.stops
           h == [g EXCEPT !.overtaken = @ \/ o]
           v == [w EXCEPT !.gdb = h, !.intake = @ \o recs]
<1>1. Execute(w, cmd) = [ok |-> TRUE, w |-> v]
  BY DEF Execute, Done
<1>2. v.st = w.st /\ v.shown = w.shown /\ v.gdb = h /\ v.intake = w.intake \o recs
  BY DEF Worlds
<1>3. h \in Gdbs /\ h.overtaken = (g.overtaken \/ o) /\ Same(g, h)
  BY DEF Gdbs, Same
<1>4. w.intake \o recs \in Seq(Records)
  BY DEF Worlds
<1>5. v \in Worlds
  BY <1>3, <1>4 DEF Worlds
<1> HIDE DEF v, h
<1>6. Execute(w, cmd).ok /\ Execute(w, cmd).w = v
  BY <1>1
<1> QED
  BY <1>2, <1>3, <1>5, <1>6

\* Execute of a command gdb refuses.
LEMMA IdleExecution ==
    ASSUME NEW w \in Worlds, NEW cmd, Effect(w.gdb, cmd) = Refused(w.gdb)
    PROVE  Execute(w, cmd) = [ok |-> FALSE, w |-> w]
<1> DEFINE g == [w.gdb EXCEPT !.overtaken = @ \/ FALSE]
<1>1. w.gdb \in Gdbs /\ w.intake \in Seq(Records)
  BY DEF Worlds
<1>2. g = w.gdb
  BY <1>1 DEF Gdbs
<1>3. w.intake \o <<>> = w.intake
  BY <1>1
<1>4. [w EXCEPT !.gdb = w.gdb, !.intake = w.intake] = w
  BY DEF Worlds
<1>5. Execute(w, cmd) = [ok |-> FALSE,
                         w |-> [w EXCEPT !.gdb = g, !.intake = @ \o <<>>]]
  BY DEF Execute, Refused
<1>6. [w EXCEPT !.gdb = g, !.intake = @ \o <<>>] = w
  BY <1>2, <1>3, <1>4
<1> QED
  BY <1>5, <1>6

\* What gdb answers when it does as it is told.
Accepted(w, cmd, v) ==
    /\ cmd \in {"continue", "step"} => Resumed(w, v)
    /\ cmd = "start" => Began(w, v) \/ BeganAnew(w, v)
    /\ cmd = "query" => v = w /\ w.gdb.process = "stopped"
    /\ cmd = "cd" => v = w
    /\ cmd \in Files \cup {"kill"} =>
           Ended(w, v) \/ (Idled(w, v) /\ w.gdb.process = "none")

\* What Execute returns.
Outcome(w, cmd, r) ==
    /\ r.ok \in BOOLEAN
    /\ r.ok => Kept(w, r.w) /\ Accepted(w, cmd, r.w) /\ r.w.gdb.late = w.gdb.late
    /\ ~r.ok => r.w = w

\* -exec-continue and -exec-step: a stopped program goes on and gdb says so, or nothing happens.
LEMMA ResumeMoves ==
    ASSUME NEW w \in Worlds, NEW cmd \in {"continue", "step"}, w.gdb.up
    PROVE  Outcome(w, cmd, Execute(w, cmd))
<1> DEFINE how == IF cmd = "continue" THEN "running" ELSE "stepping"
           g == [w.gdb EXCEPT !.process = how]
           r == Execute(w, cmd)
<1>1. Effect(w.gdb, cmd) = Resume(w.gdb, how)
  BY RequestsAssumption DEF Effect, Verbs
<1>2. w.gdb \in Gdbs /\ w.intake \in Seq(Records)
  BY DEF Worlds
<1> cmd \notin Files /\ cmd \notin {"start", "query", "cd", "kill"}
  BY RequestsAssumption DEF Verbs
<1>3. CASE CanResume(w.gdb)
  <2>1. Effect(w.gdb, cmd) = Done(g, <<RunningRecord>>)
    BY <1>1, <1>3 DEF Resume
  <2>2. g \in Gdbs /\ g.process = how /\ g.run = w.gdb.run /\ g.stops = w.gdb.stops
        /\ g.begun = w.gdb.begun /\ g.overtaken = w.gdb.overtaken /\ g.late = w.gdb.late
        /\ g.up = w.gdb.up /\ g.deaths = w.gdb.deaths /\ g.born = w.gdb.born
    BY <1>2 DEF Gdbs
  <2>3. <<RunningRecord>> \in Seq(Records)
    BY RecordTypes
  <2>4. w.intake \o <<RunningRecord>> = Append(w.intake, RunningRecord)
    BY <1>2
  <2>5. Alive(g) /\ w.gdb.process = "stopped"
    BY <2>2, <1>3 DEF Alive, CanResume
  <2> HIDE DEF g
  <2>6. /\ r.ok
        /\ r.w \in Worlds
        /\ r.w.st = w.st
        /\ r.w.shown = w.shown
        /\ r.w.intake = w.intake \o <<RunningRecord>>
        /\ Same(g, r.w.gdb)
        /\ r.w.gdb.overtaken =
               (g.overtaken \/ (g.run # w.gdb.run /\ w.st.stopSeq # w.gdb.stops))
    BY <2>1, <2>2, <2>3, DoneExecution, Zenon
  <2> HIDE DEF r
  <2>7. Kept(w, r.w)
    BY <2>2, <2>6 DEF Kept, Same
  <2>8. Resumed(w, r.w)
    BY <1>2, <2>2, <2>4, <2>5, <2>6 DEF Resumed, Same, Alive, Gdbs
  <2> QED
    BY <2>2, <2>6, <2>7, <2>8 DEF Same, Outcome, Accepted, r
<1>4. CASE ~CanResume(w.gdb)
  <2>1. Effect(w.gdb, cmd) = Refused(w.gdb)
    BY <1>1, <1>4 DEF Resume
  <2>2. r = [ok |-> FALSE, w |-> w]
    BY <2>1, IdleExecution
  <2> HIDE DEF r
  <2>3. r.ok = FALSE /\ r.w = w
    BY <2>2
  <2> QED
    BY <2>3 DEF Outcome, r
<1> QED
  BY <1>3, <1>4

\* -exec-run and starti: a process begins, after the end of a stopped one, or nothing happens.
LEMMA StartMoves ==
    ASSUME NEW w \in Worlds, w.gdb.up
    PROVE  Outcome(w, "start", Execute(w, "start"))
<1> DEFINE g == [w.gdb EXCEPT !.process = "running", !.run = @ + 1,
                              !.begun = w.gdb.stops]
           before == IF w.gdb.process = "stopped" THEN <<GroupExited(0)>> ELSE <<>>
           recs == before \o <<Started(w.gdb.run + 1), RunningRecord>>
           r == Execute(w, "start")
<1>1. Effect(w.gdb, "start") = Start(w.gdb)
  BY RequestsAssumption DEF Effect, Verbs
<1>2. w.gdb \in Gdbs /\ w.intake \in Seq(Records)
  BY DEF Worlds
<1> "start" \notin Files
  BY RequestsAssumption DEF Verbs
<1>3. CASE ~Alive(w.gdb) /\ Effect(w.gdb, "start") = Done(g, recs)
  <2>1. w.gdb.run \in Nat /\ w.gdb.stops \in Nat /\ w.gdb.overtaken \in BOOLEAN
    BY <1>2 DEF Gdbs
  <2>2. g \in Gdbs /\ g.process = "running" /\ g.run = w.gdb.run + 1
        /\ g.stops = w.gdb.stops /\ g.begun = w.gdb.stops
        /\ g.overtaken = w.gdb.overtaken /\ g.late = w.gdb.late
        /\ g.up = w.gdb.up /\ g.deaths = w.gdb.deaths /\ g.born = w.gdb.born
    <3>1. w.gdb.run + 1 \in Nat
      BY <2>1
    <3> QED
      BY <1>2, <2>1, <3>1 DEF Gdbs
  <2>3. Started(w.gdb.run + 1) \in Records /\ RunningRecord \in Records
        /\ GroupExited(0) \in Records
    BY <2>1, RecordTypes
  <2>4. before \in Seq(Records) /\ recs \in Seq(Records)
    BY <2>3
  <2>5. w.gdb.process \in {"none", "stopped"}
    BY <1>2, <1>3 DEF Gdbs, Alive
  <2>6. w.gdb.process = "none" => recs = <<Started(w.gdb.run + 1), RunningRecord>>
    BY <2>3
  <2>7. w.gdb.process = "stopped" =>
            recs = <<GroupExited(0), Started(w.gdb.run + 1), RunningRecord>>
    BY <2>3, Prepended
  <2> HIDE DEF g, recs
  <2>8. /\ r.ok
        /\ r.w \in Worlds
        /\ r.w.st = w.st
        /\ r.w.shown = w.shown
        /\ r.w.intake = w.intake \o recs
        /\ Same(g, r.w.gdb)
        /\ r.w.gdb.overtaken =
               (g.overtaken \/ (g.run # w.gdb.run /\ w.st.stopSeq # w.gdb.stops))
    BY <1>3, <2>2, <2>4, DoneExecution, Zenon
  <2> HIDE DEF r
  <2>9. Kept(w, r.w) /\ r.w.gdb.late = w.gdb.late
    BY <2>2, <2>8 DEF Kept, Same
  <2>10. g.run # w.gdb.run
    BY <2>1, <2>2
  <2>11. Began(w, r.w) \/ BeganAnew(w, r.w)
    BY <2>2, <2>5, <2>6, <2>7, <2>8, <2>10 DEF Began, BeganAnew, Same, Alive
  <2> QED
    BY <2>8, <2>9, <2>11 DEF Outcome, Accepted, r
<1>4. CASE Effect(w.gdb, "start") = Refused(w.gdb)
  <2>2. r = [ok |-> FALSE, w |-> w]
    BY <1>4, IdleExecution
  <2> HIDE DEF r
  <2>3. r.ok = FALSE /\ r.w = w
    BY <2>2
  <2> QED
    BY <2>3 DEF Outcome, r
<1> QED
  BY <1>1, <1>3, <1>4 DEF Start

\* kill and -file-exec-and-symbols: a stopped program ends, one that runs is left alone.
LEMMA EndMoves ==
    ASSUME NEW w \in Worlds, NEW cmd \in Files \cup {"kill"}, w.gdb.up
    PROVE  Outcome(w, cmd, Execute(w, cmd))
<1> DEFINE file == IF cmd = "kill" THEN w.gdb.file ELSE cmd
           g == [w.gdb EXCEPT !.process = "none", !.file = file]
           recs == IF w.gdb.process = "stopped" THEN <<GroupExited(0)>> ELSE <<>>
           r == Execute(w, cmd)
<1>1. Effect(w.gdb, cmd) = End(w.gdb, file)
  BY RequestsAssumption DEF Effect, Verbs
<1>2. w.gdb \in Gdbs /\ w.intake \in Seq(Records)
  BY DEF Worlds
<1>3. cmd \notin {"continue", "step", "start", "query", "cd"}
  BY RequestsAssumption DEF Verbs
<1>4. CASE ~Alive(w.gdb)
  <2>1. Effect(w.gdb, cmd) = Done(g, recs)
    BY <1>1, <1>4 DEF End
  <2>2. g \in Gdbs /\ g.process = "none" /\ g.run = w.gdb.run /\ g.stops = w.gdb.stops
        /\ g.begun = w.gdb.begun /\ g.overtaken = w.gdb.overtaken /\ g.late = w.gdb.late
        /\ g.up = w.gdb.up /\ g.deaths = w.gdb.deaths /\ g.born = w.gdb.born
    BY <1>2 DEF Gdbs
  <2>3. recs \in Seq(Records)
    BY RecordTypes
  <2>4. w.gdb.process = "stopped" => w.intake \o recs = Append(w.intake, GroupExited(0))
    BY <1>2
  <2>5. w.gdb.process \in {"none", "stopped"}
    BY <1>2, <1>4 DEF Gdbs, Alive
  <2>6. w.gdb.process = "none" => w.intake \o recs = w.intake
    BY <1>2
  <2> HIDE DEF g, recs
  <2>7. /\ r.ok
        /\ r.w \in Worlds
        /\ r.w.st = w.st
        /\ r.w.shown = w.shown
        /\ r.w.intake = w.intake \o recs
        /\ Same(g, r.w.gdb)
        /\ r.w.gdb.overtaken =
               (g.overtaken \/ (g.run # w.gdb.run /\ w.st.stopSeq # w.gdb.stops))
    BY <2>1, <2>2, <2>3, DoneExecution, Zenon
  <2> HIDE DEF r
  <2>8. Kept(w, r.w) /\ r.w.gdb.late = w.gdb.late
    BY <2>2, <2>7 DEF Kept, Same
  <2>9. r.w.gdb.overtaken = w.gdb.overtaken
    BY <1>2, <2>2, <2>7 DEF Gdbs
  <2>10. Ended(w, r.w) \/ (Idled(w, r.w) /\ w.gdb.process = "none")
    BY <2>2, <2>4, <2>5, <2>6, <2>7, <2>9 DEF Ended, Idled, Same
  <2> QED
    BY <1>3, <2>7, <2>8, <2>10 DEF Outcome, Accepted, r
<1>5. CASE Alive(w.gdb)
  <2>1. Effect(w.gdb, cmd) = Refused(w.gdb)
    BY <1>1, <1>5 DEF End
  <2>2. r = [ok |-> FALSE, w |-> w]
    BY <2>1, IdleExecution
  <2> HIDE DEF r
  <2>3. r.ok = FALSE /\ r.w = w
    BY <2>2
  <2> QED
    BY <2>3 DEF Outcome, r
<1> QED
  BY <1>4, <1>5

\* A query, answered while the program is stopped, and -environment-cd: nothing moves.
LEMMA QueryMoves ==
    ASSUME NEW w \in Worlds, NEW cmd \in {"query", "cd"}
    PROVE  Outcome(w, cmd, Execute(w, cmd))
<1> DEFINE r == Execute(w, cmd)
<1>1. w.gdb \in Gdbs /\ w.intake \in Seq(Records)
  BY DEF Worlds
<1> cmd \notin Files \cup {"kill"}
  BY RequestsAssumption DEF Verbs
<1>2. /\ Effect(w.gdb, "query") = IF w.gdb.process = "stopped" THEN Done(w.gdb, <<>>)
                                                              ELSE Refused(w.gdb)
      /\ Effect(w.gdb, "cd") = Done(w.gdb, <<>>)
  BY RequestsAssumption DEF Effect, Verbs
<1>3. CASE Effect(w.gdb, cmd) = Done(w.gdb, <<>>) /\ (cmd = "query" => w.gdb.process = "stopped")
  <2> DEFINE g == [w.gdb EXCEPT !.overtaken = @ \/ FALSE]
  <2>1. g = w.gdb
    BY <1>1 DEF Gdbs
  <2>2. w.intake \o <<>> = w.intake
    BY <1>1
  <2>3. [w EXCEPT !.gdb = w.gdb, !.intake = w.intake] = w
    BY DEF Worlds
  <2>4. r = [ok |-> TRUE, w |-> [w EXCEPT !.gdb = g, !.intake = @ \o <<>>]]
    BY <1>3 DEF Execute, Done
  <2>5. r = [ok |-> TRUE, w |-> w]
    BY <2>1, <2>2, <2>3, <2>4
  <2>6. Kept(w, w)
    BY DEF Kept
  <2> QED
    BY <1>3, <2>5, <2>6 DEF Outcome, Accepted
<1>4. CASE Effect(w.gdb, cmd) = Refused(w.gdb)
  <2>2. r = [ok |-> FALSE, w |-> w]
    BY <1>4, IdleExecution
  <2> HIDE DEF r
  <2>3. r.ok = FALSE /\ r.w = w
    BY <2>2
  <2> QED
    BY <2>3 DEF Outcome, r
<1> QED
  BY <1>2, <1>3, <1>4

\* Whatever gdb is sent, it does what that command's case says, or nothing.
LEMMA ExecuteMoves ==
    ASSUME NEW w \in Worlds, NEW cmd \in Commands, w.gdb.up
    PROVE  Outcome(w, cmd, Execute(w, cmd))
BY ResumeMoves, StartMoves, EndMoves, QueryMoves DEF Commands, Verbs

\* The program stops of its own accord: one more stop, and a record of it.
LEMMA StopMoves ==
    ASSUME NEW w \in Worlds, NEW why \in {"step", "event"}, Alive(w.gdb), w.gdb.up
    PROVE  /\ Kept(w, Stop(w, why))
           /\ Stopped(w, Stop(w, why))
           /\ Stop(w, why).gdb.late = w.gdb.late
<1> DEFINE rec == StopRecord(why, w.gdb.stops + 1)
           g == [w.gdb EXCEPT !.process = "stopped", !.stops = @ + 1]
           v == Stop(w, why)
<1>1. w.gdb \in Gdbs /\ w.intake \in Seq(Records) /\ w.gdb.stops \in Nat
  BY DEF Worlds, Gdbs
<1>2. rec \in Records
  BY <1>1, RecordTypes
<1> HIDE DEF rec
<1>3. v = [w EXCEPT !.gdb = g, !.intake = Append(@, rec)]
  BY DEF Stop, Worlds, rec
<1>4. g \in Gdbs /\ g.process = "stopped" /\ g.stops = w.gdb.stops + 1
      /\ g.begun = w.gdb.begun /\ g.overtaken = w.gdb.overtaken /\ g.late = w.gdb.late
      /\ g.up = w.gdb.up /\ g.deaths = w.gdb.deaths /\ g.born = w.gdb.born
  <2>1. w.gdb.stops + 1 \in Nat
    BY <1>1
  <2> QED
    BY <1>1, <2>1 DEF Gdbs
<1> HIDE DEF g, v
<1>5. v \in Worlds /\ v.st = w.st /\ v.shown = w.shown /\ v.gdb = g
      /\ v.intake = Append(w.intake, rec)
  <2>1. Append(w.intake, rec) \in Seq(Records)
    BY <1>1, <1>2
  <2> QED
    BY <1>3, <1>4, <2>1 DEF Worlds
<1>6. Kept(w, v) /\ Stopped(w, v) /\ v.gdb.late = w.gdb.late
  BY <1>4, <1>5 DEF Kept, Stopped, rec
<1> QED
  BY <1>6 DEF v

\* The program ends of its own accord: two records, of which the second counts as a stop.
LEMMA ExitMoves ==
    ASSUME NEW w \in Worlds, NEW signalled \in BOOLEAN, Alive(w.gdb), w.gdb.up
    PROVE  /\ Kept(w, Exit(w, signalled))
           /\ Exited(w, Exit(w, signalled))
           /\ Exit(w, signalled).gdb.late = w.gdb.late
<1> DEFINE code == IF signalled THEN 0 ELSE w.gdb.run
           signal == IF signalled THEN w.gdb.run ELSE 0
           a == GroupExited(code)
           b == ExitRecord(w.gdb.stops + 1, code, signal)
           g == [w.gdb EXCEPT !.process = "none", !.stops = @ + 1]
           v == Exit(w, signalled)
<1>1. w.gdb \in Gdbs /\ w.intake \in Seq(Records) /\ w.gdb.stops \in Nat /\ w.gdb.run \in Nat
  BY DEF Worlds, Gdbs
<1>2. code \in Nat /\ signal \in Nat
  BY <1>1
<1>3. v = [w EXCEPT !.gdb = g, !.intake = @ \o <<a, b>>]
  BY DEF Exit, Worlds
<1>4. g \in Gdbs /\ g.process = "none" /\ g.stops = w.gdb.stops + 1
      /\ g.begun = w.gdb.begun /\ g.overtaken = w.gdb.overtaken /\ g.late = w.gdb.late
      /\ g.up = w.gdb.up /\ g.deaths = w.gdb.deaths /\ g.born = w.gdb.born
  <2>1. w.gdb.stops + 1 \in Nat
    BY <1>1
  <2> QED
    BY <1>1, <2>1 DEF Gdbs
<1> HIDE DEF g, v, code, signal
<1>5. a \in Records /\ b \in Records
  BY <1>1, <1>2, RecordTypes
<1> HIDE DEF a, b
<1>6. w.intake \o <<a, b>> \in Seq(Records)
  BY <1>1, <1>5
<1>7. v \in Worlds /\ v.st = w.st /\ v.shown = w.shown /\ v.gdb = g
      /\ v.intake = w.intake \o <<a, b>>
  BY <1>3, <1>4, <1>6 DEF Worlds
<1>8. Kept(w, v) /\ v.gdb.late = w.gdb.late
  BY <1>4, <1>7 DEF Kept
<1>9. Exited(w, v)
  BY <1>2, <1>4, <1>7 DEF Exited, a, b
<1> QED
  BY <1>8, <1>9 DEF v

\* What gdb may have done by the time Session.send returns: the command, if it was answered;
\* if it was not, nothing, or the command and whatever the program did next.
LEMMA SendMoves ==
    ASSUME NEW w \in Worlds, NEW cmd \in Commands, MaxLate \in Nat,
           NEW r \in Send(w, cmd)
    PROVE  /\ r.ok \in BOOLEAN
           /\ \E v : Moved(w, v) /\ Moved(v, r.w)
           /\ Len(w.gdb.late) <= MaxLate => Len(r.w.gdb.late) <= MaxLate
           /\ r.ok => w.gdb.up /\ Kept(w, r.w) /\ Accepted(w, cmd, r.w)
           /\ ~r.ok /\ MaxLate = 0 => r.w = w
           /\ r.ok => r.w.gdb.late = w.gdb.late
<1> DEFINE d == Execute(w, cmd)
<1>1. w.gdb \in Gdbs /\ w.gdb.late \in Seq(Commands) /\ Len(w.gdb.late) \in Nat
  BY DEF Worlds, Gdbs
<1>2. \A v \in Worlds : Moved(v, v)
  BY DEF Moved, Kept, Idled
<1>3. w.gdb.up => Outcome(w, cmd, d)
  BY ExecuteMoves
<1> HIDE DEF d
<1>4. ASSUME w.gdb.up
      PROVE  Moved(w, d.w) /\ d.w.gdb.late = w.gdb.late /\ d.w \in Worlds /\ d.w.gdb.up
  <2>1. CASE d.ok
    <3>1. Kept(w, d.w) /\ Accepted(w, cmd, d.w) /\ d.w.gdb.late = w.gdb.late
      BY <1>3, <1>4, <2>1 DEF Outcome
    <3>2. Idled(w, d.w) \/ Resumed(w, d.w) \/ Ended(w, d.w) \/ Began(w, d.w) \/ BeganAnew(w, d.w)
      <4>1. d.w = w => Idled(w, d.w)
        BY DEF Idled
      <4> QED
        BY <3>1, <4>1 DEF Accepted, Commands, Verbs
    <3> QED
      BY <1>4, <3>1, <3>2 DEF Moved, Kept
  <2>2. CASE ~d.ok
    BY <1>2, <1>3, <1>4, <2>2 DEF Outcome
  <2> QED
    BY <2>1, <2>2
<1>5. CASE r = [ok |-> FALSE, w |-> w]
  BY <1>2, <1>5
<1>6. CASE w.gdb.up /\ r = d
  BY <1>2, <1>3, <1>4, <1>6 DEF Outcome
<1>7. CASE /\ Len(w.gdb.late) < MaxLate /\ w.gdb.up
           /\ r = [ok |-> FALSE, w |-> [w EXCEPT !.gdb.late = Append(@, cmd)]]
  <2> DEFINE g == [w.gdb EXCEPT !.late = Append(@, cmd)]
             v == [w EXCEPT !.gdb = g]
  <2>1. Append(w.gdb.late, cmd) \in Seq(Commands)
        /\ Len(Append(w.gdb.late, cmd)) = Len(w.gdb.late) + 1
    BY <1>1
  <2>2. g \in Gdbs /\ g.late = Append(w.gdb.late, cmd) /\ g.process = w.gdb.process
        /\ g.stops = w.gdb.stops /\ g.begun = w.gdb.begun /\ g.overtaken = w.gdb.overtaken
        /\ g.up = w.gdb.up /\ g.deaths = w.gdb.deaths /\ g.born = w.gdb.born
    BY <1>1, <2>1 DEF Gdbs
  <2>3. r = [ok |-> FALSE, w |-> v]
    BY <1>7 DEF Worlds
  <2> HIDE DEF g
  <2>4. v \in Worlds /\ v.st = w.st /\ v.shown = w.shown /\ v.gdb = g /\ v.intake = w.intake
    BY <2>2 DEF Worlds
  <2> HIDE DEF v
  <2>5. r.w = v /\ r.ok = FALSE
    BY <2>3
  <2>6. Moved(w, v)
    BY <1>7, <2>2, <2>4 DEF Moved, Kept, Idled
  <2>7. Len(v.gdb.late) <= MaxLate
    BY <1>1, <1>7, <2>1, <2>2, <2>4
  <2>8. Moved(v, v)
    BY <1>2, <2>4
  <2>9. MaxLate # 0
    BY <1>1, <1>7
  <2> QED
    BY <2>5, <2>6, <2>7, <2>8, <2>9
<1>8. CASE /\ Len(w.gdb.late) < MaxLate /\ w.gdb.up
           /\ \E v \in Meanwhile(d.w) : r = [ok |-> FALSE, w |-> v]
  <2>1. PICK v \in Meanwhile(d.w) : r = [ok |-> FALSE, w |-> v]
    BY <1>8
  <2>2. Moved(d.w, v) /\ v.gdb.late = d.w.gdb.late
    <3>1. \/ v = d.w
          \/ Alive(d.w.gdb) /\ \E why \in {"step", "event"} : v = Stop(d.w, why)
          \/ Alive(d.w.gdb) /\ \E signalled \in BOOLEAN : v = Exit(d.w, signalled)
      BY DEF Meanwhile
    <3> QED
      BY <1>2, <1>4, <1>8, <3>1, StopMoves, ExitMoves DEF Moved
  <2>3. r.w = v /\ r.ok = FALSE
    BY <2>1
  <2> QED
    BY <1>1, <1>4, <1>8, <2>2, <2>3
<1> QED
  BY <1>5, <1>6, <1>7, <1>8 DEF Send, Answered, TimedOut, d

-----------------------------------------------------------------------------
(* The queue of records.                                                   *)

\* The end of a stretch the program ran for.
Ending(rec) == rec.kind \in {"stopped", "groupExited"}

\* A stop the program can be resumed from.
LiveStop(rec) == rec.kind = "stopped" /\ rec.why # "exited"

\* p begins with q.
Extends(q, p) ==
    /\ Len(p) >= Len(q)
    /\ \A i \in 1 .. Len(q) : p[i] = q[i]

\* What the record at i is.
IsRunning(q, i) == q[i].kind = "running"
IsStarted(q, i) == q[i].kind = "started"
IsGone(q, i) == q[i].kind = "groupExited"
IsStop(q, i, number) ==
    q[i].kind = "stopped" /\ q[i].why # "exited" /\ q[i].number = number
IsExit(q, i, number) ==
    q[i].kind = "stopped" /\ q[i].why = "exited" /\ q[i].number = number

\* What comes of putting more records behind a queue, by one.
LEMMA LongerByOne ==
    ASSUME NEW S, NEW q \in Seq(S), NEW a \in S
    PROVE  /\ Append(q, a) \in Seq(S)
           /\ Extends(q, Append(q, a))
           /\ Len(Append(q, a)) = Len(q) + 1
           /\ Append(q, a)[Len(q) + 1] = a
BY DEF Extends

\* What comes of putting more records behind a queue.
LEMMA Longer ==
    ASSUME NEW S, NEW q \in Seq(S), NEW t \in Seq(S)
    PROVE  /\ q \o t \in Seq(S)
           /\ Extends(q, q \o t)
           /\ Len(q \o t) = Len(q) + Len(t)
           /\ \A i \in 1 .. Len(t) : (q \o t)[Len(q) + i] = t[i]
<1>1. /\ q \o t \in Seq(S)
      /\ Len(q \o t) = Len(q) + Len(t)
      /\ \A i \in 1 .. Len(q) + Len(t) : (q \o t)[i] =
             IF i <= Len(q) THEN q[i] ELSE t[i - Len(q)]
  BY ConcatProperties, Zenon
<1> DEFINE p == q \o t
           m == Len(q)
           n == Len(t)
<1>2. p \in Seq(S) /\ Len(p) = m + n /\ m \in Nat /\ n \in Nat
      /\ \A i \in 1 .. m + n : p[i] = IF i <= m THEN q[i] ELSE t[i - m]
  BY <1>1
<1> HIDE DEF p, m, n
<1>3. \A i \in 1 .. m : p[i] = q[i]
  BY <1>2
<1>4. \A i \in 1 .. n : p[m + i] = t[i]
  <2> SUFFICES ASSUME NEW i \in 1 .. n PROVE p[m + i] = t[i]
    OBVIOUS
  <2>1. m + i \in 1 .. m + n /\ ~(m + i <= m) /\ m + i - m = i
    BY <1>2
  <2> QED
    BY <1>2, <2>1
<1>5. m + n >= m
  BY <1>2
<1> QED
  BY <1>2, <1>3, <1>4, <1>5 DEF Extends, p, m, n

\* The same, by two records.
LEMMA LongerByTwo ==
    ASSUME NEW S, NEW q \in Seq(S), NEW a \in S, NEW b \in S
    PROVE  /\ Extends(q, q \o <<a, b>>)
           /\ Len(q \o <<a, b>>) = Len(q) + 2
           /\ (q \o <<a, b>>)[Len(q) + 1] = a /\ (q \o <<a, b>>)[Len(q) + 2] = b
<1> DEFINE t == <<a, b>>
<1>1. t \in Seq(S) /\ Len(t) = 2 /\ t[1] = a /\ t[2] = b /\ 1 \in 1 .. 2 /\ 2 \in 1 .. 2
  OBVIOUS
<1>0. t \in Seq(S)
  BY <1>1
<1> HIDE DEF t
<1>2. Extends(q, q \o t) /\ Len(q \o t) = Len(q) + Len(t)
      /\ \A i \in 1 .. Len(t) : (q \o t)[Len(q) + i] = t[i]
  BY <1>0, Longer, Zenon
<1> QED
  BY <1>1, <1>2 DEF t

\* The same, by three records.
LEMMA LongerByThree ==
    ASSUME NEW S, NEW q \in Seq(S), NEW a \in S, NEW b \in S, NEW c \in S
    PROVE  /\ Extends(q, q \o <<a, b, c>>)
           /\ Len(q \o <<a, b, c>>) = Len(q) + 3
           /\ (q \o <<a, b, c>>)[Len(q) + 1] = a
           /\ (q \o <<a, b, c>>)[Len(q) + 2] = b
           /\ (q \o <<a, b, c>>)[Len(q) + 3] = c
<1> DEFINE t == <<a, b, c>>
<1>1. t \in Seq(S) /\ Len(t) = 3 /\ t[1] = a /\ t[2] = b /\ t[3] = c
      /\ 1 \in 1 .. 3 /\ 2 \in 1 .. 3 /\ 3 \in 1 .. 3
  OBVIOUS
<1>0. t \in Seq(S)
  BY <1>1
<1> HIDE DEF t
<1>2. Extends(q, q \o t) /\ Len(q \o t) = Len(q) + Len(t)
      /\ \A i \in 1 .. Len(t) : (q \o t)[Len(q) + i] = t[i]
  BY <1>0, Longer, Zenon
<1> QED
  BY <1>1, <1>2 DEF t

\* What the kinds of moves write.
Writes(w, v, q, p, n) ==
    /\ Resumed(w, v) => Extends(q, p) /\ Len(p) = n + 1 /\ IsRunning(p, n + 1)
    /\ Ended(w, v) => Extends(q, p) /\ Len(p) = n + 1 /\ IsGone(p, n + 1)
    /\ Began(w, v) => Extends(q, p) /\ Len(p) = n + 2 /\ IsStarted(p, n + 1)
                      /\ IsRunning(p, n + 2)
    /\ BeganAnew(w, v) => Extends(q, p) /\ Len(p) = n + 3 /\ IsGone(p, n + 1)
                          /\ IsStarted(p, n + 2) /\ IsRunning(p, n + 3)
    /\ Stopped(w, v) => Extends(q, p) /\ Len(p) = n + 1 /\ IsStop(p, n + 1, w.gdb.stops + 1)
    /\ Exited(w, v) => Extends(q, p) /\ Len(p) = n + 2 /\ IsGone(p, n + 1)
                       /\ IsExit(p, n + 2, w.gdb.stops + 1)

\* gdb's moves write that, and nothing before it changes.
LEMMA Written ==
    ASSUME NEW w \in Worlds, NEW v \in Worlds, NEW q, NEW p, NEW n,
           q = w.intake, p = v.intake, n = Len(q)
    PROVE  Writes(w, v, q, p, n)
<1> DEFINE number == w.gdb.stops + 1
           run == w.gdb.run + 1
<1>1. q \in Seq(Records) /\ number \in Nat /\ run \in Nat
  <2>1. w.gdb.stops \in Nat /\ w.gdb.run \in Nat /\ w.intake \in Seq(Records)
    BY DEF Worlds, Gdbs
  <2> QED
    BY <2>1
<1> HIDE DEF number, run
<1>2. ASSUME Resumed(w, v) PROVE Extends(q, p) /\ Len(p) = n + 1 /\ IsRunning(p, n + 1)
  <2> DEFINE a == RunningRecord
  <2>1. a \in Records
    BY RecordTypes
  <2>2. a.kind = "running"
    BY DEF RunningRecord, Record
  <2>3. p = Append(q, a)
    BY <1>2 DEF Resumed
  <2> HIDE DEF a
  <2> QED
    BY <1>1, <2>1, <2>2, <2>3, LongerByOne DEF IsRunning
<1>3. ASSUME Ended(w, v) PROVE Extends(q, p) /\ Len(p) = n + 1 /\ IsGone(p, n + 1)
  <2> DEFINE a == GroupExited(0)
  <2>1. a \in Records
    BY RecordTypes
  <2>2. a.kind = "groupExited"
    BY DEF GroupExited, Record
  <2>3. p = Append(q, a)
    BY <1>3 DEF Ended
  <2> HIDE DEF a
  <2> QED
    BY <1>1, <2>1, <2>2, <2>3, LongerByOne DEF IsGone
<1>4. ASSUME Began(w, v)
      PROVE  Extends(q, p) /\ Len(p) = n + 2 /\ IsStarted(p, n + 1) /\ IsRunning(p, n + 2)
  <2> DEFINE a == Started(run)
             b == RunningRecord
  <2>1. a \in Records /\ b \in Records
    BY <1>1, RecordTypes
  <2>2. a.kind = "started" /\ b.kind = "running"
    BY DEF Started, RunningRecord, Record
  <2>3. p = q \o <<a, b>>
    BY <1>4 DEF Began, run
  <2> HIDE DEF a, b
  <2>4. /\ Extends(q, q \o <<a, b>>) /\ Len(q \o <<a, b>>) = Len(q) + 2
        /\ (q \o <<a, b>>)[Len(q) + 1] = a /\ (q \o <<a, b>>)[Len(q) + 2] = b
    BY <1>1, <2>1, LongerByTwo
  <2> QED
    BY <2>2, <2>3, <2>4 DEF IsStarted, IsRunning
<1>5. ASSUME BeganAnew(w, v)
      PROVE  Extends(q, p) /\ Len(p) = n + 3 /\ IsGone(p, n + 1) /\ IsStarted(p, n + 2)
             /\ IsRunning(p, n + 3)
  <2> DEFINE a == GroupExited(0)
             b == Started(run)
             c == RunningRecord
  <2>1. a \in Records /\ b \in Records /\ c \in Records
    BY <1>1, RecordTypes
  <2>2. a.kind = "groupExited" /\ b.kind = "started" /\ c.kind = "running"
    BY DEF GroupExited, Started, RunningRecord, Record
  <2>3. p = q \o <<a, b, c>>
    BY <1>5 DEF BeganAnew, run
  <2> HIDE DEF a, b, c
  <2> DEFINE t == q \o <<a, b, c>>
  <2>4. /\ Extends(q, t) /\ Len(t) = Len(q) + 3
        /\ t[Len(q) + 1] = a /\ t[Len(q) + 2] = b /\ t[Len(q) + 3] = c
    BY <1>1, <2>1, LongerByThree
  <2> QED
    BY <2>2, <2>3, <2>4 DEF IsGone, IsStarted, IsRunning
<1>6. ASSUME Stopped(w, v)
      PROVE  Extends(q, p) /\ Len(p) = n + 1 /\ IsStop(p, n + 1, number)
  <2>1. PICK why \in {"step", "event"} : p = Append(q, StopRecord(why, number))
    BY <1>6 DEF Stopped, number
  <2> DEFINE a == StopRecord(why, number)
  <2>2. a \in Records
    BY <1>1, RecordTypes
  <2>3. a.kind = "stopped" /\ a.why # "exited" /\ a.number = number
    BY DEF StopRecord, Record
  <2>4. p = Append(q, a)
    BY <2>1
  <2> HIDE DEF a
  <2> QED
    BY <1>1, <2>2, <2>3, <2>4, LongerByOne DEF IsStop
<1>7. ASSUME Exited(w, v)
      PROVE  Extends(q, p) /\ Len(p) = n + 2 /\ IsGone(p, n + 1) /\ IsExit(p, n + 2, number)
  <2>1. PICK code \in Nat, signal \in Nat :
            p = q \o <<GroupExited(code), ExitRecord(number, code, signal)>>
    BY <1>7 DEF Exited, number
  <2> DEFINE a == GroupExited(code)
             b == ExitRecord(number, code, signal)
  <2>2. a \in Records /\ b \in Records
    BY <1>1, RecordTypes
  <2>3. a.kind = "groupExited" /\ b.kind = "stopped" /\ b.why = "exited" /\ b.number = number
    BY DEF GroupExited, ExitRecord, Record
  <2>4. p = q \o <<a, b>>
    BY <2>1
  <2> HIDE DEF a, b
  <2>5. /\ Extends(q, q \o <<a, b>>) /\ Len(q \o <<a, b>>) = Len(q) + 2
        /\ (q \o <<a, b>>)[Len(q) + 1] = a /\ (q \o <<a, b>>)[Len(q) + 2] = b
    BY <1>1, <2>2, LongerByTwo
  <2> QED
    BY <2>3, <2>4, <2>5 DEF IsGone, IsExit
<1> QED
  BY <1>2, <1>3, <1>4, <1>5, <1>6, <1>7 DEF number, Writes

-----------------------------------------------------------------------------
(* The invariant, as what is true of a world.                              *)

\* The last thing that bears on a stop at i, or at the end of the queue, is that
\* the program went on: either a record between it and the stop or exit before
\* it says so, or nothing of that kind comes before it and what is at hand is
\* that the program runs.
Led(q, running, i) ==
    \E j \in 0 .. Len(q) :
        /\ j < i
        /\ IF j = 0 THEN running ELSE q[j].kind = "running"
        /\ \A k \in 1 .. Len(q) : j < k /\ k < i => ~Ending(q[k])

\* Alive, of a process by itself.
IsUp(process) == process \in {"running", "stepping"}

\* The mirror says running.
Running(w) == w.st.runState = "running"

\* The stops in the queue are those after the last the mirror has counted, in the order
\* they happened.
Numbered(w) ==
    /\ w.st.stopSeq <= w.gdb.stops
    /\ \A i \in 1 .. Len(w.intake) : w.intake[i].kind = "stopped" =>
           w.st.stopSeq < w.intake[i].number /\ w.intake[i].number <= w.gdb.stops
    /\ \A i, j \in 1 .. Len(w.intake) :
           i < j /\ w.intake[i].kind = "stopped" /\ w.intake[j].kind = "stopped" =>
               w.intake[i].number < w.intake[j].number

\* What a record, if it is the last, says of the process.
Says(rec, process) ==
    /\ rec.kind = "running" => IsUp(process)
    /\ LiveStop(rec) => process = "stopped"
    /\ rec.kind # "running" /\ ~LiveStop(rec) => process = "none"
    /\ rec.kind # "started"

\* Mirror and process are in agreement.
Agrees(runState, process) ==
    /\ runState = "running" <=> IsUp(process)
    /\ runState = "stopped" <=> process = "stopped"

\* What gdb wrote last, or the mirror once all is handled, says what the process does.
LastWord(w) ==
    w.gdb.deaths = 0 =>
        /\ w.gdb.up
        /\ w.intake = <<>> => Agrees(w.st.runState, w.gdb.process)
        /\ w.intake # <<>> => Says(w.intake[Len(w.intake)], w.gdb.process)

\* The stack the mirror keeps is that of the stop it says, and of those still queued up to
\* the next resume, which is queued if the program runs.
StackRead(w) ==
    "stepLine" \notin Kinds =>
        /\ w.st.stepping = 0
        /\ w.st.frames # 0 =>
              /\ w.st.runState = "stopped"
              /\ w.st.deferred = "none"
              /\ w.st.frames >= w.st.stopSeq
              /\ \A i \in 1 .. Len(w.intake) : w.intake[i].kind = "stopped" =>
                    \/ w.st.frames >= w.intake[i].number
                    \/ \E j \in 1 .. Len(w.intake) : j < i /\ w.intake[j].kind = "running"
              /\ IsUp(w.gdb.process) =>
                    \E j \in 1 .. Len(w.intake) : w.intake[j].kind = "running"

\* The stack is of the gdb that is up: read at a stop after that gdb was born.
StackOfThis(w) ==
    /\ w.gdb.born <= w.gdb.stops
    /\ w.gdb.process = "stopped" => w.gdb.born < w.gdb.stops
    /\ w.st.frames = 0 \/ w.gdb.born < w.st.frames

\* Between two stops the program was resumed, and gdb said so.
Spaced(w) ==
    w.gdb.deaths = 0 =>
        /\ \A i \in 1 .. Len(w.intake) : LiveStop(w.intake[i]) => Led(w.intake, TRUE, i)
        /\ IsUp(w.gdb.process) => Led(w.intake, Running(w), Len(w.intake) + 1)

\* The last stop in the queue, if no exit follows it, was led by a resume in the queue or
\* by a mirror that says running, and its process is still there.
LastStop(w) ==
    w.gdb.deaths = 0 =>
        \A i \in 1 .. Len(w.intake) :
            /\ LiveStop(w.intake[i])
            /\ \A k \in 1 .. Len(w.intake) : i < k => ~Ending(w.intake[k])
            => Led(w.intake, Running(w), i) /\ w.gdb.process # "none"

\* A deferred start is cleared by the first stop of its process.
Entry(w) == w.st.deferred # "none" => w.st.stopSeq <= w.gdb.begun

\* What holds whenever nothing but commands and records changed the world.
Sound(w) ==
    /\ w \in Worlds
    /\ Numbered(w)
    /\ LastWord(w)
    /\ StackRead(w)
    /\ StackOfThis(w)
    /\ Spaced(w)
    /\ LastStop(w)
    /\ Entry(w)

-----------------------------------------------------------------------------
(* No move of gdb disturbs it.                                             *)

\* Being led does not depend on what is written later.
LEMMA LedExtends ==
    ASSUME NEW q, NEW p, Len(q) \in Nat, Len(p) \in Nat, Extends(q, p),
           NEW running, NEW i \in 1 .. Len(q) + 1, Led(q, running, i)
    PROVE  Led(p, running, i)
<1> DEFINE m == Len(q)
           n == Len(p)
<1>1. m \in Nat /\ n \in Nat /\ m <= n /\ \A k \in 1 .. m : p[k] = q[k]
  BY DEF Extends
<1>2. PICK j \in 0 .. m :
          /\ j < i
          /\ IF j = 0 THEN running ELSE q[j].kind = "running"
          /\ \A k \in 1 .. m : j < k /\ k < i => ~Ending(q[k])
  BY DEF Led
<1>3. i \in 1 .. m + 1
  OBVIOUS
<1> HIDE DEF m, n
<1>4. IF j = 0 THEN running ELSE p[j].kind = "running"
  BY <1>1, <1>2
<1>5. ASSUME NEW k \in 1 .. n, j < k, k < i PROVE ~Ending(p[k])
  BY <1>1, <1>2, <1>3, <1>5
<1>6. j \in 0 .. n
  BY <1>1
<1> QED
  BY <1>2, <1>4, <1>5, <1>6 DEF Led, n

\* A record that says so leads whatever comes right after it.
LEMMA LedByLast ==
    ASSUME NEW p, NEW m \in Nat, Len(p) = m, m >= 1, IsRunning(p, m), NEW running
    PROVE  Led(p, running, m + 1)
<1>1. m \in 0 .. Len(p) /\ m < m + 1 /\ m # 0
  OBVIOUS
<1>2. \A k \in 1 .. Len(p) : ~(m < k /\ k < m + 1)
  OBVIOUS
<1> QED
  BY <1>1, <1>2 DEF Led, IsRunning

\* What all moves have in common, and what each does; n and m are the lengths of
\* the queue before and after it.
Shape(w, v, q, p, n, m) ==
    /\ Kept(w, v)
    /\ n \in Nat /\ m \in Nat /\ n <= m /\ Extends(q, p)
    /\ \A i \in 1 .. n : p[i] = q[i]
    /\ \/ Idled(w, v) /\ p = q /\ m = n
       \/ Resumed(w, v) /\ m = n + 1 /\ IsRunning(p, n + 1)
       \/ Ended(w, v) /\ m = n + 1 /\ IsGone(p, n + 1)
       \/ Began(w, v) /\ m = n + 2 /\ IsStarted(p, n + 1) /\ IsRunning(p, n + 2)
       \/ BeganAnew(w, v) /\ m = n + 3 /\ IsGone(p, n + 1) /\ IsStarted(p, n + 2)
          /\ IsRunning(p, n + 3)
       \/ Stopped(w, v) /\ m = n + 1 /\ IsStop(p, n + 1, w.gdb.stops + 1)
       \/ Exited(w, v) /\ m = n + 2 /\ IsGone(p, n + 1) /\ IsExit(p, n + 2, w.gdb.stops + 1)

\* Every move has that shape.
LEMMA MoveShapes ==
    ASSUME NEW w \in Worlds, NEW v, Moved(w, v), NEW q, NEW p, NEW n, NEW m,
           q = w.intake, p = v.intake, n = Len(q), m = Len(p)
    PROVE  Shape(w, v, q, p, n, m)
<1>1. Kept(w, v) /\ v \in Worlds
  BY DEF Moved, Kept
<1>2. q \in Seq(Records) /\ p \in Seq(Records)
  BY <1>1 DEF Worlds
<1>3. n \in Nat /\ m \in Nat
  BY <1>2
<1>4. Extends(q, q)
  BY <1>3 DEF Extends
<1>5. \/ Idled(w, v) /\ p = q /\ m = n /\ Extends(q, p)
      \/ Resumed(w, v) /\ m = n + 1 /\ IsRunning(p, n + 1) /\ Extends(q, p)
      \/ Ended(w, v) /\ m = n + 1 /\ IsGone(p, n + 1) /\ Extends(q, p)
      \/ Began(w, v) /\ m = n + 2 /\ IsStarted(p, n + 1) /\ IsRunning(p, n + 2)
         /\ Extends(q, p)
      \/ BeganAnew(w, v) /\ m = n + 3 /\ IsGone(p, n + 1) /\ IsStarted(p, n + 2)
         /\ IsRunning(p, n + 3) /\ Extends(q, p)
      \/ Stopped(w, v) /\ m = n + 1 /\ IsStop(p, n + 1, w.gdb.stops + 1) /\ Extends(q, p)
      \/ Exited(w, v) /\ m = n + 2 /\ IsGone(p, n + 1)
         /\ IsExit(p, n + 2, w.gdb.stops + 1) /\ Extends(q, p)
  <2>1. Idled(w, v) => p = q /\ m = n /\ Extends(q, p)
    BY <1>4 DEF Idled
  <2>2. /\ Resumed(w, v) => Extends(q, p) /\ m = n + 1 /\ IsRunning(p, n + 1)
        /\ Ended(w, v) => Extends(q, p) /\ m = n + 1 /\ IsGone(p, n + 1)
        /\ Began(w, v) => Extends(q, p) /\ m = n + 2 /\ IsStarted(p, n + 1)
                          /\ IsRunning(p, n + 2)
        /\ BeganAnew(w, v) => Extends(q, p) /\ m = n + 3 /\ IsGone(p, n + 1)
                              /\ IsStarted(p, n + 2) /\ IsRunning(p, n + 3)
        /\ Stopped(w, v) => Extends(q, p) /\ m = n + 1
                            /\ IsStop(p, n + 1, w.gdb.stops + 1)
        /\ Exited(w, v) => Extends(q, p) /\ m = n + 2 /\ IsGone(p, n + 1)
                           /\ IsExit(p, n + 2, w.gdb.stops + 1)
    <3>1. Writes(w, v, q, p, n)
      BY <1>1, Written, Zenon
    <3> QED
      BY <3>1 DEF Writes
  <2> QED
    BY <2>1, <2>2 DEF Moved
<1>6. n <= m /\ \A i \in 1 .. n : p[i] = q[i]
  BY <1>3, <1>5 DEF Extends
<1> QED
  BY <1>1, <1>3, <1>5, <1>6 DEF Shape

\* The types that arithmetic needs.
LEMMA WorldTypes ==
    ASSUME NEW w \in Worlds
    PROVE  /\ w.st.stopSeq \in Nat /\ w.st.frames \in Nat /\ w.st.stepping \in Nat
           /\ w.st.runState \in RunStates
           /\ w.st.deferred \in {"none", "resume", "stop"}
           /\ w.gdb.stops \in Nat /\ w.gdb.born \in Nat /\ w.gdb.begun \in Nat
           /\ w.gdb.deaths \in Nat /\ w.gdb.overtaken \in BOOLEAN /\ w.gdb.up \in BOOLEAN
           /\ w.gdb.process \in {"none", "stopped", "stepping", "running"}
           /\ w.intake \in Seq(Records) /\ Len(w.intake) \in Nat
           /\ \A i \in 1 .. Len(w.intake) : w.intake[i] \in Records
                                            /\ w.intake[i].number \in Nat
<1>1. w.intake \in Seq(Records)
  BY DEF Worlds
<1>2. \A i \in 1 .. Len(w.intake) : w.intake[i] \in Records
  BY <1>1
<1>3. \A rec \in Records : rec.number \in Nat
  BY DEF Records
<1>4. \A i \in 1 .. Len(w.intake) : w.intake[i] \in Records /\ w.intake[i].number \in Nat
  BY <1>2, <1>3
<1> QED
  BY <1>1, <1>4, SMTT(30) DEF Worlds, Mirrors, Gdbs

\* gdb's moves keep the stops of the queue in the order they happened, past the mirror's.
LEMMA NumberedMoves ==
    ASSUME NEW w \in Worlds, NEW v, Moved(w, v), Numbered(w)
    PROVE  Numbered(v)
<1> DEFINE q == w.intake
           p == v.intake
           n == Len(q)
           m == Len(p)
           a == w.gdb.stops
           b == v.gdb.stops
           t == w.st.stopSeq
<1>1. a \in Nat /\ t \in Nat /\ \A i \in 1 .. n : q[i].number \in Nat
  BY WorldTypes
<1>2. Shape(w, v, q, p, n, m)
  BY MoveShapes, Zenon
<1>3. v.st = w.st
  BY <1>2 DEF Kept, Shape
<1>4. /\ t <= a
      /\ \A i \in 1 .. n : q[i].kind = "stopped" => t < q[i].number /\ q[i].number <= a
      /\ \A i, j \in 1 .. n : i < j /\ q[i].kind = "stopped" /\ q[j].kind = "stopped" =>
             q[i].number < q[j].number
  BY DEF Numbered
<1>5. SUFFICES /\ t <= b
               /\ \A i \in 1 .. m : p[i].kind = "stopped" => t < p[i].number /\ p[i].number <= b
               /\ \A i, j \in 1 .. m : i < j /\ p[i].kind = "stopped" /\ p[j].kind = "stopped" =>
                      p[i].number < p[j].number
  BY <1>3 DEF Numbered
<1>6. /\ b = a /\ \A i \in n + 1 .. m : p[i].kind # "stopped"
      \/ /\ b = a + 1 /\ m >= n + 1 /\ p[m].kind = "stopped" /\ p[m].number = a + 1
         /\ \A i \in n + 1 .. m - 1 : p[i].kind # "stopped"
  <2> HIDE DEF q, p, n, m, a, b
  <2>1. CASE Idled(w, v) /\ m = n
    BY <1>2, <2>1 DEF Idled, Shape, a, b
  <2>2. CASE Resumed(w, v) /\ m = n + 1 /\ IsRunning(p, n + 1)
    BY <1>2, <2>2 DEF Resumed, IsRunning, Shape, a, b
  <2>3. CASE Ended(w, v) /\ m = n + 1 /\ IsGone(p, n + 1)
    BY <1>2, <2>3 DEF Ended, IsGone, Shape, a, b
  <2>4. CASE Began(w, v) /\ m = n + 2 /\ IsStarted(p, n + 1) /\ IsRunning(p, n + 2)
    BY <1>2, <2>4 DEF Began, IsStarted, IsRunning, Shape, a, b
  <2>5. CASE BeganAnew(w, v) /\ m = n + 3 /\ IsGone(p, n + 1) /\ IsStarted(p, n + 2)
             /\ IsRunning(p, n + 3)
    BY <1>2, <2>5, SMTT(30) DEF BeganAnew, IsGone, IsStarted, IsRunning, Shape, a, b
  <2>6. CASE Stopped(w, v) /\ m = n + 1 /\ IsStop(p, n + 1, a + 1)
    BY <1>2, <2>6 DEF Stopped, IsStop, Shape, a, b
  <2>7. CASE Exited(w, v) /\ m = n + 2 /\ IsGone(p, n + 1) /\ IsExit(p, n + 2, a + 1)
    BY <1>2, <2>7 DEF Exited, IsGone, IsExit, Shape, a, b
  <2> QED
    BY <1>2, <2>1, <2>2, <2>3, <2>4, <2>5, <2>6, <2>7 DEF Shape, a
<1>7. n \in Nat /\ m \in Nat /\ n <= m /\ \A i \in 1 .. n : p[i] = q[i]
  BY <1>2 DEF Shape
<1> HIDE DEF q, p, n, m, a, b, t
<1>8. CASE b = a /\ \A i \in n + 1 .. m : p[i].kind # "stopped"
  <2>1. ASSUME NEW i \in 1 .. m, p[i].kind = "stopped" PROVE i \in 1 .. n /\ p[i] = q[i]
    BY <1>7, <1>8, <2>1
  <2> QED
    BY <1>4, <1>8, <2>1
<1>9. CASE /\ b = a + 1 /\ m >= n + 1 /\ p[m].kind = "stopped" /\ p[m].number = a + 1
           /\ \A i \in n + 1 .. m - 1 : p[i].kind # "stopped"
  <2>1. ASSUME NEW i \in 1 .. m, p[i].kind = "stopped", i # m
        PROVE  i \in 1 .. n /\ p[i] = q[i]
    BY <1>7, <1>9, <2>1
  <2>2. t <= b
    BY <1>1, <1>4, <1>9
  <2>3. ASSUME NEW i \in 1 .. m, p[i].kind = "stopped" PROVE t < p[i].number /\ p[i].number <= b
    BY <1>1, <1>4, <1>9, <2>1, <2>3
  <2>4. ASSUME NEW i \in 1 .. m, NEW j \in 1 .. m, i < j, p[i].kind = "stopped",
               p[j].kind = "stopped"
        PROVE  p[i].number < p[j].number
    <3>1. i \in 1 .. n /\ p[i] = q[i]
      BY <1>7, <2>1, <2>4
    <3>2. CASE j = m
      BY <1>1, <1>4, <1>9, <2>4, <3>1, <3>2
    <3>3. CASE j # m
      BY <1>4, <2>1, <2>4, <3>1, <3>3
    <3> QED
      BY <3>2, <3>3
  <2> QED
    BY <2>2, <2>3, <2>4
<1> QED
  BY <1>6, <1>8, <1>9

\* gdb's moves keep the last record about the state the process is in.
LEMMA LastWordMoves ==
    ASSUME NEW w \in Worlds, NEW v, Moved(w, v), LastWord(w)
    PROVE  LastWord(v)
<1> DEFINE q == w.intake
           p == v.intake
           n == Len(q)
           m == Len(p)
<1>1. Shape(w, v, q, p, n, m)
  BY MoveShapes, Zenon
<1>2. v.st = w.st /\ v.gdb.deaths = w.gdb.deaths /\ v.gdb.up = w.gdb.up /\ v \in Worlds
  BY <1>1 DEF Shape, Kept
<1>3. (p = <<>> <=> m = 0) /\ n \in Nat
  <2>1. p \in Seq(Records) /\ q \in Seq(Records)
    BY <1>2 DEF Worlds
  <2> QED
    BY <2>1
<1>4. CASE Idled(w, v) /\ p = q
  BY <1>2, <1>4 DEF LastWord, Idled
<1>5. CASE m >= 1 /\ Says(p[m], v.gdb.process)
  BY <1>2, <1>3, <1>5 DEF LastWord
<1>6. \/ Idled(w, v) /\ p = q
      \/ m >= 1 /\ Says(p[m], v.gdb.process)
  <2> HIDE DEF q, p, n, m
  <2>1. CASE Idled(w, v) /\ p = q
    BY <2>1
  <2>2. CASE Resumed(w, v) /\ m = n + 1 /\ IsRunning(p, n + 1)
    BY <1>3, <2>2 DEF Resumed, IsRunning, Says, LiveStop, Alive, IsUp
  <2>3. CASE Ended(w, v) /\ m = n + 1 /\ IsGone(p, n + 1)
    BY <1>3, <2>3 DEF Ended, IsGone, Says, LiveStop
  <2>4. CASE Began(w, v) /\ m = n + 2 /\ IsRunning(p, n + 2)
    BY <1>3, <2>4 DEF Began, IsRunning, Says, LiveStop, Alive, IsUp
  <2>5. CASE BeganAnew(w, v) /\ m = n + 3 /\ IsRunning(p, n + 3)
    BY <1>3, <2>5 DEF BeganAnew, IsRunning, Says, LiveStop, Alive, IsUp
  <2>6. CASE Stopped(w, v) /\ m = n + 1 /\ IsStop(p, n + 1, w.gdb.stops + 1)
    BY <1>3, <2>6 DEF Stopped, IsStop, Says, LiveStop
  <2>7. CASE Exited(w, v) /\ m = n + 2 /\ IsExit(p, n + 2, w.gdb.stops + 1)
    BY <1>3, <2>7 DEF Exited, IsExit, Says, LiveStop
  <2> QED
    BY <1>1, <2>1, <2>2, <2>3, <2>4, <2>5, <2>6, <2>7 DEF Shape
<1> QED
  BY <1>4, <1>5, <1>6

\* gdb's moves keep a stack as new as the stops to come, up to the next resume.
LEMMA StackReadMoves ==
    ASSUME NEW w \in Worlds, NEW v, Moved(w, v), StackRead(w)
    PROVE  StackRead(v)
<1> DEFINE q == w.intake
           p == v.intake
           n == Len(q)
           m == Len(p)
           f == w.st.frames
           up == IsUp(v.gdb.process)
<1>1. Shape(w, v, q, p, n, m)
  BY MoveShapes, Zenon
<1>2. v.st = w.st
  BY <1>1 DEF Shape, Kept
<1>3. n \in Nat /\ m \in Nat /\ n <= m /\ \A i \in 1 .. n : p[i] = q[i]
  BY <1>1 DEF Shape
<1> SUFFICES ASSUME "stepLine" \notin Kinds, f # 0
             PROVE  /\ \A i \in 1 .. m : p[i].kind = "stopped" =>
                          \/ f >= p[i].number
                          \/ \E j \in 1 .. m : j < i /\ p[j].kind = "running"
                    /\ up => \E j \in 1 .. m : p[j].kind = "running"
  BY <1>2 DEF StackRead
<1>4. /\ \A i \in 1 .. n : q[i].kind = "stopped" =>
             \/ f >= q[i].number
             \/ \E j \in 1 .. n : j < i /\ q[j].kind = "running"
      /\ IsUp(w.gdb.process) => \E j \in 1 .. n : q[j].kind = "running"
  BY DEF StackRead
<1>5. \/ /\ \A i \in n + 1 .. m : p[i].kind # "stopped"
         /\ up => IsUp(w.gdb.process) \/ (m >= n + 1 /\ p[m].kind = "running")
      \/ IsUp(w.gdb.process) /\ ~up
  <2> HIDE DEF q, p, n, m
  <2>1. CASE Idled(w, v) /\ m = n
    BY <1>3, <2>1 DEF Idled
  <2>2. CASE Resumed(w, v) /\ m = n + 1 /\ IsRunning(p, n + 1)
    BY <1>3, <2>2 DEF Resumed, IsRunning
  <2>3. CASE Ended(w, v) /\ m = n + 1 /\ IsGone(p, n + 1)
    BY <1>3, <2>3 DEF Ended, IsGone, IsUp
  <2>4. CASE Began(w, v) /\ m = n + 2 /\ IsStarted(p, n + 1) /\ IsRunning(p, n + 2)
    BY <1>3, <2>4 DEF Began, IsStarted, IsRunning
  <2>5. CASE BeganAnew(w, v) /\ m = n + 3 /\ IsGone(p, n + 1) /\ IsStarted(p, n + 2)
             /\ IsRunning(p, n + 3)
    BY <1>3, <2>5 DEF BeganAnew, IsGone, IsStarted, IsRunning
  <2>6. CASE Stopped(w, v)
    BY <2>6 DEF Stopped, Alive, IsUp
  <2>7. CASE Exited(w, v)
    BY <2>7 DEF Exited, Alive, IsUp
  <2> QED
    BY <1>1, <2>1, <2>2, <2>3, <2>4, <2>5, <2>6, <2>7 DEF Shape
<1> HIDE DEF q, p, n, m, up, f
<1>6. ASSUME NEW i \in 1 .. m, p[i].kind = "stopped", i \in 1 .. n
      PROVE  f >= p[i].number \/ \E j \in 1 .. m : j < i /\ p[j].kind = "running"
  <2>1. p[i] = q[i]
    BY <1>3, <1>6
  <2>2. CASE f >= q[i].number
    BY <2>1, <2>2
  <2>3. CASE \E j \in 1 .. n : j < i /\ q[j].kind = "running"
    <3>1. PICK j \in 1 .. n : j < i /\ q[j].kind = "running"
      BY <2>3
    <3>2. j \in 1 .. m /\ p[j].kind = "running"
      BY <1>3, <3>1
    <3> QED
      BY <3>1, <3>2
  <2> QED
    BY <1>4, <1>6, <2>1, <2>2, <2>3
<1>7. ASSUME IsUp(w.gdb.process) PROVE \E j \in 1 .. n : p[j].kind = "running"
  BY <1>3, <1>4, <1>7
<1>8. CASE /\ \A i \in n + 1 .. m : p[i].kind # "stopped"
           /\ up => IsUp(w.gdb.process) \/ (m >= n + 1 /\ p[m].kind = "running")
  <2>1. \A i \in 1 .. m : p[i].kind = "stopped" => i \in 1 .. n
    BY <1>3, <1>8
  <2>2. up => \E j \in 1 .. m : p[j].kind = "running"
    BY <1>3, <1>7, <1>8
  <2> QED
    BY <1>6, <2>1, <2>2
<1>9. CASE IsUp(w.gdb.process) /\ ~up
  <2>1. PICK j \in 1 .. n : p[j].kind = "running"
    BY <1>7, <1>9
  <2>2. j \in 1 .. m /\ \A i \in 1 .. m : i \notin 1 .. n => j < i
    BY <1>3
  <2> QED
    BY <1>6, <1>9, <2>1, <2>2
<1> QED
  BY <1>5, <1>8, <1>9

\* gdb's moves keep a stack that of this gdb.
LEMMA StackOfThisMoves ==
    ASSUME NEW w \in Worlds, NEW v, Moved(w, v), StackOfThis(w)
    PROVE  StackOfThis(v)
<1>1. v.st = w.st /\ v.gdb.born = w.gdb.born /\ w.gdb.stops \in Nat /\ w.gdb.born \in Nat
  BY WorldTypes DEF Moved, Kept
<1>2. \/ v.gdb.stops = w.gdb.stops /\ v.gdb.process = w.gdb.process
      \/ v.gdb.stops = w.gdb.stops /\ v.gdb.process # "stopped"
      \/ v.gdb.stops = w.gdb.stops + 1
  BY DEF Moved, Idled, Resumed, Ended, Began, BeganAnew, Stopped, Exited, Alive
<1> QED
  BY <1>1, <1>2 DEF StackOfThis

\* gdb's moves keep a deferred start one of the present process, or of an earlier one.
LEMMA EntryMoves ==
    ASSUME NEW w \in Worlds, NEW v, Moved(w, v), Entry(w), Numbered(w)
    PROVE  Entry(v)
<1>1. v.st = w.st /\ w.st.stopSeq <= w.gdb.stops
  BY DEF Moved, Kept, Numbered
<1>2. v.gdb.begun = w.gdb.begun \/ v.gdb.begun = w.gdb.stops
  BY DEF Moved, Idled, Resumed, Ended, Began, BeganAnew, Stopped, Exited
<1> QED
  BY <1>1, <1>2 DEF Entry

\* How a move bears on the stretches the program runs for.
Stretch(w, v, p, n, m) ==
    \/ /\ m = n
       /\ v.gdb.process = w.gdb.process
    \/ /\ m >= n + 1
       /\ IsRunning(p, m)
       /\ IsUp(v.gdb.process)
       /\ w.gdb.process # "none" \/ \A i \in n + 1 .. m : ~Ending(p[i])
       /\ \A i \in n + 1 .. m : ~LiveStop(p[i])
    \/ /\ m = n + 1
       /\ IsUp(w.gdb.process)
       /\ LiveStop(p[m])
       /\ v.gdb.process = "stopped"
    \/ /\ m >= n + 1
       /\ w.gdb.process # "none"
       /\ v.gdb.process = "none"
       /\ Ending(p[m])
       /\ \A i \in n + 1 .. m : ~LiveStop(p[i])

\* Every move does one of these.
LEMMA MoveStretches ==
    ASSUME NEW w \in Worlds, NEW v, NEW q, NEW p, NEW n, NEW m, Shape(w, v, q, p, n, m)
    PROVE  Stretch(w, v, p, n, m)
<1>1. n \in Nat /\ m \in Nat
  BY DEF Shape
<1>2. CASE Idled(w, v) /\ m = n
  BY <1>2 DEF Idled, Stretch
<1>3. CASE Resumed(w, v) /\ m = n + 1 /\ IsRunning(p, n + 1)
  BY <1>1, <1>3 DEF Resumed, IsRunning, LiveStop, Ending, Stretch, Alive, IsUp
<1>4. CASE Ended(w, v) /\ m = n + 1 /\ IsGone(p, n + 1)
  BY <1>1, <1>4 DEF Ended, IsGone, LiveStop, Ending, Stretch
<1>5. CASE Began(w, v) /\ m = n + 2 /\ IsStarted(p, n + 1) /\ IsRunning(p, n + 2)
  BY <1>1, <1>5 DEF Began, IsStarted, IsRunning, LiveStop, Ending, Stretch, Alive, IsUp
<1>6. CASE BeganAnew(w, v) /\ m = n + 3 /\ IsGone(p, n + 1) /\ IsStarted(p, n + 2)
           /\ IsRunning(p, n + 3)
  <2>1. \A i \in n + 1 .. m : i = n + 1 \/ i = n + 2 \/ i = n + 3
    BY <1>1, <1>6
  <2>2. \A i \in n + 1 .. m : ~LiveStop(p[i])
    BY <1>6, <2>1 DEF IsGone, IsStarted, IsRunning, LiveStop
  <2> QED
    BY <1>1, <1>6, <2>2 DEF BeganAnew, Stretch, Alive, IsUp
<1>7. CASE Stopped(w, v) /\ m = n + 1 /\ IsStop(p, n + 1, w.gdb.stops + 1)
  BY <1>1, <1>7 DEF Stopped, IsStop, LiveStop, Stretch, Alive, IsUp
<1>8. CASE Exited(w, v) /\ m = n + 2 /\ IsGone(p, n + 1) /\ IsExit(p, n + 2, w.gdb.stops + 1)
  <2>1. \A i \in n + 1 .. m : i = n + 1 \/ i = n + 2
    BY <1>1, <1>8
  <2>2. \A i \in n + 1 .. m : ~LiveStop(p[i])
    BY <1>8, <2>1 DEF IsGone, IsExit, LiveStop
  <2>3. Ending(p[m])
    BY <1>8 DEF IsExit, Ending
  <2> QED
    BY <1>1, <1>8, <2>2, <2>3 DEF Exited, Stretch, Alive, IsUp
<1> QED
  BY <1>2, <1>3, <1>4, <1>5, <1>6, <1>7, <1>8 DEF Shape

\* gdb's moves keep a resume between one stop and the next.
LEMMA SpacedMoves ==
    ASSUME NEW w \in Worlds, NEW v, Moved(w, v), Spaced(w)
    PROVE  Spaced(v)
<1> DEFINE q == w.intake
           p == v.intake
           n == Len(q)
           m == Len(p)
           r == Running(w)
           yes == TRUE
<1>1. Shape(w, v, q, p, n, m)
  BY MoveShapes, Zenon
<1>2. v.st = w.st /\ v.gdb.deaths = w.gdb.deaths
  BY <1>1 DEF Shape, Kept
<1>3. n \in Nat /\ m \in Nat /\ n <= m /\ \A i \in 1 .. n : p[i] = q[i]
  BY <1>1 DEF Shape
<1>4. Stretch(w, v, p, n, m)
  BY <1>1, MoveStretches, Zenon
<1> SUFFICES ASSUME w.gdb.deaths = 0
             PROVE  /\ \A i \in 1 .. m : LiveStop(p[i]) => Led(p, yes, i)
                    /\ IsUp(v.gdb.process) => Led(p, r, m + 1)
  BY <1>2 DEF Spaced, Running
<1>5. /\ \A i \in 1 .. n : LiveStop(q[i]) => Led(q, yes, i)
      /\ IsUp(w.gdb.process) => Led(q, r, n + 1)
  BY DEF Spaced
<1>6. ASSUME NEW i \in 1 .. n + 1
      PROVE  (Led(q, r, i) => Led(p, r, i)) /\ (Led(q, yes, i) => Led(p, yes, i))
  <2> HIDE DEF yes, r
  <2>1. Extends(q, p)
    BY <1>1 DEF Shape
  <2> QED
    BY <1>3, <2>1, LedExtends
<1>7. ASSUME IsRunning(p, m), m >= 1 PROVE Led(p, r, m + 1)
  BY <1>3, <1>7, LedByLast
<1>8. Led(p, r, n + 1) => Led(p, yes, n + 1)
  BY DEF Led
<1> HIDE DEF q, p, n, m, r, yes
<1>9. ASSUME NEW i \in 1 .. n, LiveStop(p[i]) PROVE Led(p, yes, i)
  BY <1>3, <1>5, <1>6, <1>9
<1>10. CASE m = n /\ v.gdb.process = w.gdb.process
  BY <1>3, <1>5, <1>6, <1>9, <1>10
<1>11. CASE /\ m >= n + 1 /\ IsRunning(p, m)
            /\ \A i \in n + 1 .. m : ~LiveStop(p[i])
  BY <1>3, <1>7, <1>9, <1>11
<1>12. CASE m = n + 1 /\ IsUp(w.gdb.process) /\ v.gdb.process = "stopped"
  BY <1>3, <1>5, <1>6, <1>8, <1>9, <1>12 DEF IsUp
<1>13. CASE v.gdb.process = "none" /\ \A i \in n + 1 .. m : ~LiveStop(p[i])
  BY <1>3, <1>9, <1>13 DEF IsUp
<1> QED
  BY <1>4, <1>10, <1>11, <1>12, <1>13 DEF Stretch

\* gdb's moves keep the last stop in the queue led by a resume, or by a running mirror.
LEMMA LastStopMoves ==
    ASSUME NEW w \in Worlds, NEW v, Moved(w, v), LastStop(w), Spaced(w)
    PROVE  LastStop(v)
<1> DEFINE q == w.intake
           p == v.intake
           n == Len(q)
           m == Len(p)
           r == Running(w)
<1>1. Shape(w, v, q, p, n, m)
  BY MoveShapes, Zenon
<1>2. v.st = w.st /\ v.gdb.deaths = w.gdb.deaths
  BY <1>1 DEF Shape, Kept
<1>3. n \in Nat /\ m \in Nat /\ n <= m /\ \A i \in 1 .. n : p[i] = q[i]
  BY <1>1 DEF Shape
<1>4. Stretch(w, v, p, n, m)
  BY <1>1, MoveStretches, Zenon
<1> SUFFICES ASSUME w.gdb.deaths = 0, NEW i \in 1 .. m, LiveStop(p[i]),
                    \A k \in 1 .. m : i < k => ~Ending(p[k])
             PROVE  Led(p, r, i) /\ v.gdb.process # "none"
  BY <1>2 DEF LastStop, Running
<1>5. /\ \A j \in 1 .. n : LiveStop(q[j]) /\ (\A k \in 1 .. n : j < k => ~Ending(q[k])) =>
             Led(q, r, j) /\ w.gdb.process # "none"
      /\ IsUp(w.gdb.process) => Led(q, r, n + 1)
  BY DEF LastStop, Spaced
<1>6. ASSUME NEW j \in 1 .. n + 1, Led(q, r, j) PROVE Led(p, r, j)
  BY <1>1, <1>3, <1>6, LedExtends DEF Shape
<1> HIDE DEF q, p, n, m, r
<1>7. ASSUME i \in 1 .. n PROVE Led(p, r, i) /\ w.gdb.process # "none"
  <2>1. LiveStop(q[i]) /\ \A k \in 1 .. n : i < k => ~Ending(q[k])
    BY <1>3, <1>7
  <2> QED
    BY <1>3, <1>5, <1>6, <1>7, <2>1
<1>8. CASE m = n /\ v.gdb.process = w.gdb.process
  BY <1>7, <1>8
<1>9. CASE /\ IsUp(v.gdb.process)
           /\ \A k \in n + 1 .. m : ~LiveStop(p[k])
  BY <1>3, <1>7, <1>9 DEF IsUp
<1>10. CASE m = n + 1 /\ IsUp(w.gdb.process) /\ v.gdb.process = "stopped"
  BY <1>3, <1>5, <1>6, <1>7, <1>10
<1>11. CASE /\ m >= n + 1 /\ Ending(p[m]) /\ \A k \in n + 1 .. m : ~LiveStop(p[k])
  BY <1>3, <1>11
<1> QED
  BY <1>4, <1>8, <1>9, <1>10, <1>11 DEF Stretch

\* gdb's moves keep a world sound.
LEMMA SoundMoves ==
    ASSUME NEW w, NEW v, Sound(w), Moved(w, v)
    PROVE  Sound(v)
<1>1. w \in Worlds /\ v \in Worlds
  BY DEF Sound, Moved, Kept
<1> QED
  BY <1>1, NumberedMoves, LastWordMoves, StackReadMoves, StackOfThisMoves, SpacedMoves,
     LastStopMoves, EntryMoves DEF Sound

-----------------------------------------------------------------------------
(* What the handlers do, as chains of commands and changes of the mirror.   *)

\* A resume: the command, then setRunning if it succeeded.
LEMMA ResumeChain ==
    ASSUME NEW w, NEW how, NEW v \in ExecResume(w, how)
    PROVE  \E r \in Send(w, how) : v = IF r.ok THEN SetRunning(r.w) ELSE r.w
BY DEF ExecResume, SendThen

\* A run: the command, then the deferred start and setRunning if it succeeded.
LEMMA RunChain ==
    ASSUME NEW w, NEW v \in ExecRun(w)
    PROVE  \E r \in Send(w, "start") :
               \/ ~r.ok /\ v = r.w
               \/ r.ok /\ \E mode \in StartModes : v = SetRunning([r.w EXCEPT !.st.deferred = mode])
BY DEF ExecRun, SendThen

\* A kill: the command, then setExited if it succeeded.
LEMMA KillChain ==
    ASSUME NEW w, NEW v \in ExecKill(w)
    PROVE  \/ v = w
           \/ \E r \in Send(w, "kill") : v = IF r.ok THEN SetExited(r.w, 0, 0) ELSE r.w
BY DEF ExecKill, SendThen

\* What is left of the mirror when another file has been loaded.
Loaded(w, file) ==
    [w EXCEPT !.st.exe = file,
              !.st.runState = "noProgram",
              !.st.frames = 0,
              !.shown.runState = "noProgram"]

\* A load: the file, the directory, and the mirror's reset if both succeeded.
LEMMA LoadChain ==
    ASSUME NEW w, NEW file, NEW v \in ExeLoad(w, file)
    PROVE  \E r \in Send(w, file) :
               \/ ~r.ok /\ v = r.w
               \/ r.ok /\ \E s \in Send(r.w, "cd") : v = IF s.ok THEN Loaded(s.w, file) ELSE s.w
<1> DEFINE Reset(u) == {[u EXCEPT !.st.exe = file,
                               !.st.runState = "noProgram",
                               !.st.frames = 0,
                               !.shown.runState = "noProgram"]}
           ChangeDirectory(u) == SendThen(u, "cd", Reset)
<1>1. ExeLoad(w, file) = SendThen(w, file, ChangeDirectory)
  BY DEF ExeLoad
<1>2. PICK r \in Send(w, file) : v \in IF r.ok THEN ChangeDirectory(r.w) ELSE {r.w}
  BY <1>1 DEF SendThen
<1> QED
  BY <1>2 DEF SendThen, Loaded

\* stepLine: the first step of a walk, or one without a walk.
LEMMA StepLineChain ==
    ASSUME NEW w, NEW v \in ExecStepLine(w)
    PROVE  \E left \in {0, MaxWalk} :
               \E r \in Send([w EXCEPT !.st.stepping = left], "step") :
                   v = IF r.ok THEN [r.w EXCEPT !.st.runState = "running"] ELSE EndWalk(r.w)
BY DEF ExecStepLine, InstructionStep

\* The mirror when a stop has been counted, as the rest of the handler finds it.
Counted(w) ==
    LET counted == [w EXCEPT !.st.stopSeq = @ + 1]
    IN [counted EXCEPT !.st.runState = "stopped"]

\* The same, with the deferred start over.
Halted(w) == [Counted(w) EXCEPT !.st.deferred = "none"]

\* A deferred start that goes on, and the worlds in which the stop is open.
Passed(w, v) ==
    /\ w.st.deferred = "resume"
    /\ \E r \in Send(Halted(w), "continue") : r.ok /\ v = [r.w EXCEPT !.st.runState = "running"]

Open(w, v) ==
    \/ v = Halted(w) /\ w.st.deferred # "resume"
    \/ w.st.deferred = "resume" /\ \E r \in Send(Halted(w), "continue") : ~r.ok /\ v = r.w

\* The stack is read, or cannot be.
Painted(w, v) ==
    \E r \in Send(w, "query") :
        v = IF r.ok THEN [r.w EXCEPT !.st.frames = r.w.gdb.stops] ELSE r.w

\* The walk goes on, or the stop is shown.
Reported(w, why, v) ==
    \/ \E u \in AdvanceStepLine(w, why).walks : v = [u EXCEPT !.st.runState = "running"]
    \/ \E u \in AdvanceStepLine(w, why).ends : v = EmitStopped(u)

\* A stop the program can be resumed from is passed by a deferred start, or it is left
\* open, its stack is read or not, and it is walked on from or shown.
LEMMA StopChain ==
    ASSUME NEW w \in Worlds, NEW rec, rec.why # "exited", NEW v \in OnStopped(w, rec)
    PROVE  \/ Passed(w, v)
           \/ \E f, g : Open(w, f) /\ Painted(f, g) /\ Reported(g, rec.why, v)
<1> DEFINE c == Counted(w)
           d == FinishDeferredStart(c)
           repainted == UNION {FetchFrames(u) : u \in d.open}
           Report(u) ==
               LET advance == AdvanceStepLine(u, rec.why)
               IN {[x EXCEPT !.st.runState = "running"] : x \in advance.walks}
                  \cup {EmitStopped(x) : x \in advance.ends}
<1>1. OnStopped(w, rec) = d.handled \cup UNION {Report(u) : u \in repainted}
  BY DEF OnStopped, Counted
<1>2. c.st.deferred = w.st.deferred
  BY DEF Counted, Worlds, Mirrors
<1>3. \A u \in d.handled : Passed(w, u)
  BY <1>2 DEF FinishDeferredStart, Passed, Halted
<1>4. \A f \in d.open : Open(w, f)
  BY <1>2 DEF FinishDeferredStart, Open, Halted
<1>5. \A f, g : g \in FetchFrames(f) => Painted(f, g)
  BY DEF FetchFrames, Painted
<1>6. \A g, u : u \in Report(g) => Reported(g, rec.why, u)
  BY DEF Reported
<1> HIDE DEF c, d, Report
<1>7. CASE v \in d.handled
  BY <1>3, <1>7
<1>8. CASE v \in UNION {Report(u) : u \in repainted}
  <2>1. PICK g \in repainted : v \in Report(g)
    BY <1>8
  <2>2. PICK f \in d.open : g \in FetchFrames(f)
    BY <2>1
  <2> QED
    BY <1>4, <1>5, <1>6, <2>1, <2>2
<1> QED
  BY <1>1, <1>7, <1>8

-----------------------------------------------------------------------------
(* What the changes of the mirror are.                                      *)

\* gdb and its queue are left alone; so is what the mirror counts with.
Mirrored(u, v) == v \in Worlds /\ v.gdb = u.gdb /\ v.intake = u.intake

\* Only run state, stack and what is known of the process change.
Steady(u, v) ==
    /\ Mirrored(u, v)
    /\ v.st.stopSeq = u.st.stopSeq
    /\ v.st.stepping = u.st.stepping
    /\ v.st.deferred = u.st.deferred
    /\ v.shown.stopSeq = u.shown.stopSeq

\* What setRunning leaves.
RunsNow(u, v) ==
    /\ Steady(u, v)
    /\ v.st.runState = "running"
    /\ IF u.st.runState = "running" THEN v = u
                                    ELSE v.st.frames = 0 /\ v.shown.runState = "running"

\* setRunning changes run state and stack and says so, unless the mirror says running already.
LEMMA SetRunningFacts ==
    ASSUME NEW u \in Worlds
    PROVE  RunsNow(u, SetRunning(u))
<1> DEFINE m == [u.st EXCEPT !.runState = "running", !.frames = 0]
           s == [u.shown EXCEPT !.runState = "running"]
           v == [u EXCEPT !.st = m, !.shown = s]
<1>1. CASE u.st.runState = "running"
  BY <1>1 DEF SetRunning, RunsNow, Steady, Mirrored
<1>2. CASE u.st.runState # "running"
  <2>1. SetRunning(u) = v
    BY <1>2 DEF SetRunning, Worlds
  <2>2. m \in Mirrors /\ m.runState = "running" /\ m.frames = 0 /\ m.stopSeq = u.st.stopSeq
        /\ m.stepping = u.st.stepping /\ m.deferred = u.st.deferred
    BY DEF Worlds, Mirrors, RunStates
  <2>3. s \in [runState : RunStates, stopSeq : Nat, code : Nat, signal : Nat]
        /\ s.runState = "running" /\ s.stopSeq = u.shown.stopSeq
    BY DEF Worlds, RunStates
  <2> HIDE DEF m, s
  <2>4. v \in Worlds /\ v.st = m /\ v.shown = s /\ v.gdb = u.gdb /\ v.intake = u.intake
    BY <2>2, <2>3 DEF Worlds
  <2> QED
    BY <1>2, <2>1, <2>2, <2>3, <2>4 DEF RunsNow, Steady, Mirrored
<1> QED
  BY <1>1, <1>2

\* What setExited leaves.
Quits(u, v) ==
    /\ Steady(u, v)
    /\ v.st.runState = "exited"
    /\ \/ /\ u.st.runState = "exited"
          /\ v.st.frames = u.st.frames
          /\ v.shown = u.shown
       \/ v.st.frames = 0 /\ v.shown.runState = "exited"

\* setExited leaves exited and either drops the stack and says so, or adds nothing new.
LEMMA SetExitedFacts ==
    ASSUME NEW u \in Worlds, NEW code \in Nat, NEW signal \in Nat
    PROVE  Quits(u, SetExited(u, code, signal))
<1> DEFINE c == IF code = 0 THEN u.st.exitCode ELSE code
           g == IF signal = 0 THEN u.st.exitSignal ELSE signal
           m == [u.st EXCEPT !.pid = 0, !.exitCode = c, !.exitSignal = g]
           n == [m EXCEPT !.runState = "exited", !.frames = 0]
           s == [u.shown EXCEPT !.runState = "exited", !.code = c, !.signal = g]
           a == [u EXCEPT !.st = m]
           b == [u EXCEPT !.st = n, !.shown = s]
           v == SetExited(u, code, signal)
<1> SUFFICES Quits(u, v)
  OBVIOUS
<1>1. (u.st.runState = "exited" /\ v = a) \/ v = b
  <2> DEFINE merged == [u EXCEPT !.st.pid = 0, !.st.exitCode = c, !.st.exitSignal = g]
  <2>1. merged = a
    BY DEF Worlds
  <2>2. \/ u.st.runState = "exited" /\ v = merged
        \/ v = [merged EXCEPT !.st.runState = "exited", !.st.frames = 0,
                              !.shown.runState = "exited", !.shown.code = c,
                              !.shown.signal = g]
    BY DEF SetExited
  <2> HIDE DEF merged, c, g
  <2>3. [a EXCEPT !.st.runState = "exited", !.st.frames = 0, !.shown.runState = "exited",
                  !.shown.code = c, !.shown.signal = g] = b
    <3>1. a.st = m /\ a.shown = u.shown
      BY DEF Worlds
    <3>2. [a EXCEPT !.st = n, !.shown = s] = b
      BY DEF Worlds
    <3> HIDE DEF a, m
    <3>3. [a EXCEPT !.st.runState = "exited", !.st.frames = 0, !.shown.runState = "exited",
                    !.shown.code = c, !.shown.signal = g]
          = [a EXCEPT !.st = [a.st EXCEPT !.runState = "exited", !.frames = 0],
                      !.shown = [a.shown EXCEPT !.runState = "exited", !.code = c,
                                                !.signal = g]]
      OBVIOUS
    <3> QED
      BY <3>1, <3>2, <3>3
  <2> QED
    BY <2>1, <2>2, <2>3
<1>2. c \in Nat /\ g \in Nat
  BY DEF Worlds, Mirrors
<1>3. m \in Mirrors /\ m.runState = u.st.runState /\ m.frames = u.st.frames
      /\ m.stopSeq = u.st.stopSeq /\ m.stepping = u.st.stepping /\ m.deferred = u.st.deferred
  BY <1>2 DEF Worlds, Mirrors
<1> HIDE DEF m
<1>4. n \in Mirrors /\ n.runState = "exited" /\ n.frames = 0
      /\ n.stopSeq = u.st.stopSeq /\ n.stepping = u.st.stepping /\ n.deferred = u.st.deferred
  BY <1>3 DEF Mirrors, RunStates
<1>5. s \in [runState : RunStates, stopSeq : Nat, code : Nat, signal : Nat]
      /\ s.runState = "exited" /\ s.stopSeq = u.shown.stopSeq
  BY <1>2 DEF Worlds, RunStates
<1> HIDE DEF n, s, c, g, v
<1>6. a \in Worlds /\ a.st = m /\ a.shown = u.shown /\ a.gdb = u.gdb /\ a.intake = u.intake
  BY <1>3 DEF Worlds
<1>7. b \in Worlds /\ b.st = n /\ b.shown = s /\ b.gdb = u.gdb /\ b.intake = u.intake
  BY <1>4, <1>5 DEF Worlds
<1> HIDE DEF a, b
<1>8. CASE u.st.runState = "exited" /\ v = a
  BY <1>3, <1>6, <1>8 DEF Quits, Steady, Mirrored
<1>9. CASE v = b
  BY <1>4, <1>5, <1>7, <1>9 DEF Quits, Steady, Mirrored
<1> QED
  BY <1>1, <1>8, <1>9

\* A load that succeeded leaves no program and says so.
LEMMA LoadedFacts ==
    ASSUME NEW u \in Worlds, NEW file \in Files \cup {NoFile}
    PROVE  LET v == Loaded(u, file)
           IN Steady(u, v) /\ v.st.runState = "noProgram" /\ v.st.frames = 0
              /\ v.shown.runState = "noProgram"
<1> DEFINE m == [u.st EXCEPT !.exe = file, !.runState = "noProgram", !.frames = 0]
           s == [u.shown EXCEPT !.runState = "noProgram"]
           v == [u EXCEPT !.st = m, !.shown = s]
<1>1. Loaded(u, file) = v
  BY DEF Loaded, Worlds
<1>2. m \in Mirrors /\ m.runState = "noProgram" /\ m.frames = 0 /\ m.stopSeq = u.st.stopSeq
      /\ m.stepping = u.st.stepping /\ m.deferred = u.st.deferred
  BY DEF Worlds, Mirrors, RunStates
<1>3. s \in [runState : RunStates, stopSeq : Nat, code : Nat, signal : Nat]
      /\ s.runState = "noProgram" /\ s.stopSeq = u.shown.stopSeq
  BY DEF Worlds, RunStates
<1> HIDE DEF m, s
<1>4. v \in Worlds /\ v.st = m /\ v.shown = s /\ v.gdb = u.gdb /\ v.intake = u.intake
  BY <1>2, <1>3 DEF Worlds
<1> QED
  BY <1>1, <1>2, <1>3, <1>4 DEF Steady, Mirrored

\* One field of the mirror set by itself: the run state changes nothing else,
LEMMA RunStateFacts ==
    ASSUME NEW u \in Worlds, NEW v, v = [u EXCEPT !.st.runState = "running"]
    PROVE  Steady(u, v) /\ v.st.runState = "running" /\ v.st.frames = u.st.frames
           /\ v.shown = u.shown
BY DEF Worlds, Mirrors, RunStates, Steady, Mirrored

\* nor does the stack,
LEMMA FramesFacts ==
    ASSUME NEW u \in Worlds, NEW v, v = [u EXCEPT !.st.frames = u.gdb.stops]
    PROVE  Steady(u, v) /\ v.st.runState = u.st.runState
           /\ v.st.frames = u.gdb.stops /\ v.shown = u.shown
<1>1. u.gdb.stops \in Nat
  BY WorldTypes
<1> QED
  BY <1>1 DEF Worlds, Mirrors, Steady, Mirrored

\* nor does the walk,
LEMMA SteppingFacts ==
    ASSUME NEW u \in Worlds, NEW left \in Nat, NEW v, v = [u EXCEPT !.st.stepping = left]
    PROVE  /\ Mirrored(u, v) /\ v.shown = u.shown
           /\ v.st.stepping = left /\ v.st.stopSeq = u.st.stopSeq
           /\ v.st.deferred = u.st.deferred /\ v.st.runState = u.st.runState
           /\ v.st.frames = u.st.frames
BY DEF Worlds, Mirrors, Mirrored

\* nor does the deferred start.
LEMMA DeferredFacts ==
    ASSUME NEW u \in Worlds, NEW mode \in {"none", "resume", "stop"}, NEW v,
           v = [u EXCEPT !.st.deferred = mode]
    PROVE  /\ Mirrored(u, v) /\ v.shown = u.shown
           /\ v.st.stepping = u.st.stepping /\ v.st.stopSeq = u.st.stopSeq
           /\ v.st.deferred = mode /\ v.st.runState = u.st.runState
           /\ v.st.frames = u.st.frames
BY DEF Worlds, Mirrors, Mirrored

\* emitStopped changes what is shown only.
LEMMA EmitFacts ==
    ASSUME NEW u \in Worlds, NEW v, v = EmitStopped(u)
    PROVE  Mirrored(u, v) /\ v.st = u.st /\ v.shown.runState = u.st.runState
           /\ v.shown.stopSeq = u.st.stopSeq
BY DEF EmitStopped, Worlds, Mirrors, Mirrored

-----------------------------------------------------------------------------
(* The mirror may change as gdb allows.                                     *)

\* How the stack, the run state and the deferred start may change together.
StackChange(u, v) ==
    /\ \/ v.st.frames = 0
       \/ /\ v.st.frames = u.st.frames
          /\ v.st.runState = u.st.runState \/ "stepLine" \in Kinds
          /\ v.st.deferred \in {"none", u.st.deferred}
       \/ /\ v.st.frames = u.gdb.stops
          /\ u.gdb.process = "stopped"
          /\ v.st.runState = "stopped"
          /\ v.st.deferred = "none"
    /\ v.st.stepping \in {0, u.st.stepping} \/ "stepLine" \in Kinds

\* To running if a record will tell, to an end if there is one.
StateChange(u, v) ==
    \/ v.st.runState = u.st.runState
    \/ v.st.runState = "running" /\ (u.intake # <<>> \/ IsUp(u.gdb.process))
    \/ v.st.runState \in {"exited", "noProgram"} /\ u.gdb.process = "none"

\* Both, with the deferred start over or set for a process yet to stop.
Adjusted(u, v) ==
    /\ Mirrored(u, v)
    /\ v.st.stopSeq = u.st.stopSeq
    /\ v.st.deferred \in {"none", u.st.deferred} \/ u.st.stopSeq <= u.gdb.begun
    /\ StackChange(u, v)
    /\ StateChange(u, v)

\* The more runs at the start, the more is led.
LEMMA LedWeakens ==
    ASSUME NEW q, NEW a, NEW b, a => b, NEW i, Led(q, a, i)
    PROVE  Led(q, b, i)
BY DEF Led

\* A mirror adjusted that way, by a handler, leaves a sound world sound.
LEMMA SoundAdjusts ==
    ASSUME NEW u, NEW v, Sound(u), Adjusted(u, v)
    PROVE  Sound(v)
<1> DEFINE q == u.intake
           n == Len(q)
           a == Running(u)
           b == Running(v)
<1>1. u \in Worlds /\ v \in Worlds /\ v.gdb = u.gdb /\ v.intake = q
      /\ v.st.stopSeq = u.st.stopSeq
  BY DEF Sound, Adjusted, Mirrored
<1>2. n \in Nat /\ (q = <<>> <=> n = 0) /\ u.st.stopSeq \in Nat /\ u.gdb.stops \in Nat
      /\ u.st.runState \in RunStates
      /\ u.gdb.process \in {"none", "stopped", "stepping", "running"}
      /\ \A i \in 1 .. n : q[i].number \in Nat
  BY <1>1, WorldTypes, EmptySeq
<1>3. Numbered(v)
  BY <1>1 DEF Sound, Numbered
<1>4. LastWord(v)
  <2>1. CASE q = <<>>
    BY <1>1, <2>1 DEF Sound, LastWord, Agrees, Adjusted, StateChange, IsUp
  <2>2. CASE q # <<>>
    BY <1>1, <2>2 DEF Sound, LastWord
  <2> QED
    BY <2>1, <2>2
<1>5. StackRead(v)
  <2> SUFFICES ASSUME "stepLine" \notin Kinds PROVE StackRead(v)
    BY DEF StackRead
  <2>1. v.st.stepping = 0
    BY DEF Sound, StackRead, Adjusted, StackChange
  <2>2. CASE v.st.frames = 0
    BY <2>1, <2>2 DEF StackRead
  <2>3. CASE v.st.frames = u.st.frames /\ v.st.runState = u.st.runState
             /\ v.st.deferred \in {"none", u.st.deferred}
    BY <1>1, <2>1, <2>3 DEF Sound, StackRead
  <2>4. CASE v.st.frames = u.gdb.stops /\ u.gdb.process = "stopped"
             /\ v.st.runState = "stopped" /\ v.st.deferred = "none"
    BY <1>1, <1>2, <2>1, <2>4 DEF Sound, StackRead, Numbered, IsUp
  <2> QED
    BY <2>2, <2>3, <2>4 DEF Adjusted, StackChange
<1>6. StackOfThis(v)
  BY <1>1 DEF Sound, StackOfThis, Adjusted, StackChange
<1>7. (a => b) \/ u.gdb.process = "none"
  BY DEF Adjusted, StateChange, Running
<1> HIDE DEF q, n, a, b
<1>8. ASSUME NEW i, Led(q, a, i), u.gdb.process # "none" PROVE Led(q, b, i)
  BY <1>7, <1>8, LedWeakens
<1>9. Spaced(v)
  <2>1. u.gdb.deaths = 0 =>
            /\ \A i \in 1 .. n : LiveStop(q[i]) => Led(q, TRUE, i)
            /\ IsUp(u.gdb.process) => Led(q, a, n + 1)
    BY DEF Sound, Spaced, q, n, a
  <2>2. u.gdb.deaths = 0 =>
            /\ \A i \in 1 .. n : LiveStop(q[i]) => Led(q, TRUE, i)
            /\ IsUp(u.gdb.process) => Led(q, b, n + 1)
    BY <1>8, <2>1 DEF IsUp
  <2> QED
    BY <1>1, <2>2 DEF Spaced, n, b
<1>10. LastStop(v)
  <2>1. u.gdb.deaths = 0 =>
            \A i \in 1 .. n :
                LiveStop(q[i]) /\ (\A k \in 1 .. n : i < k => ~Ending(q[k])) =>
                    Led(q, a, i) /\ u.gdb.process # "none"
    BY DEF Sound, LastStop, q, n, a
  <2>2. u.gdb.deaths = 0 =>
            \A i \in 1 .. n :
                LiveStop(q[i]) /\ (\A k \in 1 .. n : i < k => ~Ending(q[k])) =>
                    Led(q, b, i) /\ u.gdb.process # "none"
    BY <1>8, <2>1
  <2> QED
    BY <1>1, <2>2 DEF LastStop, n, b
<1>11. Entry(v)
  BY <1>1 DEF Sound, Entry, Adjusted
<1> QED
  BY <1>1, <1>3, <1>4, <1>5, <1>6, <1>9, <1>10, <1>11 DEF Sound

-----------------------------------------------------------------------------
(* What else holds between handlers, and inside them.                       *)

\* A gdb that is gone runs nothing and owes nothing.
Down(w) == ~w.gdb.up => w.gdb.process = "none" /\ w.gdb.late = <<>>

\* While a deferred start waits, every stop in the queue is one of a program the mirror has
\* shown as running: without commands executed late.
EntryLed(w) ==
    MaxLate = 0 /\ w.gdb.deaths = 0 /\ w.st.deferred = "resume" /\ w.gdb.process # "none" =>
        \A i \in 1 .. Len(w.intake) :
            LiveStop(w.intake[i]) => Led(w.intake, Running(w), i)

\* The mirror is at most one stop behind, and not at all while the program runs or the
\* mirror says stopped: without late commands, console or overtaken stops.
InStep(w) ==
    MaxLate = 0 /\ "console" \notin Kinds /\ ~w.gdb.overtaken =>
        /\ w.gdb.stops <= w.st.stopSeq + 1
        /\ IsUp(w.gdb.process) => w.st.stopSeq = w.gdb.stops
        /\ w.st.runState = "stopped" =>
               ~IsUp(w.gdb.process) /\ w.st.stopSeq = w.gdb.stops

\* What every handler starts from and leaves behind.
Firm(w) ==
    /\ Sound(w)
    /\ Down(w)
    /\ EntryLed(w)
    /\ InStep(w)
    /\ w.st.deferred \in {"none"} \cup StartModes
    /\ Len(w.gdb.late) <= MaxLate

\* What the browsers know is the mirror, or the mirror was set to running by a deferred start
\* after a timeout, and a record that tells them more is queued.
Told(w) ==
    w.gdb.deaths = 0 /\ "stepLine" \notin Kinds =>
        \/ /\ w.shown.runState = w.st.runState
           /\ w.st.runState = "stopped" => w.shown.stopSeq = w.st.stopSeq
        \/ /\ Running(w)
           /\ w.st.deferred = "none"
           /\ MaxLate > 0
           /\ "resume" \in StartModes
           /\ \E i \in 1 .. Len(w.intake) : Ending(w.intake[i])

\* What only gdb's death changes, and what only a stop that is taken does.
Lasts(w, v) == v.gdb.deaths = w.gdb.deaths /\ v.st.stopSeq = w.st.stopSeq

\* gdb's moves leave a gdb that is gone alone.
LEMMA DownMoves ==
    ASSUME NEW w, NEW v, Down(w), Moved(w, v)
    PROVE  Down(v)
BY DEF Down, Moved, Kept

\* gdb's moves do not change what the browsers have been told of the mirror.
LEMMA ToldMoves ==
    ASSUME NEW w \in Worlds, NEW v, Told(w), Moved(w, v)
    PROVE  Told(v)
<1> DEFINE q == w.intake
           p == v.intake
           n == Len(q)
           m == Len(p)
<1>1. Shape(w, v, q, p, n, m)
  BY MoveShapes, Zenon
<1>2. v.st = w.st /\ v.shown = w.shown /\ v.gdb.deaths = w.gdb.deaths
      /\ n \in Nat /\ m \in Nat /\ n <= m /\ \A i \in 1 .. n : p[i] = q[i]
  BY <1>1 DEF Shape, Kept
<1> HIDE DEF q, p, n, m
<1>3. (\E i \in 1 .. n : Ending(q[i])) => \E i \in 1 .. m : Ending(p[i])
  BY <1>2
<1> QED
  BY <1>2, <1>3 DEF Told, Running, q, p, n, m

\* gdb's moves keep every stop led while a deferred start waits, unless a process begins.
LEMMA EntryLedMoves ==
    ASSUME NEW w \in Worlds, NEW v, EntryLed(w), Spaced(w), Moved(w, v),
           w.gdb.process # "none" \/ v.gdb.process = "none"
    PROVE  EntryLed(v)
<1> DEFINE q == w.intake
           p == v.intake
           n == Len(q)
           m == Len(p)
           r == Running(w)
<1>1. Shape(w, v, q, p, n, m)
  BY MoveShapes, Zenon
<1>2. v.st = w.st /\ v.gdb.deaths = w.gdb.deaths
  BY <1>1 DEF Shape, Kept
<1>3. n \in Nat /\ m \in Nat /\ n <= m /\ \A i \in 1 .. n : p[i] = q[i]
  BY <1>1 DEF Shape
<1>4. Stretch(w, v, p, n, m)
  BY <1>1, MoveStretches, Zenon
<1> SUFFICES ASSUME MaxLate = 0, w.gdb.deaths = 0, w.st.deferred = "resume",
                    v.gdb.process # "none", NEW i \in 1 .. m, LiveStop(p[i])
             PROVE  Led(p, r, i)
  BY <1>2 DEF EntryLed, Running
<1>5. /\ \A j \in 1 .. n : LiveStop(q[j]) => Led(q, r, j)
      /\ IsUp(w.gdb.process) => Led(q, r, n + 1)
  BY DEF EntryLed, Spaced
<1>6. ASSUME NEW j \in 1 .. n + 1, Led(q, r, j) PROVE Led(p, r, j)
  BY <1>1, <1>3, <1>6, LedExtends DEF Shape
<1> HIDE DEF q, p, n, m, r
<1>7. ASSUME i \in 1 .. n PROVE Led(p, r, i)
  BY <1>3, <1>5, <1>6, <1>7
<1>8. CASE m = n
  BY <1>7, <1>8
<1>9. CASE \A k \in n + 1 .. m : ~LiveStop(p[k])
  BY <1>3, <1>7, <1>9
<1>10. CASE m = n + 1 /\ IsUp(w.gdb.process)
  BY <1>3, <1>5, <1>6, <1>7, <1>10
<1> QED
  BY <1>4, <1>8, <1>9, <1>10 DEF Stretch

\* What a program that goes on has, whatever led it there.
LEMMA RunningEntryLed ==
    ASSUME NEW v, Spaced(v), Running(v)
    PROVE  EntryLed(v)
BY DEF Spaced, EntryLed

\* InStep, if nothing is resumed or begun.
LEMMA InStepMoves ==
    ASSUME NEW w \in Worlds, NEW v, InStep(w), Kept(w, v),
           Idled(w, v) \/ Ended(w, v) \/ Stopped(w, v) \/ Exited(w, v)
    PROVE  InStep(v)
<1>1. v.st = w.st /\ w.gdb.stops \in Nat /\ w.st.stopSeq \in Nat
  BY WorldTypes DEF Kept
<1>2. CASE Idled(w, v)
  BY <1>1, <1>2 DEF Idled, InStep
<1>3. CASE Ended(w, v)
  BY <1>1, <1>3 DEF Ended, InStep, IsUp
<1>4. CASE Stopped(w, v)
  BY <1>1, <1>4 DEF Stopped, InStep, IsUp, Alive
<1>5. CASE Exited(w, v)
  BY <1>1, <1>5 DEF Exited, InStep, IsUp, Alive
<1> QED
  BY <1>2, <1>3, <1>4, <1>5

\* What the program does of its own accord, and its end, keep a world firm.
LEMMA FirmMoves ==
    ASSUME NEW w, NEW v, Firm(w), Kept(w, v),
           Idled(w, v) \/ Ended(w, v) \/ Stopped(w, v) \/ Exited(w, v),
           Len(v.gdb.late) <= MaxLate
    PROVE  Firm(v)
<1>1. w \in Worlds /\ Moved(w, v) /\ v.st = w.st /\ Spaced(w)
  BY DEF Firm, Sound, Moved, Kept
<1>2. CASE Idled(w, v)
  <2>1. w.gdb.process # "none" \/ v.gdb.process = "none"
    BY <1>2 DEF Idled
  <2> QED
    BY <1>1, <2>1, SoundMoves, DownMoves, EntryLedMoves, InStepMoves DEF Firm
<1>3. CASE Ended(w, v) \/ Stopped(w, v) \/ Exited(w, v)
  <2>1. w.gdb.process # "none" \/ v.gdb.process = "none"
    BY <1>3 DEF Ended, Stopped, Exited, Alive
  <2> QED
    BY <1>1, <2>1, SoundMoves, DownMoves, EntryLedMoves, InStepMoves DEF Firm
<1> QED
  BY <1>2, <1>3

\* A command that did not succeed keeps it firm, and the mirror as it was.
LEMMA FirmFails ==
    ASSUME NEW w, Firm(w), NEW cmd \in Commands, MaxLate \in Nat,
           NEW r \in Send(w, cmd), ~r.ok
    PROVE  /\ Firm(r.w)
           /\ r.w.st = w.st
           /\ r.w.shown = w.shown
           /\ Told(w) => Told(r.w)
           /\ Lasts(w, r.w)
<1>1. w \in Worlds /\ Len(w.gdb.late) <= MaxLate
  BY DEF Firm, Sound
<1>2. PICK v : Moved(w, v) /\ Moved(v, r.w)
  BY <1>1, SendMoves
<1>3. /\ Len(r.w.gdb.late) <= MaxLate
      /\ MaxLate = 0 => r.w = w
  BY <1>1, SendMoves
<1>4. v \in Worlds /\ r.w.st = w.st /\ r.w.shown = w.shown /\ Lasts(w, r.w)
  BY <1>2 DEF Moved, Kept, Lasts
<1>5. Sound(r.w)
  BY <1>2, SoundMoves DEF Firm
<1>6. Down(r.w)
  BY <1>2, DownMoves DEF Firm
<1>7. Told(w) => Told(r.w)
  BY <1>1, <1>2, <1>4, ToldMoves
<1>8. CASE MaxLate = 0
  BY <1>3, <1>4, <1>7, <1>8
<1>9. CASE MaxLate # 0
  <2>1. EntryLed(r.w) /\ InStep(r.w)
    BY <1>9 DEF EntryLed, InStep
  <2> QED
    BY <1>3, <1>4, <1>5, <1>6, <1>7, <2>1 DEF Firm
<1> QED
  BY <1>8, <1>9

\* A command that did succeed keeps what does not depend on the mirror following.
LEMMA FirmAnswers ==
    ASSUME NEW w, Firm(w), NEW cmd \in Commands, MaxLate \in Nat,
           NEW r \in Send(w, cmd), r.ok
    PROVE  /\ Sound(r.w)
           /\ Down(r.w)
           /\ w.gdb.up
           /\ Kept(w, r.w)
           /\ Accepted(w, cmd, r.w)
           /\ Len(r.w.gdb.late) <= MaxLate
           /\ Told(w) => Told(r.w)
<1>1. w \in Worlds /\ Len(w.gdb.late) <= MaxLate
  BY DEF Firm, Sound
<1>2. PICK v : Moved(w, v) /\ Moved(v, r.w)
  BY <1>1, SendMoves
<1>3. /\ w.gdb.up
      /\ Kept(w, r.w)
      /\ Accepted(w, cmd, r.w)
      /\ Len(r.w.gdb.late) <= MaxLate
  BY <1>1, SendMoves
<1>4. v \in Worlds
  BY <1>2 DEF Moved, Kept
<1> QED
  BY <1>1, <1>2, <1>3, <1>4, SoundMoves, DownMoves, ToldMoves DEF Firm

\* A change of the mirror that neither resumes nor stops it keeps it firm.
LEMMA FirmAdjusts ==
    ASSUME NEW u, NEW v, Firm(u), Adjusted(u, v), v.st.deferred \in {"none", u.st.deferred},
           v.st.runState = "stopped" => u.st.runState = "stopped"
    PROVE  Firm(v)
<1>1. Sound(u) /\ Sound(v) /\ v.gdb = u.gdb /\ v.intake = u.intake
      /\ v.st.stopSeq = u.st.stopSeq
  BY SoundAdjusts DEF Firm, Adjusted, Mirrored
<1>2. EntryLed(v)
  <2> DEFINE q == u.intake
             a == Running(u)
             b == Running(v)
  <2> SUFFICES ASSUME MaxLate = 0, u.gdb.deaths = 0, v.st.deferred = "resume",
                      u.gdb.process # "none", NEW i \in 1 .. Len(q), LiveStop(q[i])
               PROVE  Led(q, b, i)
    BY <1>1 DEF EntryLed
  <2>1. Led(q, a, i)
    BY DEF Firm, EntryLed
  <2>2. a => b
    BY DEF Adjusted, StateChange, Running
  <2> HIDE DEF q, a, b
  <2> QED
    BY <2>1, <2>2, LedWeakens
<1>3. InStep(v)
  BY <1>1 DEF Firm, InStep
<1>4. Down(v) /\ v.st.deferred \in {"none"} \cup StartModes /\ Len(v.gdb.late) <= MaxLate
  BY <1>1 DEF Firm, Down
<1> QED
  BY <1>1, <1>2, <1>3, <1>4 DEF Firm

\* A change of the mirror to running keeps it firm, if the mirror counts all of gdb's stops.
LEMMA FirmRuns ==
    ASSUME NEW u, NEW v, Sound(u), Down(u), Len(u.gdb.late) <= MaxLate,
           Adjusted(u, v), Running(v), v.st.deferred \in {"none"} \cup StartModes,
           MaxLate = 0 /\ "console" \notin Kinds /\ ~u.gdb.overtaken =>
               u.st.stopSeq = u.gdb.stops
    PROVE  Firm(v)
<1>1. Sound(v) /\ v.gdb = u.gdb /\ v.st.stopSeq = u.st.stopSeq /\ v \in Worlds
  BY SoundAdjusts DEF Adjusted, Mirrored
<1>2. EntryLed(v)
  BY <1>1, RunningEntryLed DEF Sound
<1>3. v.gdb.stops \in Nat
  BY <1>1, WorldTypes
<1>4. InStep(v)
  BY <1>1, <1>3 DEF InStep, Running
<1>5. Down(v) /\ Len(v.gdb.late) <= MaxLate
  BY <1>1 DEF Down
<1> QED
  BY <1>1, <1>2, <1>4, <1>5 DEF Firm

\* gdb accepts an end of the program, a query or a directory: firm before the mirror follows.
LEMMA FirmEnds ==
    ASSUME NEW w, Firm(w), NEW cmd \in Commands, MaxLate \in Nat,
           NEW r \in Send(w, cmd), r.ok, cmd \notin {"start", "continue", "step"}
    PROVE  /\ Firm(r.w)
           /\ r.w.st = w.st
           /\ r.w.shown = w.shown
           /\ r.w.gdb.deaths = w.gdb.deaths
           /\ Told(w) => Told(r.w)
           /\ cmd \in Files \cup {"kill"} => r.w.gdb.process = "none"
           /\ cmd \in {"query", "cd"} => r.w = w
           /\ cmd = "query" => w.gdb.process = "stopped"
<1>1. /\ Kept(w, r.w)
      /\ Accepted(w, cmd, r.w)
      /\ Len(r.w.gdb.late) <= MaxLate
      /\ Told(w) => Told(r.w)
  BY FirmAnswers
<1>2. cmd \in Files \cup {"kill"} \/ cmd \in {"query", "cd"}
  BY DEF Commands, Verbs
<1>3. r.w.st = w.st /\ r.w.shown = w.shown /\ r.w.gdb.deaths = w.gdb.deaths
  BY <1>1 DEF Kept
<1>4. CASE cmd \in {"query", "cd"}
  <2>1. cmd \notin Files \cup {"kill"}
    BY <1>4, RequestsAssumption DEF Verbs
  <2> QED
    BY <1>1, <1>3, <1>4, <2>1 DEF Accepted
<1>5. CASE cmd \in Files \cup {"kill"}
  <2>1. Ended(w, r.w) \/ (Idled(w, r.w) /\ w.gdb.process = "none")
    BY <1>1, <1>5 DEF Accepted
  <2>2. Firm(r.w)
    BY <1>1, <2>1, FirmMoves
  <2>3. r.w.gdb.process = "none"
    BY <2>1 DEF Ended, Idled
  <2>4. cmd \notin {"query", "cd"}
    BY <1>5, RequestsAssumption DEF Verbs
  <2> QED
    BY <1>1, <1>3, <2>2, <2>3, <2>4
<1> QED
  BY <1>2, <1>4, <1>5

\* gdb resumes a program the mirror shows as stopped: firm once the mirror says running.
LEMMA FirmResumes ==
    ASSUME NEW w, Firm(w), NEW cmd \in {"continue", "step"}, MaxLate \in Nat,
           NEW r \in Send(w, cmd), r.ok, w.st.runState = "stopped",
           NEW v, Adjusted(r.w, v), Running(v), v.st.deferred \in {"none"} \cup StartModes
    PROVE  Firm(v)
<1>1. cmd \in Commands
  BY DEF Commands, Verbs
<1>2. /\ Sound(r.w) /\ Down(r.w)
      /\ Kept(w, r.w)
      /\ Accepted(w, cmd, r.w)
      /\ Len(r.w.gdb.late) <= MaxLate
  BY <1>1, FirmAnswers
<1>3. Resumed(w, r.w)
  BY <1>2 DEF Accepted
<1>4. MaxLate = 0 /\ "console" \notin Kinds /\ ~r.w.gdb.overtaken =>
          r.w.st.stopSeq = r.w.gdb.stops
  BY <1>2, <1>3 DEF Firm, InStep, Resumed, Kept
<1> QED
  BY <1>2, <1>4, FirmRuns

\* gdb starts the program: firm once the mirror says running.
LEMMA FirmStarts ==
    ASSUME NEW w, Firm(w), MaxLate \in Nat, NEW r \in Send(w, "start"), r.ok,
           NEW v, Adjusted(r.w, v), Running(v), v.st.deferred \in {"none"} \cup StartModes
    PROVE  Firm(v)
<1>1. "start" \in Commands
  BY DEF Commands, Verbs
<1>2. /\ Sound(r.w) /\ Down(r.w)
      /\ Kept(w, r.w)
      /\ Accepted(w, "start", r.w)
      /\ Len(r.w.gdb.late) <= MaxLate
  BY <1>1, FirmAnswers
<1>3. Began(w, r.w) \/ BeganAnew(w, r.w)
  BY <1>2 DEF Accepted
<1>4. MaxLate = 0 /\ "console" \notin Kinds /\ ~r.w.gdb.overtaken =>
          r.w.st.stopSeq = r.w.gdb.stops
  BY <1>2, <1>3 DEF Began, BeganAnew, Kept
<1> QED
  BY <1>2, <1>4, FirmRuns

-----------------------------------------------------------------------------
(* Requests.                                                               *)

\* setRunning of a program that runs, or of one whose records are on their way.
LEMMA RunsNowAdjusts ==
    ASSUME NEW u, NEW v, RunsNow(u, v), u.intake # <<>> \/ IsUp(u.gdb.process)
    PROVE  Adjusted(u, v)
BY DEF RunsNow, Steady, Adjusted, StackChange, StateChange

\* setExited of a program that has ended.
LEMMA QuitsAdjusts ==
    ASSUME NEW u, NEW v, Quits(u, v), u.gdb.process = "none"
    PROVE  Adjusted(u, v)
BY DEF Quits, Steady, Adjusted, StackChange, StateChange

\* continue and step keep a world firm, and the browsers told of it.
LEMMA ResumeKeeps ==
    ASSUME NEW w, Firm(w), Told(w), MaxLate \in Nat, w.st.runState = "stopped",
           NEW how \in {"continue", "step"}, NEW v \in ExecResume(w, how)
    PROVE  Firm(v) /\ Told(v) /\ Lasts(w, v)
<1>0. how \in Commands
  BY DEF Commands, Verbs
<1>1. PICK r \in Send(w, how) : v = IF r.ok THEN SetRunning(r.w) ELSE r.w
  BY ResumeChain
<1>2. CASE ~r.ok
  BY <1>0, <1>1, <1>2, FirmFails
<1>3. CASE r.ok
  <2>1. Kept(w, r.w) /\ Accepted(w, how, r.w)
    BY <1>0, <1>3, FirmAnswers
  <2>2. r.w \in Worlds /\ r.w.st = w.st /\ IsUp(r.w.gdb.process)
    BY <2>1 DEF Accepted, Kept, Resumed, Alive, IsUp
  <2>3. v = SetRunning(r.w) /\ RunsNow(r.w, v)
    BY <1>1, <1>3, <2>2, SetRunningFacts
  <2>4. Adjusted(r.w, v)
    BY <2>2, <2>3, RunsNowAdjusts
  <2>5. Running(v) /\ v.st.deferred = w.st.deferred /\ v.shown.runState = "running"
    BY <2>2, <2>3 DEF RunsNow, Steady, Running
  <2>6. Firm(v)
    BY <1>3, <2>4, <2>5, FirmResumes DEF Firm
  <2>7. Told(v)
    BY <2>5 DEF Told, Running
  <2>8. Lasts(w, v)
    BY <2>1, <2>3 DEF Kept, RunsNow, Steady, Mirrored, Lasts
  <2> QED
    BY <2>6, <2>7, <2>8
<1> QED
  BY <1>2, <1>3

\* So does run,
LEMMA RunKeeps ==
    ASSUME NEW w, Firm(w), Told(w), MaxLate \in Nat, w.st.runState # "running",
           StartModes \subseteq {"none", "resume", "stop"}, NEW v \in ExecRun(w)
    PROVE  Firm(v) /\ Told(v) /\ Lasts(w, v)
<1>0. "start" \in Commands
  BY DEF Commands, Verbs
<1>1. PICK r \in Send(w, "start") :
          \/ ~r.ok /\ v = r.w
          \/ r.ok /\ \E mode \in StartModes : v = SetRunning([r.w EXCEPT !.st.deferred = mode])
  BY RunChain
<1>2. CASE ~r.ok
  BY <1>0, <1>1, <1>2, FirmFails
<1>3. CASE r.ok
  <2>1. PICK mode \in StartModes : v = SetRunning([r.w EXCEPT !.st.deferred = mode])
    BY <1>1, <1>3
  <2>2. Kept(w, r.w) /\ Accepted(w, "start", r.w)
    BY <1>0, <1>3, FirmAnswers
  <2>3. /\ r.w \in Worlds /\ r.w.st = w.st /\ IsUp(r.w.gdb.process)
        /\ r.w.gdb.begun = w.gdb.stops /\ r.w.gdb.stops = w.gdb.stops
    BY <2>2 DEF Accepted, Kept, Began, BeganAnew, Alive, IsUp
  <2>4. PICK u : u = [r.w EXCEPT !.st.deferred = mode]
    OBVIOUS
  <2>5. /\ Mirrored(r.w, u) /\ u.shown = r.w.shown
        /\ u.st.stepping = r.w.st.stepping /\ u.st.stopSeq = r.w.st.stopSeq
        /\ u.st.deferred = mode /\ u.st.runState = r.w.st.runState
        /\ u.st.frames = r.w.st.frames
    <3>1. mode \in {"none", "resume", "stop"} /\ r.w \in Worlds
      BY <2>3
    <3> QED
      BY <2>4, <3>1, DeferredFacts
  <2>10. RunsNow(u, v) /\ u.st.runState # "running"
    BY <2>1, <2>3, <2>4, <2>5, SetRunningFacts DEF Mirrored
  <2>6. v.st.runState = "running" /\ v.shown.runState = "running" /\ v.st.frames = 0
        /\ Mirrored(r.w, v) /\ v.st.stopSeq = r.w.st.stopSeq
        /\ v.st.stepping = r.w.st.stepping /\ v.st.deferred = mode
    BY <2>5, <2>10 DEF RunsNow, Steady, Mirrored
  <2>7. r.w.st.stopSeq <= r.w.gdb.begun
    BY <2>3 DEF Firm, Sound, Numbered
  <2>8. Adjusted(r.w, v)
    BY <2>3, <2>6, <2>7 DEF Adjusted, StackChange, StateChange
  <2>9. Firm(v)
    BY <1>3, <2>6, <2>8, FirmStarts DEF Running
  <2>11. Lasts(w, v)
    BY <2>2, <2>6 DEF Kept, Mirrored, Lasts
  <2> QED
    BY <2>6, <2>9, <2>11 DEF Told
<1> QED
  BY <1>2, <1>3

\* kill,
LEMMA KillKeeps ==
    ASSUME NEW w, Firm(w), Told(w), MaxLate \in Nat, NEW v \in ExecKill(w)
    PROVE  Firm(v) /\ Told(v) /\ Lasts(w, v)
<1>0. "kill" \in Commands
  BY DEF Commands, Verbs
<1>1. CASE v = w
  BY <1>1 DEF Lasts
<1>2. CASE \E r \in Send(w, "kill") : v = IF r.ok THEN SetExited(r.w, 0, 0) ELSE r.w
  <2>1. PICK r \in Send(w, "kill") : v = IF r.ok THEN SetExited(r.w, 0, 0) ELSE r.w
    BY <1>2
  <2>2. CASE ~r.ok
    BY <1>0, <2>1, <2>2, FirmFails
  <2>3. CASE r.ok
    <3>1. Firm(r.w) /\ Told(r.w) /\ r.w.gdb.process = "none"
      BY <1>0, <2>3, FirmEnds
    <3>2. v = SetExited(r.w, 0, 0) /\ Quits(r.w, v)
      BY <2>1, <2>3, <3>1, SetExitedFacts DEF Firm, Sound
    <3>3. Adjusted(r.w, v)
      BY <3>1, <3>2, QuitsAdjusts
    <3>4. v.st.runState = "exited" /\ v.st.deferred = r.w.st.deferred
          /\ v.gdb = r.w.gdb
      BY <3>2 DEF Quits, Steady, Mirrored
    <3>5. Firm(v)
      BY <3>1, <3>3, <3>4, FirmAdjusts
    <3>6. Told(v)
      BY <3>1, <3>2, <3>4 DEF Told, Quits, Running
    <3>7. Lasts(w, v)
      BY <1>0, <2>3, <3>2, FirmAnswers DEF Kept, Quits, Steady, Mirrored, Lasts
    <3> QED
      BY <3>5, <3>6, <3>7
  <2> QED
    BY <2>2, <2>3
<1> QED
  BY <1>1, <1>2, KillChain

\* load,
LEMMA LoadKeeps ==
    ASSUME NEW w, Firm(w), Told(w), MaxLate \in Nat, NEW file \in Files,
           NEW v \in ExeLoad(w, file)
    PROVE  Firm(v) /\ Told(v) /\ Lasts(w, v)
<1>0. file \in Commands /\ "cd" \in Commands /\ file \notin Verbs
  BY RequestsAssumption DEF Commands, Verbs
<1>1. PICK r \in Send(w, file) :
          \/ ~r.ok /\ v = r.w
          \/ r.ok /\ \E s \in Send(r.w, "cd") : v = IF s.ok THEN Loaded(s.w, file) ELSE s.w
  BY LoadChain
<1>2. CASE ~r.ok
  BY <1>0, <1>1, <1>2, FirmFails
<1>3. CASE r.ok
  <2>1. Firm(r.w) /\ Told(r.w) /\ r.w.gdb.process = "none"
    BY <1>0, <1>3, FirmEnds DEF Verbs
  <2>5. Lasts(w, r.w)
    BY <1>0, <1>3, FirmAnswers DEF Kept, Lasts
  <2>2. PICK s \in Send(r.w, "cd") : v = IF s.ok THEN Loaded(s.w, file) ELSE s.w
    BY <1>1, <1>3
  <2>3. CASE ~s.ok
    BY <1>0, <2>1, <2>2, <2>3, <2>5, FirmFails DEF Lasts
  <2>4. CASE s.ok
    <3>1. s.w = r.w
      BY <1>0, <2>1, <2>4, FirmEnds
    <3>2. v = Loaded(r.w, file)
      BY <2>2, <2>4, <3>1
    <3>3. Steady(r.w, v) /\ v.st.runState = "noProgram" /\ v.st.frames = 0
          /\ v.shown.runState = "noProgram"
      BY <2>1, <3>2, LoadedFacts DEF Firm, Sound
    <3>4. Adjusted(r.w, v) /\ v.st.deferred = r.w.st.deferred
      BY <2>1, <3>3 DEF Adjusted, StackChange, StateChange, Steady
    <3>5. Firm(v)
      BY <2>1, <3>3, <3>4, FirmAdjusts
    <3>6. Told(v)
      BY <3>3 DEF Told
    <3>7. Lasts(w, v)
      BY <2>5, <3>3 DEF Steady, Mirrored, Lasts
    <3> QED
      BY <3>5, <3>6, <3>7
  <2> QED
    BY <2>3, <2>4
<1> QED
  BY <1>2, <1>3

\* stepLine, an instruction or a walk,
LEMMA StepLineKeeps ==
    ASSUME NEW w, Firm(w), MaxLate \in Nat, w.st.runState = "stopped",
           "stepLine" \in Kinds, NEW v \in ExecStepLine(w)
    PROVE  Firm(v) /\ Told(v) /\ Lasts(w, v)
<1>0. "step" \in Commands /\ 0 \in Nat /\ MaxWalk \in Nat
  BY RequestsAssumption DEF Commands, Verbs
<1>1. PICK left \in {0, MaxWalk} :
          \E r \in Send([w EXCEPT !.st.stepping = left], "step") :
              v = IF r.ok THEN [r.w EXCEPT !.st.runState = "running"] ELSE EndWalk(r.w)
  BY StepLineChain
<1>2. PICK x : x = [w EXCEPT !.st.stepping = left]
  OBVIOUS
<1>3. PICK r \in Send(x, "step") :
          v = IF r.ok THEN [r.w EXCEPT !.st.runState = "running"] ELSE EndWalk(r.w)
  BY <1>1, <1>2
<1>4. /\ Mirrored(w, x) /\ x.st.stopSeq = w.st.stopSeq
      /\ x.st.deferred = w.st.deferred /\ x.st.runState = w.st.runState
      /\ x.st.frames = w.st.frames
  <2>1. left \in Nat /\ w \in Worlds
    BY <1>0 DEF Firm, Sound
  <2> QED
    BY <1>2, <2>1, SteppingFacts
<1>5. Adjusted(w, x)
  BY <1>4 DEF Adjusted, StackChange, StateChange
<1>6. Firm(x)
  BY <1>4, <1>5, FirmAdjusts
<1>9. Lasts(w, x)
  BY <1>4 DEF Mirrored, Lasts
<1>7. CASE r.ok
  <2>1. Kept(x, r.w) /\ Accepted(x, "step", r.w)
    BY <1>0, <1>6, <1>7, FirmAnswers
  <2>2. r.w \in Worlds /\ IsUp(r.w.gdb.process) /\ r.w.st = x.st
    BY <2>1 DEF Accepted, Kept, Resumed, Alive, IsUp
  <2>3. Steady(r.w, v) /\ v.st.runState = "running" /\ v.st.frames = r.w.st.frames
    BY <1>3, <1>7, <2>2, RunStateFacts, ZenonT(30)
  <2>4. Adjusted(r.w, v)
    BY <2>2, <2>3 DEF Adjusted, StackChange, StateChange, Steady
  <2>5. v.st.deferred \in {"none"} \cup StartModes
    BY <2>2, <2>3, <1>6 DEF Firm, Steady
  <2>6. Firm(v)
    BY <1>4, <1>6, <1>7, <2>3, <2>4, <2>5, FirmResumes DEF Running
  <2>7. Lasts(w, v)
    BY <1>9, <2>1, <2>3 DEF Kept, Steady, Mirrored, Lasts
  <2> QED
    BY <2>6, <2>7 DEF Told
<1>8. CASE ~r.ok
  <2>1. Firm(r.w) /\ Lasts(x, r.w)
    BY <1>0, <1>6, <1>8, FirmFails
  <2>2. v = [r.w EXCEPT !.st.stepping = 0]
    BY <1>3, <1>8 DEF EndWalk
  <2>3. /\ Mirrored(r.w, v) /\ v.st.stepping = 0 /\ v.st.stopSeq = r.w.st.stopSeq
        /\ v.st.deferred = r.w.st.deferred /\ v.st.runState = r.w.st.runState
        /\ v.st.frames = r.w.st.frames
    <3>1. r.w \in Worlds
      BY <2>1 DEF Firm, Sound
    <3> QED
      BY <1>0, <2>2, <3>1, SteppingFacts
  <2>4. Adjusted(r.w, v)
    BY <2>3 DEF Adjusted, StackChange, StateChange
  <2>5. Firm(v)
    BY <2>1, <2>3, <2>4, FirmAdjusts
  <2>6. Lasts(w, v)
    BY <1>9, <2>1, <2>3 DEF Mirrored, Lasts
  <2> QED
    BY <2>5, <2>6 DEF Told
<1> QED
  BY <1>7, <1>8

\* what is typed at the console,
LEMMA ConsoleKeeps ==
    ASSUME NEW w, Firm(w), Told(w), MaxLate \in Nat, "console" \in Kinds,
           NEW v \in ConsoleExec(w)
    PROVE  Firm(v) /\ Told(v) /\ Lasts(w, v)
<1>0. "continue" \in Commands
  BY DEF Commands, Verbs
<1>1. PICK r \in Send(w, "continue") : v = r.w
  BY DEF ConsoleExec
<1>2. CASE ~r.ok
  BY <1>0, <1>1, <1>2, FirmFails
<1>3. CASE r.ok
  <2>1. /\ Sound(r.w) /\ Down(r.w) /\ Kept(w, r.w) /\ Accepted(w, "continue", r.w)
        /\ Len(r.w.gdb.late) <= MaxLate /\ Told(r.w)
    BY <1>0, <1>3, FirmAnswers
  <2>2. w \in Worlds /\ Spaced(w) /\ EntryLed(w) /\ Resumed(w, r.w) /\ Moved(w, r.w)
    BY <2>1 DEF Firm, Sound, Accepted, Moved
  <2>3. w.gdb.process # "none" /\ r.w.st = w.st
    BY <2>1, <2>2 DEF Resumed, Kept
  <2>4. EntryLed(r.w)
    BY <2>2, <2>3, EntryLedMoves
  <2>5. InStep(r.w)
    BY DEF InStep
  <2> QED
    BY <1>1, <2>1, <2>3, <2>4, <2>5 DEF Firm, Kept, Lasts
<1> QED
  BY <1>2, <1>3

\* A new gdb, before its file is loaded.
Renewed(w) ==
    [w EXCEPT !.gdb.up = TRUE,
              !.gdb.file = NoFile,
              !.gdb.born = w.gdb.stops,
              !.st.runState = "noProgram",
              !.st.frames = 0,
              !.st.pid = 0]

\* and restartGDB, whatever the old gdb left in the queue.
LEMMA RestartKeeps ==
    ASSUME NEW w, Firm(w), Told(w), MaxLate \in Nat, NEW v \in RestartGDB(w)
    PROVE  Firm(v) /\ Told(v) /\ Lasts(w, v)
<1>1. CASE v = w
  BY <1>1 DEF Lasts
<1>2. CASE /\ ~w.gdb.up
           /\ \/ v = Renewed(w)
              \/ w.st.exe # NoFile /\ v \in ExeLoad(Renewed(w), w.st.exe)
  <2>1. w \in Worlds /\ w.gdb.deaths # 0 /\ w.gdb.process = "none" /\ w.gdb.late = <<>>
    BY <1>2 DEF Firm, Sound, LastWord, Down
  <2> DEFINE g == [w.gdb EXCEPT !.up = TRUE, !.file = NoFile, !.born = w.gdb.stops]
             m == [w.st EXCEPT !.runState = "noProgram", !.frames = 0, !.pid = 0]
  <2>2. PICK u : u = Renewed(w)
    OBVIOUS
  <2>3. u = [w EXCEPT !.gdb = g, !.st = m]
    BY <2>1, <2>2 DEF Renewed, Worlds
  <2>4. g \in Gdbs /\ g.up /\ g.born = w.gdb.stops /\ g.process = "none"
        /\ g.stops = w.gdb.stops /\ g.begun = w.gdb.begun /\ g.deaths = w.gdb.deaths
        /\ g.overtaken = w.gdb.overtaken /\ g.late = <<>> /\ g.stops \in Nat
    BY <2>1 DEF Worlds, Gdbs
  <2>5. m \in Mirrors /\ m.runState = "noProgram" /\ m.frames = 0
        /\ m.stopSeq = w.st.stopSeq /\ m.stepping = w.st.stepping
        /\ m.deferred = w.st.deferred /\ m.exe = w.st.exe
    BY <2>1 DEF Worlds, Mirrors, RunStates
  <2> HIDE DEF g, m
  <2>6. u \in Worlds /\ u.gdb = g /\ u.st = m /\ u.intake = w.intake /\ u.shown = w.shown
    BY <2>1, <2>3, <2>4, <2>5 DEF Worlds
  <2>7. Numbered(u) /\ LastWord(u) /\ Spaced(u) /\ LastStop(u) /\ Entry(u)
    <3>1. u.gdb.deaths # 0
      BY <2>1, <2>4, <2>6
    <3>2. LastWord(u) /\ Spaced(u) /\ LastStop(u)
      BY <3>1 DEF LastWord, Spaced, LastStop
    <3>3. Numbered(w) /\ u.st.stopSeq = w.st.stopSeq /\ u.gdb.stops = w.gdb.stops
          /\ u.intake = w.intake
      BY <2>4, <2>5, <2>6 DEF Firm, Sound
    <3>4. Numbered(u)
      BY <3>3 DEF Numbered
    <3>5. Entry(u)
      BY <2>4, <2>5, <2>6 DEF Firm, Sound, Entry
    <3> QED
      BY <3>2, <3>4, <3>5
  <2>8. StackRead(u) /\ StackOfThis(u)
    BY <2>4, <2>5, <2>6 DEF Firm, Sound, StackRead, StackOfThis
  <2>9. Sound(u)
    BY <2>6, <2>7, <2>8 DEF Sound
  <2>10. Down(u) /\ EntryLed(u) /\ u.st.deferred = w.st.deferred /\ u.gdb.late = w.gdb.late
    BY <2>1, <2>4, <2>5, <2>6 DEF Down, EntryLed
  <2>11. InStep(u)
    BY <2>4, <2>5, <2>6 DEF Firm, InStep, IsUp
  <2>12. Firm(u) /\ Told(u)
    BY <2>1, <2>4, <2>6, <2>9, <2>10, <2>11 DEF Firm, Told
  <2>16. Lasts(w, u)
    BY <2>4, <2>5, <2>6 DEF Lasts
  <2>13. w.st.exe \in Files \cup {NoFile}
    BY <2>1 DEF Worlds, Mirrors
  <2>14. CASE v = Renewed(w)
    BY <2>2, <2>12, <2>14, <2>16
  <2>15. CASE w.st.exe # NoFile /\ v \in ExeLoad(Renewed(w), w.st.exe)
    BY <2>2, <2>12, <2>13, <2>15, <2>16, LoadKeeps DEF Lasts
  <2> QED
    BY <1>2, <2>14, <2>15
<1>3. v = w \/ /\ ~w.gdb.up
               /\ \/ v = Renewed(w)
                  \/ w.st.exe # NoFile /\ v \in ExeLoad(Renewed(w), w.st.exe)
  BY DEF RestartGDB, Renewed
<1> QED
  BY <1>1, <1>2, <1>3

-----------------------------------------------------------------------------
(* Records.                                                                *)

\* What is left of a queue without its first record.
LEMMA QueueTail ==
    ASSUME NEW S, NEW q \in Seq(S), q # <<>>
    PROVE  /\ Head(q) = q[1] /\ Len(q) \in Nat /\ Len(q) >= 1
           /\ Tail(q) \in Seq(S) /\ Len(Tail(q)) = Len(q) - 1
           /\ \A i \in 1 .. Len(q) - 1 : Tail(q)[i] = q[i + 1]
OBVIOUS

\* p is q without its first record.
Behind(q, p, n) ==
    /\ Len(q) = n /\ n \in Nat /\ n >= 1
    /\ Len(p) = n - 1
    /\ \A i \in 1 .. n - 1 : p[i] = q[i + 1]

\* Being led when the first record has been taken: it is what is at hand then.
LEMMA LedTail ==
    ASSUME NEW q, NEW p, NEW n, Behind(q, p, n), NEW a, NEW b,
           IsRunning(q, 1) => b, ~Ending(q[1]) => (a => b),
           NEW i \in 1 .. n, Led(q, a, i + 1)
    PROVE  Led(p, b, i)
<1>1. /\ Len(q) = n /\ n \in Nat /\ n >= 1 /\ Len(p) = n - 1
      /\ \A k \in 1 .. n - 1 : p[k] = q[k + 1]
  BY DEF Behind
<1>2. PICK j \in 0 .. n :
          /\ j < i + 1
          /\ IF j = 0 THEN a ELSE q[j].kind = "running"
          /\ \A k \in 1 .. n : j < k /\ k < i + 1 => ~Ending(q[k])
  BY <1>1 DEF Led
<1>3. CASE j = 0 \/ j = 1
  <2>1. b
    <3>1. CASE j = 0
      <4>1. 1 \in 1 .. n /\ j < 1 /\ 1 < i + 1
        BY <1>1, <3>1
      <4>2. ~Ending(q[1]) /\ a
        BY <1>2, <3>1, <4>1
      <4> QED
        BY <4>2
    <3>2. CASE j = 1
      BY <1>2, <3>2 DEF IsRunning
    <3> QED
      BY <1>3, <3>1, <3>2
  <2>2. ASSUME NEW k \in 1 .. n - 1, 0 < k, k < i PROVE ~Ending(p[k])
    <3>1. k + 1 \in 1 .. n /\ j < k + 1 /\ k + 1 < i + 1
      BY <1>1, <1>3, <2>2
    <3> QED
      BY <1>1, <1>2, <3>1
  <2>3. 0 \in 0 .. Len(p) /\ 0 < i
    BY <1>1
  <2> QED
    BY <1>1, <2>1, <2>2, <2>3 DEF Led
<1>4. CASE j >= 2
  <2>1. j - 1 \in 0 .. n - 1 /\ j - 1 < i /\ j - 1 # 0 /\ p[j - 1] = q[j]
    BY <1>1, <1>2, <1>4
  <2>2. p[j - 1].kind = "running"
    BY <1>2, <1>4, <2>1
  <2>3. ASSUME NEW k \in 1 .. n - 1, j - 1 < k, k < i PROVE ~Ending(p[k])
    <3>1. k + 1 \in 1 .. n /\ j < k + 1 /\ k + 1 < i + 1
      BY <1>1, <2>3
    <3> QED
      BY <1>1, <1>2, <3>1
  <2> QED
    BY <1>1, <2>1, <2>2, <2>3 DEF Led
<1> QED
  BY <1>3, <1>4

\* The record has left the queue, and the mirror follows it.
Taken(w, v) ==
    /\ w.intake # <<>>
    /\ v \in Worlds
    /\ v.gdb = w.gdb
    /\ v.intake = Tail(w.intake)

\* The mirror follows a record h.
Follows(w, v, h) ==
    /\ v.st.stopSeq = w.st.stopSeq + (IF h.kind = "stopped" THEN 1 ELSE 0)
    /\ v.st.deferred = IF h.kind = "stopped" THEN "none" ELSE w.st.deferred
    /\ v.st.stepping = w.st.stepping
    /\ h.kind = "running" => v.st.runState = "running"
    /\ h.kind = "started" => v.st.runState = w.st.runState
    /\ LiveStop(h) => v.st.runState = "stopped"
    /\ Ending(h) /\ ~LiveStop(h) => v.st.runState \in {"exited", "noProgram"}
    /\ \/ v.st.frames = 0
       \/ /\ v.st.frames = w.st.frames
          /\ v.st.runState = w.st.runState \/ LiveStop(h)

\* What the two worlds have to do with each other.
LEMMA TakenFacts ==
    ASSUME NEW w \in Worlds, NEW v, Taken(w, v), NEW q, q = w.intake
    PROVE  /\ Behind(q, v.intake, Len(q))
           /\ Head(q) = q[1]
           /\ q[1] \in Records
           /\ q[1].kind \in {"running", "started", "groupExited", "stopped"}
           /\ \A i \in 1 .. Len(q) : q[i].number \in Nat
<1>1. q \in Seq(Records) /\ q # <<>> /\ v.intake = Tail(q)
  BY WorldTypes DEF Taken
<1>2. /\ Head(q) = q[1] /\ Len(q) \in Nat /\ Len(q) >= 1
      /\ Len(Tail(q)) = Len(q) - 1
      /\ \A i \in 1 .. Len(q) - 1 : Tail(q)[i] = q[i + 1]
  BY <1>1, QueueTail
<1>3. Behind(q, v.intake, Len(q))
  BY <1>1, <1>2 DEF Behind
<1>4. 1 \in 1 .. Len(q)
  BY <1>2
<1>5. q[1] \in Records
  BY <1>1, <1>4
<1>6. q[1].kind \in {"running", "started", "groupExited", "stopped"}
  BY <1>5 DEF Records
<1>7. \A i \in 1 .. Len(q) : q[i].number \in Nat
  BY WorldTypes
<1> QED
  BY <1>2, <1>3, <1>5, <1>6, <1>7

\* Taking a record keeps the stops numbered: the stop taken is later than the mirror's.
LEMMA NumberedTakes ==
    ASSUME NEW w \in Worlds, NEW v, Taken(w, v), Follows(w, v, Head(w.intake)), Numbered(w)
    PROVE  /\ Numbered(v)
           /\ v.st.frames # 0 /\ LiveStop(Head(w.intake)) /\ v.st.frames >= Head(w.intake).number
                  => v.st.frames >= v.st.stopSeq
<1> DEFINE q == w.intake
           p == v.intake
           n == Len(q)
           h == q[1]
           t == w.st.stopSeq
           s == w.gdb.stops
<1>1. Behind(q, p, n) /\ Head(q) = h /\ \A i \in 1 .. n : q[i].number \in Nat
  BY TakenFacts
<1>2. t \in Nat /\ s \in Nat /\ v.gdb = w.gdb /\ v.st.frames \in Nat
  BY WorldTypes DEF Taken
<1>3. v.st.stopSeq = t + (IF h.kind = "stopped" THEN 1 ELSE 0)
  BY <1>1 DEF Follows
<1>4. /\ t <= s
      /\ \A i \in 1 .. n : q[i].kind = "stopped" => t < q[i].number /\ q[i].number <= s
      /\ \A i, j \in 1 .. n : i < j /\ q[i].kind = "stopped" /\ q[j].kind = "stopped" =>
             q[i].number < q[j].number
  BY DEF Numbered
<1> HIDE DEF q, p, n, t, s
<1>5. n \in Nat /\ n >= 1 /\ Len(p) = n - 1 /\ \A i \in 1 .. n - 1 : p[i] = q[i + 1]
      /\ 1 \in 1 .. n
  BY <1>1 DEF Behind
<1>6. v.st.stopSeq <= s
  <2>1. h.number \in Nat /\ (h.kind = "stopped" => t < h.number /\ h.number <= s)
    BY <1>1, <1>4, <1>5
  <2> QED
    BY <1>2, <1>3, <1>4, <2>1
<1>7. ASSUME NEW i \in 1 .. n - 1, p[i].kind = "stopped"
      PROVE  v.st.stopSeq < p[i].number /\ p[i].number <= s
  <2>1. i + 1 \in 1 .. n /\ 1 < i + 1 /\ p[i] = q[i + 1]
    BY <1>5
  <2>2. t < q[i + 1].number /\ q[i + 1].number <= s /\ q[i + 1].number \in Nat
    BY <1>1, <1>4, <1>7, <2>1
  <2>3. h.kind = "stopped" => t + 1 < q[i + 1].number
    <3>1. h.kind = "stopped" => t < h.number /\ h.number < q[i + 1].number /\ h.number \in Nat
      BY <1>1, <1>4, <1>5, <1>7, <2>1
    <3> QED
      BY <1>2, <2>2, <3>1
  <2> QED
    BY <1>2, <1>3, <2>1, <2>2, <2>3
<1>8. ASSUME NEW i \in 1 .. n - 1, NEW j \in 1 .. n - 1, i < j,
             p[i].kind = "stopped", p[j].kind = "stopped"
      PROVE  p[i].number < p[j].number
  <2>1. i + 1 \in 1 .. n /\ j + 1 \in 1 .. n /\ i + 1 < j + 1 /\ p[i] = q[i + 1]
        /\ p[j] = q[j + 1]
    BY <1>5, <1>8
  <2> QED
    BY <1>4, <1>8, <2>1
<1>9. Numbered(v)
  BY <1>2, <1>5, <1>6, <1>7, <1>8 DEF Numbered, p, s
<1>10. h.kind = "stopped" => h.number >= v.st.stopSeq /\ h.number \in Nat
  BY <1>1, <1>2, <1>3, <1>4, <1>5
<1>11. v.st.stopSeq \in Nat
  BY <1>2, <1>3
<1> QED
  BY <1>1, <1>2, <1>9, <1>10, <1>11 DEF LiveStop, q

\* Taking the last record makes the mirror say what the process does.
LEMMA LastWordTakes ==
    ASSUME NEW w \in Worlds, NEW v, Taken(w, v), Follows(w, v, Head(w.intake)), LastWord(w)
    PROVE  LastWord(v)
<1> DEFINE q == w.intake
           p == v.intake
           n == Len(q)
           h == q[1]
<1>1. Behind(q, p, n) /\ Head(q) = h
      /\ h.kind \in {"running", "started", "groupExited", "stopped"}
  BY TakenFacts
<1>2. v.gdb = w.gdb /\ v \in Worlds /\ q # <<>>
  BY DEF Taken
<1>3. p \in Seq(Records)
  BY <1>2, WorldTypes
<1>4. n \in Nat /\ n >= 1 /\ Len(p) = n - 1 /\ \A i \in 1 .. n - 1 : p[i] = q[i + 1]
  BY <1>1 DEF Behind
<1> SUFFICES ASSUME w.gdb.deaths = 0
             PROVE  /\ p = <<>> => Agrees(v.st.runState, w.gdb.process)
                    /\ p # <<>> => Says(p[Len(p)], w.gdb.process)
  BY <1>2 DEF LastWord
<1>5. Says(q[n], w.gdb.process)
  BY <1>2 DEF LastWord
<1>6. Follows(w, v, h)
  BY <1>1
<1> HIDE DEF q, p, n, h
<1>7. CASE p = <<>>
  <2>1. n = 1
    BY <1>3, <1>4, <1>7
  <2>2. Says(h, w.gdb.process)
    BY <1>5, <2>1 DEF h
  <2> QED
    BY <1>1, <1>6, <1>7, <2>2 DEF Says, Follows, Agrees, LiveStop, Ending, IsUp
<1>8. CASE p # <<>>
  <2>1. n - 1 >= 1
    BY <1>3, <1>4, <1>8
  <2>2. p[n - 1] = q[n]
    <3>1. n - 1 \in 1 .. n - 1 /\ (n - 1) + 1 = n
      BY <1>4, <2>1
    <3> QED
      BY <1>4, <3>1
  <2> QED
    BY <1>4, <1>5, <1>8, <2>2
<1> QED
  BY <1>7, <1>8

\* Taking a record keeps the stack as new as the stops to come.
LEMMA StackReadTakes ==
    ASSUME NEW w \in Worlds, NEW v, Taken(w, v), Follows(w, v, Head(w.intake)), StackRead(w),
           Numbered(w)
    PROVE  StackRead(v)
<1> DEFINE q == w.intake
           p == v.intake
           n == Len(q)
           h == q[1]
           f == w.st.frames
           up == IsUp(w.gdb.process)
<1>1. Behind(q, p, n) /\ Head(q) = h
      /\ h.kind \in {"running", "started", "groupExited", "stopped"}
      /\ \A i \in 1 .. n : q[i].number \in Nat
  BY TakenFacts
<1>2. v.gdb = w.gdb /\ f \in Nat
  BY WorldTypes DEF Taken
<1>3. n \in Nat /\ n >= 1 /\ Len(p) = n - 1 /\ \A i \in 1 .. n - 1 : p[i] = q[i + 1]
  BY <1>1 DEF Behind
<1>4. Follows(w, v, h)
  BY <1>1
<1> SUFFICES ASSUME "stepLine" \notin Kinds
             PROVE  /\ v.st.stepping = 0
                    /\ v.st.frames # 0 =>
                          /\ v.st.runState = "stopped"
                          /\ v.st.deferred = "none"
                          /\ v.st.frames >= v.st.stopSeq
                          /\ \A i \in 1 .. n - 1 : p[i].kind = "stopped" =>
                                \/ v.st.frames >= p[i].number
                                \/ \E j \in 1 .. n - 1 : j < i /\ p[j].kind = "running"
                          /\ up => \E j \in 1 .. n - 1 : p[j].kind = "running"
  BY <1>2, <1>3 DEF StackRead
<1>5. /\ w.st.stepping = 0
      /\ f # 0 =>
            /\ w.st.runState = "stopped"
            /\ w.st.deferred = "none"
            /\ f >= w.st.stopSeq
            /\ \A i \in 1 .. n : q[i].kind = "stopped" =>
                  \/ f >= q[i].number
                  \/ \E j \in 1 .. n : j < i /\ q[j].kind = "running"
            /\ up => \E j \in 1 .. n : q[j].kind = "running"
  BY DEF StackRead
<1>6. v.st.stepping = 0
  BY <1>4, <1>5 DEF Follows
<1>7. SUFFICES ASSUME v.st.frames # 0
               PROVE  /\ v.st.runState = "stopped"
                      /\ v.st.deferred = "none"
                      /\ v.st.frames >= v.st.stopSeq
                      /\ \A i \in 1 .. n - 1 : p[i].kind = "stopped" =>
                            \/ v.st.frames >= p[i].number
                            \/ \E j \in 1 .. n - 1 : j < i /\ p[j].kind = "running"
                      /\ up => \E j \in 1 .. n - 1 : p[j].kind = "running"
  BY <1>6
<1>8. v.st.frames = f /\ (v.st.runState = w.st.runState \/ LiveStop(h))
  BY <1>4, <1>7 DEF Follows
<1>9. h.kind = "started" \/ LiveStop(h)
  BY <1>1, <1>4, <1>5, <1>7, <1>8 DEF Follows, LiveStop, Ending
<1>10. v.st.runState = "stopped" /\ v.st.deferred = "none"
  BY <1>4, <1>5, <1>7, <1>8, <1>9 DEF Follows, LiveStop
<1>11. f >= v.st.stopSeq
  <2>1. CASE h.kind = "started"
    BY <1>2, <1>4, <1>5, <1>7, <1>8, <2>1, WorldTypes DEF Follows
  <2>2. CASE LiveStop(h)
    <3>1. 1 \in 1 .. n /\ ~\E j \in 1 .. n : j < 1
      BY <1>3
    <3>2. f >= h.number
      BY <1>5, <1>7, <1>8, <2>2, <3>1 DEF LiveStop
    <3> QED
      BY <1>1, <1>7, <1>8, <2>2, <3>2, NumberedTakes
  <2> QED
    BY <1>9, <2>1, <2>2
<1> HIDE DEF q, p, n, f, up
<1>12. ASSUME NEW j \in 1 .. n, q[j].kind = "running"
       PROVE  j - 1 \in 1 .. n - 1 /\ p[j - 1].kind = "running" /\ j - 1 < j
  <2>1. j # 1
    BY <1>9, <1>12 DEF LiveStop
  <2>2. j - 1 \in 1 .. n - 1 /\ (j - 1) + 1 = j
    BY <1>3, <2>1
  <2> QED
    BY <1>3, <1>12, <2>2
<1>13. ASSUME NEW i \in 1 .. n - 1, p[i].kind = "stopped"
       PROVE  f >= p[i].number \/ \E j \in 1 .. n - 1 : j < i /\ p[j].kind = "running"
  <2>1. i + 1 \in 1 .. n /\ p[i] = q[i + 1]
    BY <1>3
  <2>2. CASE f >= q[i + 1].number
    BY <2>1, <2>2
  <2>3. CASE \E j \in 1 .. n : j < i + 1 /\ q[j].kind = "running"
    <3>1. PICK j \in 1 .. n : j < i + 1 /\ q[j].kind = "running"
      BY <2>3
    <3>2. j - 1 \in 1 .. n - 1 /\ p[j - 1].kind = "running" /\ j - 1 < i
      BY <1>3, <1>12, <3>1
    <3> QED
      BY <3>2
  <2> QED
    BY <1>5, <1>7, <1>8, <1>13, <2>1, <2>2, <2>3
<1>14. up => \E j \in 1 .. n - 1 : p[j].kind = "running"
  BY <1>5, <1>7, <1>8, <1>12
<1> QED
  BY <1>8, <1>10, <1>11, <1>13, <1>14 DEF f

\* What leads a record leads it when the first one has been taken.
LEMMA LedTakes ==
    ASSUME NEW w \in Worlds, NEW v, Taken(w, v), Follows(w, v, Head(w.intake)),
           NEW n, n = Len(w.intake), NEW i \in 1 .. n
    PROVE  /\ Led(w.intake, TRUE, i + 1) => Led(v.intake, TRUE, i)
           /\ Led(w.intake, Running(w), i + 1) => Led(v.intake, Running(v), i)
<1> DEFINE q == w.intake
           p == v.intake
           h == q[1]
           a == Running(w)
           b == Running(v)
           yes == TRUE
<1>1. Behind(q, p, n) /\ Head(q) = h
      /\ h.kind \in {"running", "started", "groupExited", "stopped"}
  BY TakenFacts
<1>2. IsRunning(q, 1) => b
  BY <1>1 DEF Follows, Running, IsRunning
<1>3. ~Ending(q[1]) => (a => b)
  BY <1>1 DEF Follows, Running, Ending
<1>4. yes
  OBVIOUS
<1> SUFFICES (Led(q, yes, i + 1) => Led(p, yes, i)) /\ (Led(q, a, i + 1) => Led(p, b, i))
  OBVIOUS
<1> HIDE DEF q, p, a, b, yes
<1>5. Led(q, yes, i + 1) => Led(p, yes, i)
  BY <1>1, <1>4, LedTail
<1>6. Led(q, a, i + 1) => Led(p, b, i)
  BY <1>1, <1>2, <1>3, LedTail
<1> QED
  BY <1>5, <1>6

\* Taking a record keeps a resume between one stop and the next.
LEMMA SpacedTakes ==
    ASSUME NEW w \in Worlds, NEW v, Taken(w, v), Follows(w, v, Head(w.intake)), Spaced(w)
    PROVE  Spaced(v)
<1> DEFINE q == w.intake
           p == v.intake
           n == Len(q)
           a == Running(w)
           b == Running(v)
           yes == TRUE
<1>1. Behind(q, p, n)
  BY TakenFacts
<1>2. n \in Nat /\ n >= 1 /\ Len(p) = n - 1 /\ \A i \in 1 .. n - 1 : p[i] = q[i + 1]
      /\ Len(p) + 1 = n
  BY <1>1 DEF Behind
<1>3. v.gdb = w.gdb
  BY DEF Taken
<1>4. \A i \in 1 .. n : /\ Led(q, yes, i + 1) => Led(p, yes, i)
                        /\ Led(q, a, i + 1) => Led(p, b, i)
  BY LedTakes
<1> SUFFICES ASSUME w.gdb.deaths = 0
             PROVE  /\ \A i \in 1 .. Len(p) : LiveStop(p[i]) => Led(p, yes, i)
                    /\ IsUp(w.gdb.process) => Led(p, b, Len(p) + 1)
  BY <1>3 DEF Spaced
<1>5. /\ \A i \in 1 .. n : LiveStop(q[i]) => Led(q, yes, i)
      /\ IsUp(w.gdb.process) => Led(q, a, n + 1)
  BY DEF Spaced
<1> HIDE DEF q, p, n, a, b, yes
<1>6. ASSUME NEW i \in 1 .. n - 1, LiveStop(p[i]) PROVE Led(p, yes, i)
  <2>1. i \in 1 .. n /\ i + 1 \in 1 .. n /\ p[i] = q[i + 1]
    BY <1>2
  <2> QED
    BY <1>4, <1>5, <1>6, <2>1
<1>7. n \in 1 .. n
  BY <1>2
<1>8. IsUp(w.gdb.process) => Led(p, b, n)
  BY <1>4, <1>5, <1>7
<1> QED
  BY <1>2, <1>6, <1>8

\* Taking a record keeps the last stop led.
LEMMA LastStopTakes ==
    ASSUME NEW w \in Worlds, NEW v, Taken(w, v), Follows(w, v, Head(w.intake)), LastStop(w)
    PROVE  LastStop(v)
<1> DEFINE q == w.intake
           p == v.intake
           n == Len(q)
           a == Running(w)
           b == Running(v)
<1>1. Behind(q, p, n)
  BY TakenFacts
<1>2. n \in Nat /\ n >= 1 /\ Len(p) = n - 1 /\ \A i \in 1 .. n - 1 : p[i] = q[i + 1]
  BY <1>1 DEF Behind
<1>3. v.gdb = w.gdb
  BY DEF Taken
<1>4. \A i \in 1 .. n : Led(q, a, i + 1) => Led(p, b, i)
  BY LedTakes
<1> SUFFICES ASSUME w.gdb.deaths = 0, NEW i \in 1 .. n - 1, LiveStop(p[i]),
                    \A k \in 1 .. n - 1 : i < k => ~Ending(p[k])
             PROVE  Led(p, b, i) /\ w.gdb.process # "none"
  BY <1>2, <1>3 DEF LastStop
<1>5. \A j \in 1 .. n :
          LiveStop(q[j]) /\ (\A k \in 1 .. n : j < k => ~Ending(q[k])) =>
              Led(q, a, j) /\ w.gdb.process # "none"
  BY DEF LastStop
<1> HIDE DEF q, p, n, a, b
<1>6. i \in 1 .. n /\ i + 1 \in 1 .. n /\ p[i] = q[i + 1]
  BY <1>2
<1>7. ASSUME NEW k \in 1 .. n, i + 1 < k PROVE ~Ending(q[k])
  <2>1. k - 1 \in 1 .. n - 1 /\ i < k - 1 /\ (k - 1) + 1 = k
    BY <1>2, <1>7
  <2>2. p[k - 1] = q[k]
    BY <1>2, <2>1
  <2> QED
    BY <2>1, <2>2
<1> QED
  BY <1>4, <1>5, <1>6, <1>7

\* Taking a record keeps every stop led while a deferred start waits.
LEMMA EntryLedTakes ==
    ASSUME NEW w \in Worlds, NEW v, Taken(w, v), Follows(w, v, Head(w.intake)), EntryLed(w)
    PROVE  EntryLed(v)
<1> DEFINE q == w.intake
           p == v.intake
           n == Len(q)
           a == Running(w)
           b == Running(v)
<1>1. Behind(q, p, n)
  BY TakenFacts
<1>2. n \in Nat /\ n >= 1 /\ Len(p) = n - 1 /\ \A i \in 1 .. n - 1 : p[i] = q[i + 1]
  BY <1>1 DEF Behind
<1>3. v.gdb = w.gdb /\ v.st.deferred \in {"none", w.st.deferred}
  BY DEF Taken, Follows
<1>4. \A i \in 1 .. n : Led(q, a, i + 1) => Led(p, b, i)
  BY LedTakes
<1> SUFFICES ASSUME MaxLate = 0, w.gdb.deaths = 0, v.st.deferred = "resume",
                    w.gdb.process # "none", NEW i \in 1 .. n - 1, LiveStop(p[i])
             PROVE  Led(p, b, i)
  BY <1>2, <1>3 DEF EntryLed
<1>5. \A j \in 1 .. n : LiveStop(q[j]) => Led(q, a, j)
  BY <1>3 DEF EntryLed
<1> HIDE DEF q, p, n, a, b
<1>6. i \in 1 .. n /\ i + 1 \in 1 .. n /\ p[i] = q[i + 1]
  BY <1>2
<1> QED
  BY <1>4, <1>5, <1>6

\* Taking a record keeps the mirror's count in step with gdb's.
LEMMA InStepTakes ==
    ASSUME NEW w \in Worlds, NEW v, Taken(w, v), Follows(w, v, Head(w.intake)), InStep(w),
           Numbered(w)
    PROVE  InStep(v)
<1> DEFINE q == w.intake
           n == Len(q)
           h == q[1]
           t == w.st.stopSeq
           s == w.gdb.stops
<1>1. Behind(q, v.intake, n) /\ Head(q) = h
      /\ h.kind \in {"running", "started", "groupExited", "stopped"}
      /\ \A i \in 1 .. n : q[i].number \in Nat
  BY TakenFacts
<1>2. t \in Nat /\ s \in Nat /\ v.gdb = w.gdb
  BY WorldTypes DEF Taken
<1>3. v.st.stopSeq = t + (IF h.kind = "stopped" THEN 1 ELSE 0)
  BY <1>1 DEF Follows
<1>4. 1 \in 1 .. n
  BY <1>1 DEF Behind
<1>5. h.number \in Nat /\ (h.kind = "stopped" => t < h.number /\ h.number <= s)
  BY <1>1, <1>4 DEF Numbered
<1>6. v.st.runState = "stopped" => h.kind = "stopped" \/ w.st.runState = "stopped"
  <2>1. Follows(w, v, h)
    BY <1>1
  <2>2. h.kind \in {"running", "started", "groupExited", "stopped"}
    BY <1>1
  <2> HIDE DEF h
  <2> QED
    BY <2>1, <2>2 DEF Follows, LiveStop, Ending
<1> HIDE DEF q, n, h, t, s
<1> SUFFICES ASSUME MaxLate = 0, "console" \notin Kinds, ~w.gdb.overtaken
             PROVE  /\ s <= v.st.stopSeq + 1
                    /\ IsUp(w.gdb.process) => v.st.stopSeq = s
                    /\ v.st.runState = "stopped" => ~IsUp(w.gdb.process) /\ v.st.stopSeq = s
  BY <1>2 DEF InStep, s
<1>7. /\ s <= t + 1
      /\ IsUp(w.gdb.process) => t = s
      /\ w.st.runState = "stopped" => ~IsUp(w.gdb.process) /\ t = s
  BY DEF InStep, s, t
<1> QED
  BY <1>2, <1>3, <1>5, <1>6, <1>7

\* A record that is taken and followed keeps a world firm.
LEMMA FirmTakes ==
    ASSUME NEW w, NEW v, Firm(w), Taken(w, v), Follows(w, v, Head(w.intake))
    PROVE  Firm(v)
<1>1. w \in Worlds /\ Sound(w) /\ v \in Worlds /\ v.gdb = w.gdb
  BY DEF Firm, Sound, Taken
<1>2. Numbered(v) /\ LastWord(v) /\ StackRead(v) /\ Spaced(v) /\ LastStop(v)
  BY <1>1, NumberedTakes, LastWordTakes, StackReadTakes, SpacedTakes, LastStopTakes DEF Sound
<1>3. StackOfThis(v)
  BY <1>1 DEF Sound, StackOfThis, Follows
<1>4. Entry(v)
  <2>1. w.st.stopSeq \in Nat /\ Entry(w)
    BY <1>1, WorldTypes DEF Sound
  <2> QED
    BY <1>1, <2>1 DEF Entry, Follows
<1>5. EntryLed(v) /\ InStep(v)
  BY <1>1, EntryLedTakes, InStepTakes DEF Firm, Sound
<1>6. Down(v) /\ Len(v.gdb.late) <= MaxLate /\ v.st.deferred \in {"none"} \cup StartModes
  BY <1>1 DEF Firm, Down, Follows
<1> QED
  BY <1>1, <1>2, <1>3, <1>4, <1>5, <1>6 DEF Firm, Sound

\* The world without its first record.
Popped(w, t) ==
    /\ Taken(w, t)
    /\ t.st = w.st
    /\ t.shown = w.shown

\* It is a world of its own.
LEMMA PoppedFacts ==
    ASSUME NEW w \in Worlds, w.intake # <<>>, NEW t, t = [w EXCEPT !.intake = Tail(@)]
    PROVE  Popped(w, t)
<1>1. w.intake \in Seq(Records) /\ Tail(w.intake) \in Seq(Records)
  BY WorldTypes, QueueTail
<1> QED
  BY <1>1 DEF Popped, Taken, Worlds

\* What is told of a world is told of it when a record that ends nothing has been taken.
LEMMA ToldPops ==
    ASSUME NEW w \in Worlds, NEW v, Taken(w, v), Told(w),
           v.st.runState = w.st.runState, v.st.stopSeq = w.st.stopSeq,
           v.st.deferred = w.st.deferred, v.shown = w.shown,
           Running(w) => ~Ending(Head(w.intake))
    PROVE  Told(v)
<1> DEFINE q == w.intake
           p == v.intake
           n == Len(q)
<1>1. Behind(q, p, n) /\ Head(q) = q[1]
  BY TakenFacts
<1>2. n \in Nat /\ n >= 1 /\ Len(p) = n - 1 /\ \A i \in 1 .. n - 1 : p[i] = q[i + 1]
  BY <1>1 DEF Behind
<1>3. v.gdb = w.gdb
  BY DEF Taken
<1>4. Running(w) => ~Ending(q[1])
  BY <1>1
<1> HIDE DEF q, p, n
<1>5. ASSUME Running(w), NEW i \in 1 .. n, Ending(q[i])
      PROVE  \E k \in 1 .. n - 1 : Ending(p[k])
  <2>1. i # 1
    BY <1>4, <1>5
  <2>2. i - 1 \in 1 .. n - 1 /\ (i - 1) + 1 = i
    BY <1>2, <2>1
  <2> QED
    BY <1>2, <1>5, <2>2
<1>6. Running(w) /\ (\E i \in 1 .. n : Ending(q[i])) => \E k \in 1 .. Len(p) : Ending(p[k])
  BY <1>2, <1>5
<1> QED
  BY <1>3, <1>6 DEF Told, Running, q, p, n

\* *running keeps a world firm, and the browsers told of it.
LEMMA TakeRunning ==
    ASSUME NEW w, Firm(w), Told(w), NEW t, Popped(w, t), Head(w.intake).kind = "running",
           NEW v, v = SetRunning(t)
    PROVE  Firm(v) /\ Told(v) /\ Lasts(w, v)
<1>1. w \in Worlds /\ t \in Worlds /\ t.st = w.st /\ t.shown = w.shown /\ Taken(w, t)
  BY DEF Firm, Sound, Popped, Taken
<1>2. RunsNow(t, v)
  BY <1>1, SetRunningFacts
<1>3. Taken(w, v)
  BY <1>1, <1>2 DEF RunsNow, Steady, Mirrored, Taken
<1>4. w.st.stopSeq \in Nat
  BY <1>1, WorldTypes
<1>5. Follows(w, v, Head(w.intake))
  BY <1>1, <1>2, <1>4 DEF RunsNow, Steady, Follows, LiveStop, Ending
<1>6. Firm(v)
  BY <1>3, <1>5, FirmTakes
<1>9. Lasts(w, v)
  BY <1>1, <1>2, <1>3 DEF RunsNow, Steady, Taken, Lasts
<1>7. CASE w.st.runState = "running"
  <2>1. v = t
    BY <1>1, <1>2, <1>7 DEF RunsNow
  <2> QED
    BY <1>1, <1>6, <1>9, <2>1, ToldPops DEF Ending
<1>8. CASE w.st.runState # "running"
  BY <1>1, <1>2, <1>6, <1>8, <1>9 DEF RunsNow, Told
<1> QED
  BY <1>7, <1>8

\* So does =thread-group-started,
LEMMA TakeStarted ==
    ASSUME NEW w, Firm(w), Told(w), NEW t, Popped(w, t), Head(w.intake).kind = "started",
           NEW run \in Nat, NEW v, v = [t EXCEPT !.st.pid = run]
    PROVE  Firm(v) /\ Told(v) /\ Lasts(w, v)
<1>1. w \in Worlds /\ t \in Worlds /\ t.st = w.st /\ t.shown = w.shown /\ Taken(w, t)
  BY DEF Firm, Sound, Popped, Taken
<1>2. Steady(t, v) /\ v.st.runState = t.st.runState /\ v.st.frames = t.st.frames
      /\ v.shown = t.shown
  BY <1>1 DEF Worlds, Mirrors, Steady, Mirrored
<1>3. Taken(w, v)
  BY <1>1, <1>2 DEF Steady, Mirrored, Taken
<1>4. w.st.stopSeq \in Nat
  BY <1>1, WorldTypes
<1>5. Follows(w, v, Head(w.intake))
  BY <1>1, <1>2, <1>4 DEF Steady, Follows, LiveStop, Ending
<1>6. Firm(v)
  BY <1>3, <1>5, FirmTakes
<1>7. Lasts(w, v)
  BY <1>1, <1>2, <1>3 DEF Steady, Taken, Lasts
<1> QED
  BY <1>1, <1>2, <1>3, <1>6, <1>7, ToldPops DEF Steady, Ending

\* =thread-group-exited,
LEMMA TakeGone ==
    ASSUME NEW w, Firm(w), Told(w), NEW t, Popped(w, t), Head(w.intake).kind = "groupExited",
           NEW code \in Nat, NEW v,
           v = IF t.st.runState = "noProgram" THEN t ELSE SetExited(t, code, 0)
    PROVE  Firm(v) /\ Told(v) /\ Lasts(w, v)
<1>1. w \in Worlds /\ t \in Worlds /\ t.st = w.st /\ t.shown = w.shown /\ Taken(w, t)
  BY DEF Firm, Sound, Popped, Taken
<1>2. w.st.stopSeq \in Nat
  BY <1>1, WorldTypes
<1>3. CASE w.st.runState = "noProgram"
  <2>1. v = t
    BY <1>1, <1>3
  <2>2. Follows(w, v, Head(w.intake))
    BY <1>1, <1>2, <1>3, <2>1 DEF Follows, LiveStop, Ending
  <2>3. Firm(v)
    BY <1>1, <2>1, <2>2, FirmTakes
  <2>4. Lasts(w, v)
    BY <1>1, <2>1 DEF Taken, Lasts
  <2> QED
    BY <1>1, <1>3, <2>1, <2>3, <2>4, ToldPops DEF Running
<1>4. CASE w.st.runState # "noProgram"
  <2>1. Quits(t, v)
    BY <1>1, <1>4, SetExitedFacts
  <2>2. Taken(w, v)
    BY <1>1, <2>1 DEF Quits, Steady, Mirrored, Taken
  <2>3. Follows(w, v, Head(w.intake))
    BY <1>1, <1>2, <2>1 DEF Quits, Steady, Follows, LiveStop, Ending
  <2>4. Firm(v)
    BY <2>2, <2>3, FirmTakes
  <2>5. Told(v)
    BY <1>1, <2>1, <2>2 DEF Quits, Told, Running, Taken
  <2>6. Lasts(w, v)
    BY <1>1, <2>1, <2>2 DEF Quits, Steady, Taken, Lasts
  <2> QED
    BY <2>4, <2>5, <2>6
<1> QED
  BY <1>3, <1>4

\* and *stopped of a program that has exited.
LEMMA TakeExit ==
    ASSUME NEW w, Firm(w), Told(w), NEW t, Popped(w, t),
           NEW rec \in Records, rec = Head(w.intake), rec.kind = "stopped", rec.why = "exited",
           NEW v \in OnStopped(t, rec)
    PROVE  /\ Firm(v) /\ Told(v) /\ v.gdb.deaths = w.gdb.deaths
           /\ v.st.stopSeq = w.st.stopSeq + 1
<1>1. w \in Worlds /\ t \in Worlds /\ t.st = w.st /\ t.shown = w.shown /\ Taken(w, t)
  BY DEF Firm, Sound, Popped, Taken
<1>2. w.st.stopSeq \in Nat /\ w.st.stopSeq + 1 \in Nat /\ rec.code \in Nat /\ rec.signal \in Nat
  <2>1. w.st.stopSeq \in Nat
    BY <1>1, WorldTypes
  <2>2. rec.code \in Nat /\ rec.signal \in Nat
    BY DEF Records
  <2> QED
    BY <2>1, <2>2
<1>3. PICK c : c = [t EXCEPT !.st.stopSeq = @ + 1]
  OBVIOUS
<1>4. PICK u : u = [c EXCEPT !.st.deferred = "none"]
  OBVIOUS
<1>5. v = SetExited(u, rec.code, rec.signal)
  BY <1>3, <1>4 DEF OnStopped
<1>6. c \in Worlds /\ c.st.stopSeq = w.st.stopSeq + 1 /\ c.st.stepping = w.st.stepping
      /\ c.st.runState = w.st.runState /\ c.st.frames = w.st.frames
      /\ c.shown = w.shown /\ c.gdb = t.gdb /\ c.intake = t.intake
  BY <1>1, <1>2, <1>3 DEF Worlds, Mirrors
<1>7. /\ Mirrored(c, u) /\ u.shown = c.shown
      /\ u.st.stepping = c.st.stepping /\ u.st.stopSeq = c.st.stopSeq
      /\ u.st.deferred = "none" /\ u.st.runState = c.st.runState
      /\ u.st.frames = c.st.frames
  BY <1>4, <1>6, DeferredFacts
<1>8. u \in Worlds
  BY <1>7 DEF Mirrored
<1>9. Quits(u, v)
  BY <1>2, <1>5, <1>8, SetExitedFacts
<1>10. Taken(w, v)
  BY <1>1, <1>6, <1>7, <1>9 DEF Quits, Steady, Mirrored, Taken
<1>11. Follows(w, v, rec)
  BY <1>2, <1>6, <1>7, <1>9 DEF Quits, Steady, Follows, LiveStop, Ending
<1>12. Firm(v)
  BY <1>10, <1>11, FirmTakes
<1>13. Told(v)
  BY <1>1, <1>6, <1>7, <1>9, <1>10 DEF Quits, Told, Running, Taken
<1> QED
  BY <1>10, <1>11, <1>12, <1>13 DEF Taken, Follows

\* A stop that has been counted follows its record, so it is firm.
LEMMA HaltedFacts ==
    ASSUME NEW w, Firm(w), NEW t, Popped(w, t), LiveStop(Head(w.intake)),
           Head(w.intake) \in Records, NEW e, e = Halted(t)
    PROVE  /\ Firm(e)
           /\ e.gdb = w.gdb /\ e.intake = Tail(w.intake) /\ e.shown = w.shown
           /\ e.st.runState = "stopped" /\ e.st.deferred = "none"
           /\ e.st.stopSeq = w.st.stopSeq + 1
           /\ e.st.frames = w.st.frames /\ e.st.stepping = w.st.stepping
<1>1. w \in Worlds /\ t \in Worlds /\ t.st = w.st /\ t.shown = w.shown /\ Taken(w, t)
  BY DEF Firm, Sound, Popped, Taken
<1>2. w.st.stopSeq \in Nat /\ w.st.stopSeq + 1 \in Nat
  BY <1>1, WorldTypes
<1>3. PICK c : c = [t EXCEPT !.st.stopSeq = @ + 1]
  OBVIOUS
<1>4. PICK d : d = [c EXCEPT !.st.runState = "stopped"]
  OBVIOUS
<1>5. e = [d EXCEPT !.st.deferred = "none"]
  BY <1>3, <1>4 DEF Halted, Counted
<1>6. c \in Worlds /\ c.st.stopSeq = w.st.stopSeq + 1 /\ c.st.stepping = w.st.stepping
      /\ c.st.frames = w.st.frames
      /\ c.shown = w.shown /\ c.gdb = t.gdb /\ c.intake = t.intake
  BY <1>1, <1>2, <1>3 DEF Worlds, Mirrors
<1>7. d \in Worlds /\ d.st.stopSeq = w.st.stopSeq + 1 /\ d.st.stepping = w.st.stepping
      /\ d.st.frames = w.st.frames /\ d.st.runState = "stopped"
      /\ d.shown = w.shown /\ d.gdb = t.gdb /\ d.intake = t.intake
  BY <1>4, <1>6 DEF Worlds, Mirrors, RunStates
<1>8. /\ Mirrored(d, e) /\ e.shown = d.shown
      /\ e.st.stepping = d.st.stepping /\ e.st.stopSeq = d.st.stopSeq
      /\ e.st.deferred = "none" /\ e.st.runState = d.st.runState
      /\ e.st.frames = d.st.frames
  BY <1>5, <1>7, DeferredFacts
<1>9. Taken(w, e)
  BY <1>1, <1>7, <1>8 DEF Mirrored, Taken
<1>10. Follows(w, e, Head(w.intake))
  BY <1>2, <1>7, <1>8 DEF Follows, LiveStop, Ending
<1>11. Firm(e)
  BY <1>9, <1>10, FirmTakes
<1> QED
  BY <1>7, <1>8, <1>9, <1>11 DEF Taken

\* A deferred start that goes on: no browser is told, because the program was shown
\* as running already, or because something is queued that will be.
LEMMA PassedKeeps ==
    ASSUME NEW w, Firm(w), Told(w), MaxLate \in Nat, NEW t, Popped(w, t),
           LiveStop(Head(w.intake)), Head(w.intake) \in Records, NEW v, Passed(t, v)
    PROVE  /\ Firm(v) /\ Told(v) /\ v.gdb.deaths = w.gdb.deaths
           /\ v.st.stopSeq = w.st.stopSeq + 1
<1>0. "continue" \in Commands
  BY DEF Commands, Verbs
<1>1. w \in Worlds /\ t.st = w.st /\ Taken(w, t) /\ w.intake # <<>>
  BY DEF Firm, Sound, Popped, Taken
<1>2. PICK e : e = Halted(t)
  OBVIOUS
<1>3. /\ Firm(e)
      /\ e.gdb = w.gdb /\ e.intake = Tail(w.intake) /\ e.shown = w.shown
      /\ e.st.runState = "stopped" /\ e.st.deferred = "none"
      /\ e.st.stopSeq = w.st.stopSeq + 1
      /\ e.st.frames = w.st.frames /\ e.st.stepping = w.st.stepping
  BY <1>2, HaltedFacts
<1>4. w.st.deferred = "resume"
  BY <1>1 DEF Passed
<1>5. PICK r \in Send(e, "continue") : r.ok /\ v = [r.w EXCEPT !.st.runState = "running"]
  BY <1>2 DEF Passed
<1>6. Kept(e, r.w) /\ Resumed(e, r.w)
  <2>1. Kept(e, r.w) /\ Accepted(e, "continue", r.w)
    BY <1>0, <1>3, <1>5, FirmAnswers
  <2> QED
    BY <2>1 DEF Accepted
<1>7. r.w \in Worlds /\ r.w.st = e.st /\ r.w.shown = w.shown /\ IsUp(r.w.gdb.process)
      /\ w.gdb.process = "stopped" /\ r.w.gdb.deaths = w.gdb.deaths
  BY <1>3, <1>6 DEF Kept, Resumed, Alive, IsUp
<1>8. Steady(r.w, v) /\ v.st.runState = "running" /\ v.st.frames = r.w.st.frames
      /\ v.shown = r.w.shown
  BY <1>5, <1>7, RunStateFacts
<1>9. "stepLine" \in Kinds \/ w.st.frames = 0
  BY <1>4 DEF Firm, Sound, StackRead
<1>10. Adjusted(r.w, v)
  BY <1>3, <1>7, <1>8, <1>9 DEF Adjusted, StackChange, StateChange, Steady
<1>11. v.st.deferred = "none"
  BY <1>3, <1>7, <1>8 DEF Steady
<1>12. Firm(v)
  BY <1>3, <1>5, <1>10, <1>8, <1>11, FirmResumes DEF Running
<1>13. Told(v)
  <2> SUFFICES ASSUME w.gdb.deaths = 0, "stepLine" \notin Kinds, ~Running(w)
               PROVE  /\ MaxLate > 0
                      /\ "resume" \in StartModes
                      /\ \E i \in 1 .. Len(v.intake) : Ending(v.intake[i])
    <3>1. w.shown.runState = w.st.runState \/ ~(w.gdb.deaths = 0 /\ "stepLine" \notin Kinds)
      BY <1>4 DEF Told
    <3>2. v.gdb.deaths = w.gdb.deaths /\ v.shown = w.shown
      BY <1>7, <1>8 DEF Steady, Mirrored
    <3> QED
      BY <1>8, <1>11, <3>1, <3>2 DEF Told, Running
  <2> DEFINE q == w.intake
             p == Tail(q)
             n == Len(q)
  <2>1. Behind(q, p, n) /\ Head(q) = q[1]
    <3>1. p = t.intake
      BY <1>1 DEF Taken
    <3> QED
      BY <1>1, <3>1, TakenFacts
  <2>2. n \in Nat /\ n >= 1 /\ Len(p) = n - 1 /\ \A i \in 1 .. n - 1 : p[i] = q[i + 1]
    BY <2>1 DEF Behind
  <2>3. LiveStop(q[1]) /\ 1 \in 1 .. n
    BY <2>1, <2>2
  <2>4. ~Led(q, Running(w), 1)
    BY DEF Led
  <2>5. "resume" \in StartModes
    BY <1>4 DEF Firm
  <2>6. MaxLate > 0
    <3>1. CASE MaxLate = 0
      <4>1. \A i \in 1 .. n : LiveStop(q[i]) => Led(q, Running(w), i)
        BY <1>4, <1>7, <3>1 DEF Firm, EntryLed
      <4> QED
        BY <2>3, <2>4, <4>1
    <3> QED
      BY <3>1
  <2>7. \E i \in 1 .. n - 1 : Ending(p[i])
    <3>1. PICK k \in 1 .. n : 1 < k /\ Ending(q[k])
      BY <2>3, <2>4 DEF Firm, Sound, LastStop
    <3>2. k - 1 \in 1 .. n - 1 /\ (k - 1) + 1 = k
      BY <2>2, <3>1
    <3> QED
      BY <2>2, <3>1, <3>2
  <2>8. v.intake = Append(p, RunningRecord)
    BY <1>3, <1>6, <1>8 DEF Resumed, Steady, Mirrored
  <2>9. p \in Seq(Records) /\ RunningRecord \in Records
    BY <1>1, QueueTail, RecordTypes, WorldTypes
  <2>10. Extends(p, v.intake) /\ Len(v.intake) = Len(p) + 1
    <3> HIDE DEF p
    <3>1. Extends(p, Append(p, RunningRecord)) /\ Len(Append(p, RunningRecord)) = Len(p) + 1
      BY <2>9, LongerByOne, Zenon
    <3>2. Extends(p, v.intake) /\ Len(v.intake) = Len(p) + 1
      BY <2>8, <3>1
    <3> QED
      BY <3>2 DEF p
  <2> HIDE DEF q, p, n
  <2>11. \E i \in 1 .. Len(v.intake) : Ending(v.intake[i])
    BY <2>2, <2>7, <2>10 DEF Extends
  <2> QED
    BY <2>5, <2>6, <2>11
<1>14. v.gdb.deaths = w.gdb.deaths /\ v.st.stopSeq = w.st.stopSeq + 1
  BY <1>3, <1>7, <1>8 DEF Steady, Mirrored
<1> QED
  BY <1>12, <1>13, <1>14

\* A stop that is being dealt with.
Held(w, n) ==
    Firm(w) /\ w.st.runState = "stopped" /\ w.st.deferred = "none" /\ w.st.stopSeq = n

\* A stop left open, also by a deferred start whose continue failed, is held.
LEMMA OpenKeeps ==
    ASSUME NEW w, Firm(w), MaxLate \in Nat, NEW t, Popped(w, t),
           LiveStop(Head(w.intake)), Head(w.intake) \in Records, NEW f, Open(t, f)
    PROVE  Held(f, w.st.stopSeq + 1) /\ f.gdb.deaths = w.gdb.deaths
<1>0. "continue" \in Commands
  BY DEF Commands, Verbs
<1>1. PICK e : e = Halted(t)
  OBVIOUS
<1>2. Firm(e) /\ e.st.runState = "stopped" /\ e.st.deferred = "none"
      /\ e.st.stopSeq = w.st.stopSeq + 1 /\ e.gdb = w.gdb
  BY <1>1, HaltedFacts
<1>3. CASE f = e
  BY <1>2, <1>3 DEF Held
<1>4. CASE \E r \in Send(e, "continue") : ~r.ok /\ f = r.w
  BY <1>0, <1>2, <1>4, FirmFails DEF Held, Lasts
<1> QED
  BY <1>1, <1>3, <1>4 DEF Open

\* It is held when its stack has been read, or could not be.
LEMMA PaintedKeeps ==
    ASSUME NEW f, NEW n, Held(f, n), MaxLate \in Nat, NEW g, Painted(f, g)
    PROVE  Held(g, n) /\ g.gdb.deaths = f.gdb.deaths
<1>0. "query" \in Commands /\ "query" \notin {"start", "continue", "step"}
  BY DEF Commands, Verbs
<1>1. PICK r \in Send(f, "query") :
          g = IF r.ok THEN [r.w EXCEPT !.st.frames = r.w.gdb.stops] ELSE r.w
  BY DEF Painted
<1>2. Firm(f) /\ f.st.runState = "stopped" /\ f.st.deferred = "none" /\ f.st.stopSeq = n
  BY DEF Held
<1>3. CASE ~r.ok
  BY <1>0, <1>1, <1>2, <1>3, FirmFails DEF Held, Lasts
<1>4. CASE r.ok
  <2>1. r.w = f /\ f.gdb.process = "stopped"
    BY <1>0, <1>2, <1>4, FirmEnds
  <2>2. Steady(f, g) /\ g.st.runState = f.st.runState /\ g.st.frames = f.gdb.stops
    BY <1>1, <1>2, <1>4, <2>1, FramesFacts DEF Firm, Sound
  <2>3. Adjusted(f, g)
    BY <1>2, <2>1, <2>2 DEF Adjusted, StackChange, StateChange, Steady
  <2>4. g.st.deferred = "none" /\ g.st.stopSeq = n
    BY <1>2, <2>2 DEF Steady
  <2>5. Firm(g)
    BY <1>2, <2>2, <2>3, <2>4, FirmAdjusts
  <2> QED
    BY <1>2, <2>2, <2>4, <2>5 DEF Held, Steady, Mirrored
<1> QED
  BY <1>3, <1>4

\* It is held when the count of steps left has changed.
LEMMA SteppingKeeps ==
    ASSUME NEW g, NEW n, Held(g, n), NEW left \in Nat, left = 0 \/ "stepLine" \in Kinds,
           NEW x, x = [g EXCEPT !.st.stepping = left]
    PROVE  Held(x, n) /\ x.gdb = g.gdb
<1>1. Firm(g) /\ g.st.runState = "stopped" /\ g.st.deferred = "none" /\ g.st.stopSeq = n
  BY DEF Held
<1>2. /\ Mirrored(g, x) /\ x.st.stepping = left /\ x.st.stopSeq = g.st.stopSeq
      /\ x.st.deferred = g.st.deferred /\ x.st.runState = g.st.runState
      /\ x.st.frames = g.st.frames
  <2>1. g \in Worlds
    BY <1>1 DEF Firm, Sound
  <2> QED
    BY <2>1, SteppingFacts
<1>3. Adjusted(g, x)
  BY <1>2 DEF Adjusted, StackChange, StateChange
<1>4. Firm(x)
  BY <1>1, <1>2, <1>3, FirmAdjusts
<1> QED
  BY <1>1, <1>2, <1>4 DEF Held, Mirrored

\* The walk goes on, or the stop is shown: what a walk sends, and when.
LEMMA ReportChain ==
    ASSUME NEW g, NEW why, NEW v, Reported(g, why, v)
    PROVE  \/ v = EmitStopped(EndWalk(g))
           \/ /\ g.st.stepping > 1 \/ ~(g.st.stepping <= 1)
              /\ why = "step"
              /\ \E r \in Send([g EXCEPT !.st.stepping = @ - 1], "step") :
                     \/ r.ok /\ v = [r.w EXCEPT !.st.runState = "running"]
                     \/ ~r.ok /\ v = EmitStopped(EndWalk(r.w))
BY DEF Reported, AdvanceStepLine

\* A stop that is held and shown keeps the world firm and the browsers told.
LEMMA EmitKeeps ==
    ASSUME NEW g, NEW n, Held(g, n), NEW v, v = EmitStopped(EndWalk(g))
    PROVE  /\ Held(v, n) /\ Told(v) /\ v.gdb = g.gdb
           /\ v.shown.runState = "stopped" /\ v.shown.stopSeq = n
<1>1. PICK x : x = [g EXCEPT !.st.stepping = 0]
  OBVIOUS
<1>2. v = EmitStopped(x)
  BY <1>1 DEF EndWalk
<1>3. Held(x, n) /\ x.gdb = g.gdb
  BY <1>1, SteppingKeeps
<1>4. Firm(x) /\ x.st.runState = "stopped" /\ x.st.deferred = "none" /\ x.st.stopSeq = n
  BY <1>3 DEF Held
<1>5. Mirrored(x, v) /\ v.st = x.st /\ v.shown.runState = x.st.runState
      /\ v.shown.stopSeq = x.st.stopSeq
  BY <1>2, <1>4, EmitFacts DEF Firm, Sound
<1>6. Adjusted(x, v)
  BY <1>5 DEF Adjusted, StackChange, StateChange
<1>7. Firm(v)
  BY <1>4, <1>5, <1>6, FirmAdjusts
<1> QED
  BY <1>3, <1>4, <1>5, <1>7 DEF Held, Told, Mirrored

\* So does a stop walked on from, and only after a step is a stop not shown.
LEMMA ReportedKeeps ==
    ASSUME NEW g, NEW n, Held(g, n), MaxLate \in Nat, NEW why, NEW v, Reported(g, why, v)
    PROVE  /\ Firm(v) /\ Told(v) /\ v.gdb.deaths = g.gdb.deaths
           /\ v.st.stopSeq = n
           /\ why # "step" => v.shown.runState = "stopped" /\ v.shown.stopSeq = n
<1>0. "step" \in Commands /\ 0 \in Nat
  BY DEF Commands, Verbs
<1>1. Firm(g) /\ g.st.stepping \in Nat
  BY WorldTypes DEF Held, Firm, Sound
<1>2. CASE v = EmitStopped(EndWalk(g))
  BY <1>2, EmitKeeps DEF Held
<1>3. CASE /\ g.st.stepping > 1 /\ why = "step"
           /\ \E r \in Send([g EXCEPT !.st.stepping = @ - 1], "step") :
                  \/ r.ok /\ v = [r.w EXCEPT !.st.runState = "running"]
                  \/ ~r.ok /\ v = EmitStopped(EndWalk(r.w))
  <2>1. PICK left : left = g.st.stepping - 1
    OBVIOUS
  <2>2. PICK x : x = [g EXCEPT !.st.stepping = left]
    OBVIOUS
  <2>3. left \in Nat /\ "stepLine" \in Kinds
    <3>1. left \in Nat
      BY <1>1, <1>3, <2>1
    <3>2. "stepLine" \in Kinds
      BY <1>1, <1>3 DEF Firm, Sound, StackRead
    <3> QED
      BY <3>1, <3>2
  <2>4. Held(x, n) /\ x.gdb = g.gdb
    BY <2>2, <2>3, SteppingKeeps
  <2>5. Firm(x) /\ x.st.runState = "stopped" /\ x.st.deferred = "none" /\ x.st.stopSeq = n
    BY <2>4 DEF Held
  <2>6. PICK r \in Send(x, "step") :
            \/ r.ok /\ v = [r.w EXCEPT !.st.runState = "running"]
            \/ ~r.ok /\ v = EmitStopped(EndWalk(r.w))
    BY <1>3, <2>1, <2>2
  <2>7. CASE r.ok
    <3>1. Kept(x, r.w) /\ Accepted(x, "step", r.w)
      BY <1>0, <2>5, <2>7, FirmAnswers
    <3>2. r.w \in Worlds /\ IsUp(r.w.gdb.process) /\ r.w.st = x.st
      BY <3>1 DEF Accepted, Kept, Resumed, Alive, IsUp
    <3>3. Steady(r.w, v) /\ v.st.runState = "running" /\ v.st.frames = r.w.st.frames
      BY <2>6, <2>7, <3>2, RunStateFacts
    <3>4. Adjusted(r.w, v)
      BY <2>3, <3>2, <3>3 DEF Adjusted, StackChange, StateChange, Steady
    <3>5. v.st.deferred = "none"
      BY <2>5, <3>2, <3>3 DEF Steady
    <3>6. Firm(v)
      BY <2>5, <2>7, <3>3, <3>4, <3>5, FirmResumes DEF Running
    <3>7. v.gdb.deaths = g.gdb.deaths /\ v.st.stopSeq = n
      BY <2>4, <2>5, <3>1, <3>2, <3>3 DEF Kept, Steady, Mirrored
    <3> QED
      BY <1>3, <2>3, <3>6, <3>7 DEF Told
  <2>8. CASE ~r.ok
    <3>1. Held(r.w, n) /\ r.w.gdb.deaths = g.gdb.deaths
      BY <1>0, <2>4, <2>5, <2>8, FirmFails DEF Held, Lasts
    <3> QED
      BY <1>3, <2>6, <2>8, <3>1, EmitKeeps DEF Held
  <2> QED
    BY <2>7, <2>8
<1>4. g.st.stepping > 1 \/ ~(g.st.stepping <= 1) => g.st.stepping > 1
  BY <1>1
<1> QED
  BY <1>2, <1>3, <1>4, ReportChain

\* *stopped of a program that can go on keeps a world firm and the browsers told.
LEMMA TakeStop ==
    ASSUME NEW w, Firm(w), Told(w), MaxLate \in Nat, NEW t, Popped(w, t),
           NEW rec \in Records, rec = Head(w.intake), LiveStop(rec),
           NEW v \in OnStopped(t, rec)
    PROVE  /\ Firm(v) /\ Told(v) /\ v.gdb.deaths = w.gdb.deaths
           /\ v.st.stopSeq = w.st.stopSeq + 1
           /\ rec.why # "step" /\ w.st.deferred # "resume" =>
                  v.shown.runState = "stopped" /\ v.shown.stopSeq = w.st.stopSeq + 1
<1>1. w \in Worlds /\ t \in Worlds /\ t.st = w.st
  BY DEF Firm, Sound, Popped, Taken
<1>2. CASE Passed(t, v)
  <2>1. /\ Firm(v) /\ Told(v) /\ v.gdb.deaths = w.gdb.deaths
        /\ v.st.stopSeq = w.st.stopSeq + 1
    BY <1>2, PassedKeeps
  <2>2. w.st.deferred = "resume"
    BY <1>1, <1>2 DEF Passed
  <2> QED
    BY <2>1, <2>2
<1>3. CASE \E f, g : Open(t, f) /\ Painted(f, g) /\ Reported(g, rec.why, v)
  <2>1. PICK f, g : Open(t, f) /\ Painted(f, g) /\ Reported(g, rec.why, v)
    BY <1>3
  <2>2. Held(f, w.st.stopSeq + 1) /\ f.gdb.deaths = w.gdb.deaths
    BY <2>1, OpenKeeps
  <2>3. Held(g, w.st.stopSeq + 1) /\ g.gdb.deaths = w.gdb.deaths
    BY <2>1, <2>2, PaintedKeeps
  <2> QED
    BY <2>1, <2>3, ReportedKeeps
<1>4. rec.why # "exited"
  BY DEF LiveStop
<1> QED
  BY <1>1, <1>2, <1>3, <1>4, StopChain

\* Whatever the record is: onExec and onNotify keep a world firm and the browsers told, only
\* a stop is counted, and a stop that is no step's and no deferred start's is shown.
LEMMA TakeKeeps ==
    ASSUME NEW w, Firm(w), Told(w), MaxLate \in Nat, w.intake # <<>>,
           NEW v \in OnRecord([w EXCEPT !.intake = Tail(@)], Head(w.intake))
    PROVE  /\ Firm(v) /\ Told(v) /\ v.gdb.deaths = w.gdb.deaths
           /\ v.st.stopSeq = w.st.stopSeq + (IF Head(w.intake).kind = "stopped" THEN 1 ELSE 0)
           /\ /\ Head(w.intake).kind = "stopped" /\ Head(w.intake).why = "event"
              /\ w.st.deferred # "resume"
              => v.shown.runState = "stopped" /\ v.shown.stopSeq = w.st.stopSeq + 1
<1>1. w \in Worlds
  BY DEF Firm, Sound
<1>2. PICK t : t = [w EXCEPT !.intake = Tail(@)]
  OBVIOUS
<1>3. Popped(w, t)
  BY <1>1, <1>2, PoppedFacts
<1>13. w.st.stopSeq + 0 = w.st.stopSeq
  BY <1>1, WorldTypes
<1>4. PICK rec : rec = Head(w.intake)
  OBVIOUS
<1>5. rec \in Records
  BY <1>1, <1>3, <1>4, TakenFacts DEF Popped
<1>6. v \in OnRecord(t, rec)
  BY <1>2, <1>4
<1>7. CASE rec.kind = "running"
  <2>1. v = SetRunning(t)
    BY <1>6, <1>7 DEF OnRecord
  <2> QED
    BY <1>3, <1>4, <1>7, <1>13, <2>1, TakeRunning DEF Lasts
<1>8. CASE rec.kind = "started"
  <2>1. v = [t EXCEPT !.st.pid = rec.run] /\ rec.run \in Nat
    BY <1>5, <1>6, <1>8 DEF OnRecord, Records
  <2>2. Firm(v) /\ Told(v) /\ Lasts(w, v)
    BY <1>3, <1>4, <1>8, <2>1, TakeStarted
  <2> QED
    BY <1>4, <1>8, <1>13, <2>2 DEF Lasts
<1>9. CASE rec.kind = "groupExited"
  <2>1. v = (IF t.st.runState = "noProgram" THEN t ELSE SetExited(t, rec.code, 0))
        /\ rec.code \in Nat
    BY <1>5, <1>6, <1>9 DEF OnRecord, Records
  <2> QED
    BY <1>3, <1>4, <1>9, <1>13, <2>1, TakeGone DEF Lasts
<1>10. CASE rec.kind = "stopped" /\ rec.why = "exited"
  <2>1. v \in OnStopped(t, rec)
    BY <1>6, <1>10 DEF OnRecord
  <2> QED
    BY <1>3, <1>4, <1>5, <1>10, <2>1, TakeExit
<1>11. CASE rec.kind = "stopped" /\ rec.why # "exited"
  <2>1. v \in OnStopped(t, rec)
    BY <1>6, <1>11 DEF OnRecord
  <2>2. LiveStop(rec)
    BY <1>11 DEF LiveStop
  <2>3. /\ Firm(v) /\ Told(v) /\ v.gdb.deaths = w.gdb.deaths
        /\ v.st.stopSeq = w.st.stopSeq + 1
        /\ rec.why # "step" /\ w.st.deferred # "resume" =>
               v.shown.runState = "stopped" /\ v.shown.stopSeq = w.st.stopSeq + 1
    BY <1>3, <1>4, <1>5, <2>1, <2>2, TakeStop
  <2> QED
    BY <1>4, <1>11, <2>3
<1>12. rec.kind \in {"running", "started", "groupExited", "stopped"}
  BY <1>5 DEF Records
<1> QED
  BY <1>7, <1>8, <1>9, <1>10, <1>11, <1>12

-----------------------------------------------------------------------------
(* The actor's steps.                                                      *)

\* A request as the actor finds it.
Askable(request) ==
    /\ request.kind \in Kinds \cup {"none"}
    /\ request.kind = "load" => request.file \in Files

\* Whatever is asked for: a request served keeps a world firm and the browsers told.
LEMMA DispatchKeeps ==
    ASSUME NEW w, Firm(w), Told(w), MaxLate \in Nat, Kinds \subseteq RequestKinds,
           StartModes \subseteq {"none", "resume", "stop"},
           NEW request, Askable(request),
           NEW v \in Dispatch(w, request)
    PROVE  Firm(v) /\ Told(v) /\ Lasts(w, v)
<1> DEFINE kind == request.kind
           stale == /\ ~CheckStopSeq(w, request.got)
                    /\ \/ kind \in {"continue", "step", "stepLine"}
                       \/ kind = "runTo" /\ w.st.runState = "stopped"
<1>4. kind = "none" => ~Gate(w, kind)
  BY DEF Gate
<1>1. Gate(w, kind) => kind \in RequestKinds /\ kind \in Kinds
  BY <1>4 DEF Askable
<1>2. CASE ~Gate(w, kind) \/ stale
  BY <1>2 DEF Dispatch, Lasts
<1>3. CASE Gate(w, kind) /\ ~stale
  <2>1. CASE kind = "load"
    BY <1>3, <2>1, LoadKeeps DEF Dispatch, Askable
  <2>2. CASE kind = "run"
    <3>1. w.st.runState # "running"
      BY <1>3, <2>2 DEF Gate
    <3> QED
      BY <1>3, <2>2, <3>1, RunKeeps DEF Dispatch
  <2>3. CASE kind = "runTo"
    <3>1. w.st.runState # "running"
      BY <1>3, <2>3 DEF Gate
    <3>2. v \in ExecRunTo(w)
      BY <1>3, <2>3 DEF Dispatch
    <3> QED
      BY <3>1, <3>2, RunKeeps, ResumeKeeps DEF ExecRunTo
  <2>4. CASE kind \in {"continue", "step"}
    <3>1. w.st.runState = "stopped"
      BY <1>3, <2>4 DEF Gate
    <3>2. v \in ExecResume(w, kind)
      BY <1>3, <2>4 DEF Dispatch
    <3> QED
      BY <2>4, <3>1, <3>2, ResumeKeeps
  <2>5. CASE kind = "stepLine"
    <3>1. w.st.runState = "stopped"
      BY <1>3, <2>5 DEF Gate
    <3> QED
      BY <1>1, <1>3, <2>5, <3>1, StepLineKeeps DEF Dispatch
  <2>6. CASE kind = "kill"
    BY <1>3, <2>6, KillKeeps DEF Dispatch
  <2>7. CASE kind = "console"
    BY <1>1, <1>3, <2>7, ConsoleKeeps DEF Dispatch
  <2>8. CASE kind = "restart"
    BY <1>3, <2>8, RestartKeeps DEF Dispatch
  <2> QED
    BY <1>1, <1>3, <2>1, <2>2, <2>3, <2>4, <2>5, <2>6, <2>7, <2>8 DEF RequestKinds
<1> QED
  BY <1>2, <1>3

\* The setting is for good: what is true of a world stays true of it.
LEMMA SettingStays ==
    ASSUME setting' = setting, NEW v, Firm(v), Told(v), World' = v
    PROVE  Firm(World)' /\ Told(World)'
<1>1. Kinds' = Kinds /\ MaxLate' = MaxLate /\ StartModes' = StartModes
  BY DEF Kinds, MaxLate, StartModes
<1>2. Sound(World)'
  <2>1. Numbered(World)'
    BY DEF Firm, Sound, Numbered
  <2>2. LastWord(World)'
    BY DEF Firm, Sound, LastWord
  <2>3. StackRead(World)'
    BY <1>1 DEF Firm, Sound, StackRead
  <2>4. StackOfThis(World)'
    BY DEF Firm, Sound, StackOfThis
  <2>5. Spaced(World)' /\ LastStop(World)'
    BY DEF Firm, Sound, Spaced, LastStop, Running
  <2>6. Entry(World)'
    BY DEF Firm, Sound, Entry
  <2>7. (World \in Worlds)'
    BY DEF Firm, Sound
  <2> QED
    BY <2>1, <2>2, <2>3, <2>4, <2>5, <2>6, <2>7 DEF Sound
<1>3. EntryLed(World)'
  BY <1>1 DEF Firm, EntryLed, Running
<1>4. InStep(World)'
  BY <1>1 DEF Firm, InStep
<1>5. Told(World)'
  BY <1>1 DEF Told, Running
<1>6. Down(World)' /\ (World.st.deferred \in {"none"} \cup StartModes)'
      /\ (Len(World.gdb.late) <= MaxLate)'
  BY <1>1 DEF Firm, Down
<1> QED
  BY <1>2, <1>3, <1>4, <1>5, <1>6 DEF Firm

\* Every variable has its type.
TypeInv ==
    /\ setting \in Settings
    /\ World \in Worlds
    /\ obituaries \in Nat
    /\ requests \in [Clients -> [kind : Kinds \cup {"none"}, got : Nat,
                                 file : Files \cup {NoFile}]]

\* Nothing is announced that did not happen, and a load names a file.
Inv ==
    /\ TypeInv
    /\ Firm(World)
    /\ Told(World)
    /\ obituaries <= gdb.deaths
    /\ \A c \in Clients : Askable(requests[c])

\* What a setting is.
LEMMA SettingTypes ==
    ASSUME setting \in Settings
    PROVE  /\ Kinds \subseteq RequestKinds
           /\ StartModes \subseteq {"none", "resume", "stop"}
           /\ MaxLate \in Nat
           /\ setting.clients \subseteq Clients
BY SettingsAssumption DEF Kinds, StartModes, MaxLate

\* The fields of the world.
LEMMA WorldFields ==
    /\ World.st = st /\ World.gdb = gdb /\ World.intake = intake /\ World.shown = shown
    /\ World.st' = st' /\ World.gdb' = gdb' /\ World.intake' = intake'
    /\ World.shown' = shown'
BY DEF World

\* What Become makes of it.
LEMMA BecomeWorld ==
    ASSUME NEW w \in Worlds, Become(w)
    PROVE  World' = w
BY DEF Become, World, Worlds

\* A step that leaves the world alone.
LEMMA WorldStays ==
    ASSUME UNCHANGED <<st, gdb, intake, shown>>
    PROVE  World' = World
BY DEF World

\* The invariant holds at the start.
LEMMA InvInit == Init => Inv
<1> SUFFICES ASSUME Init PROVE Inv
  OBVIOUS
<1>1. setting \in Settings /\ MaxLate \in Nat
  BY SettingTypes DEF Init
<1>2. World \in Worlds
  <2>1. st \in Mirrors
    BY DEF Init, Mirrors, RunStates
  <2>2. gdb \in Gdbs
    BY DEF Init, Gdbs
  <2>3. intake \in Seq(Records)
    BY DEF Init
  <2>4. shown \in [runState : RunStates, stopSeq : Nat, code : Nat, signal : Nat]
    BY DEF Init, RunStates
  <2> QED
    BY <2>1, <2>2, <2>3, <2>4 DEF World, Worlds
<1>3. /\ World.st.runState = "noProgram" /\ World.st.stopSeq = 0 /\ World.st.frames = 0
      /\ World.st.stepping = 0 /\ World.st.deferred = "none"
      /\ World.gdb.up /\ World.gdb.process = "none" /\ World.gdb.stops = 0
      /\ World.gdb.begun = 0 /\ World.gdb.late = <<>> /\ World.gdb.born = 0
      /\ World.intake = <<>> /\ Len(World.intake) = 0 /\ Len(World.gdb.late) = 0
      /\ World.shown.runState = "noProgram" /\ gdb.deaths = 0
  BY DEF Init, World
<1>4. Sound(World)
  <2>1. Numbered(World)
    BY <1>3 DEF Numbered
  <2>2. LastWord(World)
    BY <1>3 DEF LastWord, Agrees, IsUp
  <2>3. StackRead(World) /\ StackOfThis(World)
    BY <1>3 DEF StackRead, StackOfThis
  <2>4. Spaced(World) /\ LastStop(World)
    BY <1>3 DEF Spaced, LastStop, IsUp
  <2>5. Entry(World)
    BY <1>3 DEF Entry
  <2> QED
    BY <1>2, <2>1, <2>2, <2>3, <2>4, <2>5 DEF Sound
<1>5. Firm(World)
  BY <1>1, <1>3, <1>4 DEF Firm, Down, EntryLed, InStep, IsUp
<1>6. Told(World)
  BY <1>3 DEF Told
<1>7. obituaries = 0 /\ requests = [c \in Clients |-> NoRequest]
  BY DEF Init
<1>8. NoRequest \in [kind : Kinds \cup {"none"}, got : Nat, file : Files \cup {NoFile}]
      /\ Askable(NoRequest)
  BY DEF NoRequest, Askable
<1> QED
  BY <1>1, <1>2, <1>3, <1>5, <1>6, <1>7, <1>8 DEF Inv, TypeInv

\* A step that takes the world from one that is firm and told to another keeps the
\* invariant, whatever is served.
LEMMA InvBecomes ==
    ASSUME Inv, NEW v, Firm(v), Told(v), World' = v, UNCHANGED <<setting, obituaries>>,
           gdb'.deaths >= gdb.deaths,
           requests' = requests \/ \E c \in Clients : requests' = [requests EXCEPT ![c] = NoRequest]
    PROVE  Inv'
<1>1. Firm(World)' /\ Told(World)'
  BY SettingStays
<1>2. (World \in Worlds)'
  BY DEF Firm, Sound
<1>3. Kinds' = Kinds
  BY DEF Kinds
<1>4. NoRequest \in [kind : Kinds \cup {"none"}, got : Nat, file : Files \cup {NoFile}]
      /\ Askable(NoRequest)
  BY DEF NoRequest, Askable
<1>5. requests' \in [Clients -> [kind : Kinds \cup {"none"}, got : Nat,
                                 file : Files \cup {NoFile}]]
      /\ \A c \in Clients : Askable(requests'[c])
  BY <1>4 DEF Inv, TypeInv
<1>6. \A c \in Clients : Askable(requests[c])'
  BY <1>3, <1>5 DEF Askable
<1>7. gdb.deaths \in Nat /\ gdb'.deaths \in Nat
  BY <1>2 DEF Inv, TypeInv, World, Worlds, Gdbs
<1>8. (obituaries <= gdb.deaths)'
  BY <1>7 DEF Inv, TypeInv
<1> QED
  BY <1>1, <1>2, <1>3, <1>5, <1>6, <1>8 DEF Inv, TypeInv

\* Ask keeps the invariant: a new request is of the setting.
LEMMA InvAsk ==
    ASSUME Inv, NEW c \in setting.clients, NEW kind \in Kinds, NEW file \in Files \cup {NoFile},
           kind = "load" => file \in Files, Ask(c, kind, file)
    PROVE  Inv'
<1>1. setting' = setting /\ obituaries' = obituaries /\ World' = World /\ gdb' = gdb
  BY WorldStays DEF Ask
<1>2. Firm(World)' /\ Told(World)'
  BY <1>1, SettingStays DEF Inv
<1>3. (World \in Worlds)' /\ Kinds' = Kinds
  BY <1>1 DEF Inv, TypeInv, Kinds
<1>4. PICK request : request = [kind |-> kind,
                                got |-> IF c \in Tabs THEN shown.stopSeq ELSE 0,
                                file |-> file]
  OBVIOUS
<1>5. request \in [kind : Kinds \cup {"none"}, got : Nat, file : Files \cup {NoFile}]
      /\ Askable(request)
  <2>1. shown.stopSeq \in Nat
    BY DEF Inv, TypeInv, World, Worlds
  <2> QED
    BY <1>4, <2>1 DEF Askable
<1>6. requests' = [requests EXCEPT ![c] = request]
  BY <1>4 DEF Ask
<1>7. requests' \in [Clients -> [kind : Kinds \cup {"none"}, got : Nat,
                                 file : Files \cup {NoFile}]]
      /\ \A d \in Clients : Askable(requests'[d])
  BY <1>5, <1>6 DEF Inv, TypeInv
<1>8. \A d \in Clients : Askable(requests[d])'
  BY <1>3, <1>7 DEF Askable
<1> QED
  BY <1>1, <1>2, <1>3, <1>7, <1>8 DEF Inv, TypeInv

\* Serve keeps it: no handler of a request counts a stop or a death.
LEMMA InvServe ==
    ASSUME Inv, NEW c \in Clients, Serve(c)
    PROVE  Inv' /\ gdb'.deaths = gdb.deaths /\ st'.stopSeq = st.stopSeq
<1>1. PICK w \in Dispatch(World, requests[c]) : Become(w)
  BY DEF Serve
<1>2. setting' = setting /\ obituaries' = obituaries
      /\ requests' = [requests EXCEPT ![c] = NoRequest]
  BY DEF Serve
<1>3. /\ Kinds \subseteq RequestKinds
      /\ StartModes \subseteq {"none", "resume", "stop"}
      /\ MaxLate \in Nat
  BY SettingTypes DEF Inv, TypeInv
<1>4. Firm(w) /\ Told(w) /\ Lasts(World, w)
  BY <1>3, DispatchKeeps DEF Inv
<1>5. World' = w
  BY <1>1, <1>4, BecomeWorld DEF Firm, Sound
<1>6. gdb'.deaths = gdb.deaths /\ st'.stopSeq = st.stopSeq
  BY <1>4, <1>5, WorldFields DEF Lasts
<1>7. gdb'.deaths >= gdb.deaths
  BY <1>6, WorldTypes, WorldFields DEF Inv, TypeInv
<1> QED
  BY <1>2, <1>4, <1>5, <1>6, <1>7, InvBecomes

\* Take keeps it, and counts and shows what TakeKeeps says.
LEMMA InvTake ==
    ASSUME Inv, Take
    PROVE  /\ Inv'
           /\ gdb'.deaths = gdb.deaths
           /\ st'.stopSeq = st.stopSeq + (IF Head(intake).kind = "stopped" THEN 1 ELSE 0)
           /\ /\ Head(intake).kind = "stopped" /\ Head(intake).why = "event"
              /\ st.deferred # "resume"
              => shown'.runState = "stopped"
                 /\ shown'.stopSeq = st.stopSeq + 1
<1>1. PICK w \in OnRecord([World EXCEPT !.intake = Tail(@)], Head(World.intake)) : Become(w)
  BY WorldFields DEF Take
<1>2. UNCHANGED <<setting, obituaries, requests>> /\ World.intake # <<>>
  BY WorldFields DEF Take
<1>3. MaxLate \in Nat
  BY SettingTypes DEF Inv, TypeInv
<1>4. Firm(World) /\ Told(World)
  BY DEF Inv
<1>5. /\ Firm(w) /\ Told(w) /\ w.gdb.deaths = World.gdb.deaths
      /\ w.st.stopSeq = World.st.stopSeq
                         + (IF Head(World.intake).kind = "stopped" THEN 1 ELSE 0)
      /\ /\ Head(World.intake).kind = "stopped" /\ Head(World.intake).why = "event"
         /\ World.st.deferred # "resume"
         => w.shown.runState = "stopped"
            /\ w.shown.stopSeq = World.st.stopSeq + 1
  BY <1>2, <1>3, <1>4, TakeKeeps
<1>6. World' = w
  BY <1>1, <1>5, BecomeWorld DEF Firm, Sound
<1>7. gdb'.deaths = gdb.deaths
  BY <1>5, <1>6, WorldFields
<1>8. gdb'.deaths >= gdb.deaths
  BY <1>7, WorldTypes, WorldFields DEF Inv, TypeInv
<1>9. Inv'
  BY <1>2, <1>5, <1>6, <1>8, InvBecomes
<1> QED
  BY <1>5, <1>6, <1>7, <1>9, WorldFields

\* A move of gdb that no handler is waiting for keeps it.
LEMMA InvMoves ==
    ASSUME Inv, NEW v, Kept(World, v), Become(v), Firm(v), Told(v),
           UNCHANGED <<setting, obituaries, requests>>
    PROVE  Inv' /\ st' = st /\ shown' = shown
<1>1. World' = v
  BY BecomeWorld DEF Kept
<1>2. gdb'.deaths = gdb.deaths /\ st' = st /\ shown' = shown
  BY <1>1, WorldFields DEF Kept
<1>3. gdb'.deaths >= gdb.deaths
  BY <1>2, WorldTypes, WorldFields DEF Inv, TypeInv
<1> QED
  BY <1>1, <1>2, <1>3, InvBecomes

\* So a program that stops or exits keeps it,
LEMMA InvProgram ==
    ASSUME Inv, \/ \E why \in {"step", "event"} : ProgramStops(why)
                \/ \E signalled \in BOOLEAN : ProgramExits(signalled)
    PROVE  Inv' /\ st' = st /\ shown' = shown
<1>1. Alive(World.gdb) /\ World \in Worlds /\ Firm(World) /\ Told(World)
  BY WorldFields DEF Inv, TypeInv, ProgramStops, ProgramExits
<1>2. World.gdb.up
  BY <1>1 DEF Firm, Down, Alive
<1>3. PICK v : /\ Become(v)
               /\ \/ \E why \in {"step", "event"} : v = Stop(World, why)
                  \/ \E signalled \in BOOLEAN : v = Exit(World, signalled)
  BY DEF ProgramStops, ProgramExits
<1>4. Kept(World, v) /\ v.gdb.late = World.gdb.late /\ (Stopped(World, v) \/ Exited(World, v))
  BY <1>1, <1>2, <1>3, StopMoves, ExitMoves
<1>5. Firm(v)
  BY <1>1, <1>4, FirmMoves DEF Firm
<1>6. Told(v)
  BY <1>1, <1>4, ToldMoves DEF Moved
<1>7. UNCHANGED <<setting, obituaries, requests>>
  BY DEF ProgramStops, ProgramExits
<1> QED
  BY <1>3, <1>4, <1>5, <1>6, <1>7, InvMoves

\* a command executed late,
LEMMA InvExecuteLate ==
    ASSUME Inv, ExecuteLate
    PROVE  Inv' /\ st' = st /\ shown' = shown
<1>1. World \in Worlds /\ Firm(World) /\ Told(World) /\ World.gdb.late # <<>>
  BY WorldFields DEF Inv, TypeInv, ExecuteLate
<1>2. World.gdb \in Gdbs /\ World.gdb.late \in Seq(Commands) /\ World.gdb.up
  BY <1>1 DEF Worlds, Gdbs, Firm, Down
<1>3. /\ Head(World.gdb.late) \in Commands
      /\ Tail(World.gdb.late) \in Seq(Commands)
      /\ Len(Tail(World.gdb.late)) = Len(World.gdb.late) - 1
      /\ Len(World.gdb.late) \in Nat /\ Len(World.gdb.late) >= 1
  BY <1>1, <1>2
<1>4. PICK cmd : cmd = Head(World.gdb.late)
  OBVIOUS
<1>5. PICK g : g = [World.gdb EXCEPT !.late = Tail(@)]
  OBVIOUS
<1>6. PICK w : w = [World EXCEPT !.gdb = g]
  OBVIOUS
<1>7. g \in Gdbs /\ g.late = Tail(World.gdb.late) /\ g.process = World.gdb.process
      /\ g.stops = World.gdb.stops /\ g.begun = World.gdb.begun
      /\ g.overtaken = World.gdb.overtaken /\ g.up = World.gdb.up
      /\ g.deaths = World.gdb.deaths /\ g.born = World.gdb.born
  BY <1>2, <1>3, <1>5 DEF Gdbs
<1>8. w \in Worlds /\ w.st = World.st /\ w.shown = World.shown /\ w.gdb = g
      /\ w.intake = World.intake
  BY <1>1, <1>6, <1>7 DEF Worlds
<1>9. Kept(World, w) /\ Idled(World, w)
  BY <1>2, <1>7, <1>8 DEF Kept, Idled
<1>10. MaxLate \in Nat /\ Len(w.gdb.late) <= MaxLate /\ MaxLate # 0
  <2>1. MaxLate \in Nat
    BY SettingTypes DEF Inv, TypeInv
  <2>2. Len(World.gdb.late) <= MaxLate
    BY <1>1 DEF Firm
  <2>3. PICK m, n : m = Len(Tail(World.gdb.late)) /\ n = Len(World.gdb.late)
    OBVIOUS
  <2>4. n \in Nat /\ n >= 1 /\ m = n - 1 /\ n <= MaxLate
    BY <1>3, <2>2, <2>3
  <2>5. m <= MaxLate /\ MaxLate # 0
    BY <2>1, <2>4
  <2>6. Len(w.gdb.late) = m
    BY <1>7, <1>8, <2>3
  <2> QED
    BY <2>1, <2>5, <2>6
<1>11. Firm(w)
  BY <1>1, <1>9, <1>10, FirmMoves
<1>12. Told(w)
  BY <1>1, <1>9, ToldMoves DEF Moved
<1>13. PICK v : v = Execute(w, cmd).w
  OBVIOUS
<1>14. Outcome(w, cmd, Execute(w, cmd))
  BY <1>2, <1>3, <1>4, <1>7, <1>8, ExecuteMoves
<1>15. Moved(w, v) /\ v.gdb.late = w.gdb.late
  <2>1. CASE Execute(w, cmd).ok
    <3>1. Kept(w, v) /\ Accepted(w, cmd, v) /\ v.gdb.late = w.gdb.late
      BY <1>13, <1>14, <2>1 DEF Outcome
    <3>2. v = w => Idled(w, v)
      BY DEF Idled
    <3> QED
      BY <1>3, <1>4, <3>1, <3>2 DEF Accepted, Commands, Verbs, Moved
  <2>2. CASE ~Execute(w, cmd).ok
    BY <1>8, <1>13, <1>14, <2>2 DEF Outcome, Moved, Kept, Idled
  <2> QED
    BY <2>1, <2>2
<1>16. Kept(World, v)
  BY <1>2, <1>9, <1>15 DEF Moved, Kept
<1>17. Firm(v)
  <2>1. Sound(v) /\ Down(v)
    BY <1>11, <1>15, SoundMoves, DownMoves DEF Firm
  <2>2. EntryLed(v) /\ InStep(v)
    BY <1>10 DEF EntryLed, InStep
  <2> QED
    BY <1>10, <1>11, <1>15, <2>1, <2>2 DEF Firm, Moved, Kept
<1>18. Told(v)
  BY <1>8, <1>12, <1>15, ToldMoves
<1>19. Become(v) /\ UNCHANGED <<setting, obituaries, requests>>
  <2>1. [World EXCEPT !.gdb.late = Tail(@)] = w
    BY <1>1, <1>5, <1>6 DEF Worlds
  <2> QED
    BY <1>4, <1>13, <2>1, WorldFields DEF ExecuteLate
<1> QED
  BY <1>16, <1>17, <1>18, <1>19, InvMoves

\* the death of gdb,
LEMMA InvGdbDies ==
    ASSUME Inv, GdbDies
    PROVE  Inv' /\ st' = st /\ shown' = shown
<1>1. World \in Worlds /\ Firm(World) /\ Told(World) /\ World.gdb = gdb
  BY WorldFields DEF Inv, TypeInv
<1>2. gdb \in Gdbs /\ gdb.deaths \in Nat /\ gdb.deaths + 1 \in Nat /\ <<>> \in Seq(Commands)
  <2>1. gdb \in Gdbs /\ gdb.deaths \in Nat
    BY <1>1 DEF Worlds, Gdbs
  <2> QED
    BY <2>1
<1>3. gdb' = [gdb EXCEPT !.up = FALSE, !.process = "none", !.late = <<>>, !.deaths = gdb.deaths + 1]
  BY DEF GdbDies
<1>4. gdb' \in Gdbs /\ gdb'.up = FALSE /\ gdb'.process = "none" /\ gdb'.late = <<>>
      /\ gdb'.deaths = gdb.deaths + 1 /\ gdb'.stops = gdb.stops /\ gdb'.born = gdb.born
      /\ gdb'.begun = gdb.begun /\ gdb'.overtaken = gdb.overtaken
  BY <1>2, <1>3 DEF Gdbs
<1>5. PICK v : v = [World EXCEPT !.gdb = gdb']
  OBVIOUS
<1>6. v \in Worlds /\ v.st = World.st /\ v.gdb = gdb' /\ v.intake = World.intake
      /\ v.shown = World.shown
  BY <1>1, <1>4, <1>5 DEF Worlds
<1>7. World' = v
  BY <1>6, WorldFields DEF GdbDies, World, Worlds
<1>8. v.gdb.deaths # 0
  BY <1>2, <1>4, <1>6
<1>9. Sound(v)
  <2>1. Numbered(v)
    BY <1>1, <1>4, <1>6 DEF Firm, Sound, Numbered
  <2>2. LastWord(v) /\ Spaced(v) /\ LastStop(v)
    BY <1>8 DEF LastWord, Spaced, LastStop
  <2>3. StackRead(v)
    BY <1>1, <1>4, <1>6 DEF Firm, Sound, StackRead, IsUp
  <2>4. StackOfThis(v) /\ Entry(v)
    BY <1>1, <1>4, <1>6 DEF Firm, Sound, StackOfThis, Entry
  <2> QED
    BY <1>6, <2>1, <2>2, <2>3, <2>4 DEF Sound
<1>10. Down(v) /\ EntryLed(v) /\ Told(v)
  BY <1>4, <1>6, <1>8 DEF Down, EntryLed, Told
<1>11. InStep(v)
  BY <1>1, <1>4, <1>6 DEF Firm, InStep, IsUp
<1>12. Len(v.gdb.late) <= MaxLate
  <2>1. MaxLate \in Nat
    BY SettingTypes DEF Inv, TypeInv
  <2> QED
    BY <1>4, <1>6, <2>1
<1>13. Firm(v)
  BY <1>1, <1>6, <1>9, <1>10, <1>11, <1>12 DEF Firm
<1>14. setting' = setting /\ requests' = requests /\ Kinds' = Kinds
  BY DEF GdbDies, Kinds
<1>15. Firm(World)' /\ Told(World)'
  BY <1>7, <1>10, <1>13, <1>14, SettingStays
<1>16. (obituaries \in Nat)' /\ (obituaries <= gdb.deaths)'
  BY <1>2, <1>4 DEF Inv, TypeInv, GdbDies
<1>17. (World \in Worlds)' /\ \A c \in Clients : Askable(requests[c])'
  BY <1>6, <1>7, <1>14 DEF Inv, Askable
<1>18. st' = st /\ shown' = shown
  BY DEF GdbDies
<1> QED
  BY <1>14, <1>15, <1>16, <1>17, <1>18 DEF Inv, TypeInv

\* its announcement,
LEMMA InvAnnounce ==
    ASSUME Inv, AnnounceDeath
    PROVE  Inv' /\ st' = st
<1>1. World \in Worlds /\ Firm(World) /\ Told(World) /\ World.gdb = gdb
      /\ World.shown = shown
  BY WorldFields DEF Inv, TypeInv
<1>2. gdb.deaths # 0
  BY <1>1 DEF Inv, TypeInv, AnnounceDeath, Worlds, Gdbs
<1>3. shown' = [shown EXCEPT !.runState = "noProgram"]
  BY DEF AnnounceDeath
<1>4. shown' \in [runState : RunStates, stopSeq : Nat, code : Nat, signal : Nat]
  BY <1>1, <1>3 DEF Worlds, RunStates
<1>5. PICK v : v = [World EXCEPT !.shown = shown']
  OBVIOUS
<1>6. Mirrored(World, v) /\ v.st = World.st
  BY <1>1, <1>4, <1>5 DEF Mirrored, Worlds
<1>7. World' = v
  BY <1>1, <1>4, <1>5, WorldFields DEF AnnounceDeath, World, Worlds
<1>8. Adjusted(World, v)
  BY <1>6 DEF Adjusted, StackChange, StateChange
<1>9. Firm(v)
  BY <1>1, <1>6, <1>8, FirmAdjusts
<1>10. Told(v)
  BY <1>1, <1>2, <1>6 DEF Told, Mirrored
<1>11. setting' = setting /\ requests' = requests /\ Kinds' = Kinds /\ gdb' = gdb /\ st' = st
  BY DEF AnnounceDeath, Kinds
<1>12. Firm(World)' /\ Told(World)'
  BY <1>7, <1>9, <1>10, <1>11, SettingStays
<1>13. (obituaries \in Nat)' /\ (obituaries <= gdb.deaths)'
  <2>1. gdb.deaths \in Nat
    BY <1>1 DEF Worlds, Gdbs
  <2> QED
    BY <1>11, <2>1 DEF Inv, TypeInv, AnnounceDeath
<1>14. (World \in Worlds)' /\ \A c \in Clients : Askable(requests[c])'
  BY <1>6, <1>7, <1>11 DEF Inv, Askable, Mirrored
<1> QED
  BY <1>11, <1>12, <1>13, <1>14 DEF Inv, TypeInv

\* and a stuttering step.
LEMMA InvStays ==
    ASSUME Inv, UNCHANGED vars
    PROVE  Inv'
<1>1. World' = World /\ UNCHANGED <<setting, obituaries, requests>> /\ gdb' = gdb
  BY WorldStays DEF vars
<1>2. gdb'.deaths >= gdb.deaths
  BY <1>1, WorldTypes, WorldFields DEF Inv, TypeInv
<1> QED
  BY <1>1, <1>2, InvBecomes DEF Inv

\* The invariant is inductive.
LEMMA InvNext == Inv /\ [Next]_vars => Inv'
<1> SUFFICES ASSUME Inv, [Next]_vars PROVE Inv'
  OBVIOUS
<1>1. ASSUME NEW c \in setting.clients, NEW kind \in Kinds \ {"load"}, Ask(c, kind, NoFile)
      PROVE  Inv'
  BY <1>1, InvAsk
<1>2. ASSUME NEW c \in setting.clients, NEW file \in Files, "load" \in Kinds,
             Ask(c, "load", file)
      PROVE  Inv'
  BY <1>2, InvAsk
<1>3. ASSUME NEW c \in Clients, Serve(c) PROVE Inv'
  BY <1>3, InvServe
<1>4. CASE Take
  BY <1>4, InvTake
<1>5. CASE \/ \E why \in {"step", "event"} : ProgramStops(why)
           \/ \E signalled \in BOOLEAN : ProgramExits(signalled)
  BY <1>5, InvProgram
<1>6. CASE ExecuteLate
  BY <1>6, InvExecuteLate
<1>7. CASE GdbDies
  BY <1>7, InvGdbDies
<1>8. CASE AnnounceDeath
  BY <1>8, InvAnnounce
<1>9. CASE UNCHANGED vars
  BY <1>9, InvStays
<1> QED
  BY <1>1, <1>2, <1>3, <1>4, <1>5, <1>6, <1>7, <1>8, <1>9 DEF Next

-----------------------------------------------------------------------------
(* What it comes to.                                                       *)

\* The invariant holds throughout.
THEOREM SessionInvHolds == Spec => []Inv
<1>1. Init => Inv
  BY InvInit
<1>2. Inv /\ [Next]_vars => Inv'
  BY InvNext
<1> QED
  BY <1>1, <1>2, PTL DEF Spec

\* Every variable keeps its type: worlds of the handlers are worlds of the actor.
THEOREM TypeCorrect == Spec => []TypeInv
<1>1. Inv => TypeInv
  BY DEF Inv
<1> QED
  BY <1>1, SessionInvHolds, PTL

\* Once the actor has caught up with gdb, its mirror says what the program does:
\* the last record gdb wrote is about the state its process is in, and taking the
\* last record makes the mirror say so.
THEOREM MirrorAgrees == Spec => []SettledAgreement
<1>1. Inv => SettledAgreement
  <2> SUFFICES ASSUME Inv, Settled, gdb.up, gdb.deaths = 0
               PROVE  /\ (st.runState = "running") <=> Alive(gdb)
                      /\ (st.runState = "stopped") <=> (gdb.process = "stopped")
    BY DEF SettledAgreement
  <2>1. LastWord(World)
    BY DEF Inv, Firm, Sound
  <2>2. Agrees(st.runState, gdb.process)
    BY <2>1, WorldFields DEF LastWord, Settled
  <2> QED
    BY <2>2 DEF Agrees, IsUp, Alive
<1> QED
  BY <1>1, SessionInvHolds, PTL

\* The stack in a snapshot is that of the stop it is paired with, and never that
\* of a gdb that is gone.
THEOREM StackIsCurrent == Spec => []NoOldStack
<1>1. Inv => NoOldStack
  <2> SUFFICES ASSUME Inv PROVE NoOldStack
    OBVIOUS
  <2>1. StackRead(World) /\ StackOfThis(World) /\ World \in Worlds
    BY DEF Inv, Firm, Sound
  <2>2. st.frames \in Nat /\ gdb.born \in Nat /\ st.stopSeq \in Nat
    BY <2>1, WorldTypes, WorldFields
  <2>3. st.runState = "stopped" /\ "stepLine" \notin Kinds =>
            st.frames = 0 \/ st.frames >= st.stopSeq
    BY <2>1, WorldFields DEF StackRead
  <2>4. st.frames = 0 \/ gdb.born < st.frames
    BY <2>1, WorldFields DEF StackOfThis
  <2>5. st.frames = 0 \/ st.frames > gdb.born
    BY <2>2, <2>4
  <2> QED
    BY <2>3, <2>5 DEF NoOldStack
<1> QED
  BY <1>1, SessionInvHolds, PTL

\* A browser that handles every event shows what a snapshot taken now would: what
\* is written to the mirror without an event is the deferred start only, and
\* then a record is queued that will be told.
THEOREM BrowsersAgree == Spec => []BrowserAgrees
<1>1. Inv => BrowserAgrees
  <2> SUFFICES ASSUME Inv, gdb.deaths = 0, "stepLine" \notin Kinds,
                      Settled \/ MaxLate = 0 \/ "resume" \notin StartModes
               PROVE  /\ shown.runState = st.runState
                      /\ st.runState = "stopped" => shown.stopSeq = st.stopSeq
    BY DEF BrowserAgrees
  <2>1. Told(World)
    BY DEF Inv
  <2>2. Settled => ~\E i \in 1 .. Len(World.intake) : Ending(World.intake[i])
    <3>1. Settled => Len(World.intake) = 0
      BY WorldFields DEF Settled
    <3> QED
      BY <3>1
  <2>3. ~(MaxLate = 0 /\ MaxLate > 0)
    OBVIOUS
  <2> QED
    BY <2>1, <2>2, <2>3, WorldFields DEF Told
<1> QED
  BY <1>1, SessionInvHolds, PTL

\* A step or continue of a tab resumes the stop that tab was shown: a mirror that
\* says stopped counts gdb's stops, unless a command is executed late.
THEOREM ResumesOnlyShown == Spec => ResumesShownStop
<1>1. ASSUME Inv, [Next]_vars, NEW c \in Tabs,
             MaxLate = 0, "console" \notin Kinds, ~gdb.overtaken,
             requests[c].kind \in Resumes, requests[c].got # 0,
             requests'[c] = NoRequest, Alive(gdb'), ~Alive(gdb)
      PROVE  requests[c].got = gdb.stops
  <2>1. c \in Clients /\ requests[c] # NoRequest
    BY <1>1, RequestsAssumption DEF NoRequest, Resumes
  <2>2. Serve(c)
    <3>1. requests'[c] # requests[c]
      BY <1>1, <2>1
    <3>2. \A d \in Clients : \A kind, file : ~Ask(d, kind, file)
      <4> SUFFICES ASSUME NEW d \in Clients, NEW kind, NEW file, Ask(d, kind, file)
                   PROVE  FALSE
        OBVIOUS
      <4>1. requests'[c] = requests[c] \/ c = d
        BY <1>1, <2>1 DEF Ask, Inv, TypeInv
      <4> QED
        BY <2>1, <3>1, <4>1 DEF Ask
    <3>3. \A d \in Clients : d # c => ~Serve(d)
      BY <1>1, <2>1, <3>1 DEF Serve, Inv, TypeInv
    <3>4. setting.clients \subseteq Clients
      BY <1>1, SettingTypes DEF Inv, TypeInv
    <3>5. requests' # requests
      BY <3>1
    <3> QED
      BY <1>1, <3>2, <3>3, <3>4, <3>5
         DEF Next, Take, ProgramStops, ProgramExits, ExecuteLate, GdbDies, AnnounceDeath, vars
  <2>3. PICK w \in Dispatch(World, requests[c]) : Become(w)
    BY <2>2 DEF Serve
  <2>4. w # World
    <3>1. w.gdb = gdb'
      BY <2>3 DEF Become
    <3> QED
      BY <1>1, <3>1, WorldFields
  <2>5. Gate(World, requests[c].kind) /\ CheckStopSeq(World, requests[c].got)
    BY <1>1, <2>3, <2>4 DEF Dispatch, Resumes
  <2>6. st.runState = "stopped" /\ requests[c].got = st.stopSeq
    BY <1>1, <2>5, WorldFields DEF Gate, CheckStopSeq, Resumes
  <2>7. InStep(World)
    BY <1>1 DEF Inv, Firm
  <2> QED
    BY <1>1, <2>6, <2>7, WorldFields DEF InStep
<1>2. Inv /\ [Next]_vars =>
          [\A c \in Tabs :
              /\ MaxLate = 0 /\ "console" \notin Kinds /\ ~gdb.overtaken
              /\ requests[c].kind \in Resumes
              /\ requests[c].got # 0
              /\ requests'[c] = NoRequest
              /\ Alive(gdb') /\ ~Alive(gdb)
              => requests[c].got = gdb.stops]_vars
  BY <1>1
<1> QED
  BY <1>2, SessionInvHolds, PTL DEF Spec, ResumesShownStop

\* A stop because of something else than a step, and not the first of its process,
\* is shown: no deferred start outlives the first stop of its process, and a walk
\* goes on after steps only.
THEOREM EventsAreShown == Spec => EventsShown
<1>1. ASSUME Inv, [Next]_vars, intake # <<>>, intake' # intake, st'.stopSeq # st.stopSeq,
             Head(intake).why = "event", st'.stopSeq > gdb.begun + 1
      PROVE  shown'.runState = "stopped" /\ shown'.stopSeq = st'.stopSeq
  <2>1. Take
    <3>1. \A c \in Clients : ~Serve(c)
      BY <1>1, InvServe
    <3>2. st' # st
      BY <1>1
    <3> QED
      BY <1>1, <3>1, <3>2, InvProgram, InvExecuteLate, InvGdbDies, InvAnnounce
         DEF Next, Ask, vars
  <2>2. World \in Worlds /\ Entry(World) /\ Head(intake) \in Records
    <3>1. World \in Worlds /\ Entry(World)
      BY <1>1 DEF Inv, Firm, Sound
    <3>2. intake \in Seq(Records)
      BY <3>1, WorldTypes, WorldFields
    <3> QED
      BY <1>1, <3>1, <3>2
  <2>3. Head(intake).kind = "stopped"
    <3>1. st.stopSeq + 0 = st.stopSeq
      BY <2>2, WorldTypes, WorldFields
    <3> QED
      BY <1>1, <2>1, <3>1, InvTake
  <2>4. st.deferred # "resume"
    <3>1. CASE st.deferred = "resume"
      <4>1. st.stopSeq <= gdb.begun /\ st.stopSeq \in Nat /\ gdb.begun \in Nat
        BY <2>2, <3>1, WorldTypes, WorldFields DEF Entry
      <4>2. st'.stopSeq = st.stopSeq + 1
        BY <1>1, <2>1, <2>3, <3>1, InvTake
      <4> QED
        BY <1>1, <4>1, <4>2
    <3> QED
      BY <3>1
  <2> QED
    BY <1>1, <2>1, <2>3, <2>4, InvTake
<1>2. Inv /\ [Next]_vars =>
          [/\ intake # <<>> /\ intake' # intake /\ st'.stopSeq # st.stopSeq
           /\ Head(intake).why = "event" /\ st'.stopSeq > gdb.begun + 1
           => shown'.runState = "stopped" /\ shown'.stopSeq = st'.stopSeq]_vars
  BY <1>1
<1> QED
  BY <1>2, SessionInvHolds, PTL DEF Spec, EventsShown
=============================================================================
