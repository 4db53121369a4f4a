------------------------------ MODULE MIClient ------------------------------
(***************************************************************************)
(* The GDB/MI client of internal/mi/client.go together with the landing    *)
(* pad of internal/debugger/session.go (recordQueue).                      *)
(*                                                                         *)
(* Goroutines: the callers of Send and SendUnlocked (one of them is the    *)
(* session's actor, one is the shutdown path Close), the reader            *)
(* (readLoop), the dispatcher (dispatchLoop).  gdb itself is the           *)
(* environment: it reads lines from its stdin, answers each one, writes    *)
(* records of its own, and may exit at any moment.                         *)
(*                                                                         *)
(* A command is identified by its caller and the number of that caller's   *)
(* call; a token is what the client puts on the wire.  That the two agree  *)
(* is what the client has to achieve, so a reply carries both.             *)
(***************************************************************************)
EXTENDS Naturals, Sequences, FiniteSets

CONSTANTS
    Callers,    \* goroutines that issue commands
    Lockers,    \* those of them that use Send; the others use SendUnlocked
    Actor,      \* the session actor: drains the landing pad between commands
    Closer,     \* the goroutine in Close
    Gdb,        \* the author of records nobody asked for
    NoCaller,   \* nobody holds the command semaphore
    MaxCalls,   \* bound: calls made by each caller; without three for Closer
                \* nobody closes the client
    MaxAsync,   \* bound: records gdb writes of its own accord
    QueueSize,  \* Options.QueueSize
    PipeSize,   \* records the stdout pipe holds before gdb blocks writing
    StdinSize,  \* lines the stdin pipe holds before a write of the client waits
    MaxTombs    \* maxTombstones

ASSUME CallersAssumption ==
    /\ Lockers \subseteq Callers
    /\ Actor \in Callers
    /\ Closer \in Callers
    /\ Actor # Closer
    /\ Closer \notin Lockers
    /\ Gdb \notin Callers
    /\ NoCaller \notin Callers

ASSUME BoundsAssumption ==
    /\ \A c \in Callers : MaxCalls[c] \in Nat
    /\ MaxAsync \in Nat
    /\ QueueSize \in Nat \ {0}
    /\ PipeSize \in Nat \ {0}
    /\ StdinSize \in Nat \ {0}
    /\ MaxTombs \in Nat \ {0}

VARIABLES
    pc,          \* where each caller is in Send / send
    calls,       \* number of the caller's current (or last) call
    tok,         \* the token of that call
    answer,      \* how the caller's last call ended
    sendSem,     \* holder of the command semaphore
    nextTok,     \* atomic token counter
    pending,     \* tokens a caller waits on
    inbox,       \* replies sitting in the one-slot channels of their callers
    hangup,      \* tokens whose channel markDead has closed
    tombs,       \* tokens whose caller gave up
    tombOrder,   \* the same in the order they were given up
    stdin,       \* lines gdb has not read yet
    stdinOpen,   \* the write end of the pipe is open
    stdout,      \* records gdb has written and the reader has not read
    gdbUp,       \* the gdb process exists
    asyncs,      \* number of records gdb wrote of its own accord
    executed,    \* the commands gdb has executed, in order
    reader,      \* readLoop: "read", "emit" (queue full), "mark", "ended"
    hand,        \* the record the reader is blocked on emitting
    events,      \* the bounded queue between reader and dispatcher
    dispatching, \* dispatchLoop has not returned
    intake,      \* recordQueue.items: handed over, not yet seen by the actor
    seen,        \* number of the last unsolicited record the actor handled
    death,       \* markDead: "alive", "swapped", "dead"
    doomed,      \* channels markDead still has to close
    killOnClose, \* SetKillOnClose
    closing      \* progress of doClose

sendVars  == <<pc, calls, tok, answer, sendSem>>
tableVars == <<nextTok, pending, inbox, hangup, tombs, tombOrder>>
gdbVars   == <<stdin, stdinOpen, stdout, gdbUp, asyncs, executed>>
queueVars == <<reader, hand, events, dispatching, intake, seen>>
deathVars == <<death, doomed, killOnClose, closing>>
vars == <<sendVars, tableVars, gdbVars, queueVars, deathVars>>

Commands == [by : Callers, n : Nat]
Lines    == [tok : Nat, by : Callers, n : Nat]
Records  == [tok : Nat, by : Callers \cup {Gdb}, n : Nat]
Idle     == [how |-> "none", by |-> Gdb, n |-> 0]

\* The dead channel is closed: DeadErr() # nil.
Dead == death = "dead"

IsResult(rec) == rec.tok # 0

Init ==
    /\ pc = [c \in Callers |-> "idle"]
    /\ calls = [c \in Callers |-> 0]
    /\ tok = [c \in Callers |-> 0]
    /\ answer = [c \in Callers |-> Idle]
    /\ sendSem = NoCaller
    /\ nextTok = 0
    /\ pending = {}
    /\ inbox = {}
    /\ hangup = {}
    /\ tombs = {}
    /\ tombOrder = <<>>
    /\ stdin = <<>>
    /\ stdinOpen = TRUE
    /\ stdout = <<>>
    /\ gdbUp = TRUE
    /\ asyncs = 0
    /\ executed = <<>>
    /\ reader = "read"
    /\ hand = <<>>
    /\ events = <<>>
    /\ dispatching = TRUE
    /\ intake = <<>>
    /\ seen = 0
    /\ death = "alive"
    /\ doomed = {}
    /\ killOnClose \in BOOLEAN
    /\ closing = "open"

-----------------------------------------------------------------------------
(* Send and SendUnlocked.                                                  *)

\* A caller enters Send or SendUnlocked.
Begin(c) ==
    /\ pc[c] = "idle"
    /\ calls[c] < MaxCalls[c]
    /\ calls' = [calls EXCEPT ![c] = @ + 1]
    /\ answer' = [answer EXCEPT ![c] = Idle]
    /\ pc' = [pc EXCEPT ![c] = IF c \in Lockers THEN "sem" ELSE "check"]
    /\ UNCHANGED <<tok, sendSem>>

\* The call is over: its outcome is recorded and the deferred release of the
\* semaphore runs.
Return(c, outcome) ==
    /\ pc' = [pc EXCEPT ![c] = "idle"]
    /\ answer' = [answer EXCEPT ![c] = outcome]
    /\ sendSem' = IF sendSem = c THEN NoCaller ELSE sendSem
    /\ UNCHANGED <<calls, tok>>

Failed(why) == [how |-> why, by |-> Gdb, n |-> 0]

AcquireSem(c) ==
    /\ pc[c] = "sem"
    /\ sendSem = NoCaller
    /\ sendSem' = c
    /\ pc' = [pc EXCEPT ![c] = "check"]
    /\ UNCHANGED <<calls, tok, answer, tableVars, gdbVars, queueVars, deathVars>>

\* The other two arms of Send's select.
DeadAtSem(c) ==
    /\ pc[c] = "sem"
    /\ Dead
    /\ Return(c, Failed("dead"))
    /\ UNCHANGED <<tableVars, gdbVars, queueVars, deathVars>>

AbandonSem(c) ==
    /\ pc[c] = "sem"
    /\ Return(c, Failed("ctx"))
    /\ UNCHANGED <<tableVars, gdbVars, queueVars, deathVars>>

\* send looks at the dead channel before it takes a token.
CheckDead(c) ==
    /\ pc[c] = "check"
    /\ IF Dead
       THEN Return(c, Failed("dead"))
       ELSE /\ pc' = [pc EXCEPT ![c] = "register"]
            /\ UNCHANGED <<calls, tok, answer, sendSem>>
    /\ UNCHANGED <<tableVars, gdbVars, queueVars, deathVars>>

\* Mutant of Register: the counter is read and not advanced.
RegisterReusesToken(c) ==
    /\ pc[c] = "register"
    /\ tok' = [tok EXCEPT ![c] = nextTok + 1]
    /\ pending' = pending \cup {nextTok + 1}
    /\ pc' = [pc EXCEPT ![c] = "write"]
    /\ UNCHANGED <<calls, answer, sendSem, nextTok, inbox, hangup, tombs, tombOrder>>
    /\ UNCHANGED <<gdbVars, queueVars, deathVars>>

Register(c) ==
    /\ pc[c] = "register"
    /\ nextTok' = nextTok + 1
    /\ tok' = [tok EXCEPT ![c] = nextTok']
    /\ pending' = pending \cup {nextTok'}
    /\ pc' = [pc EXCEPT ![c] = "write"]
    /\ UNCHANGED <<calls, answer, sendSem, inbox, hangup, tombs, tombOrder>>
    /\ UNCHANGED <<gdbVars, queueVars, deathVars>>

\* forget(tok, tombstone): the oldest tombstones give way past the limit.
Forget(t, tombstone) ==
    LET order == Append(tombOrder, t)
        keep  == IF Len(order) > MaxTombs THEN Tail(order) ELSE order
    IN  /\ pending' = pending \ {t}
        /\ inbox' = {r \in inbox : r.tok # t}
        /\ hangup' = hangup \ {t}
        /\ IF tombstone
           THEN /\ tombOrder' = keep
                /\ tombs' = (tombs \cup {t}) \
                            (IF Len(order) > MaxTombs THEN {Head(order)} ELSE {})
           ELSE UNCHANGED <<tombs, tombOrder>>
        /\ UNCHANGED nextTok

\* Nobody writes: the pipe is full, and whoever holds writeMu waits in it for a
\* gdb that lives, with the others behind, whatever their contexts say.
PipeFull == stdinOpen /\ gdbUp /\ Len(stdin) >= StdinSize

\* write: into the pipe once it has room, or an error once nobody reads it.
WriteLine(c) ==
    /\ pc[c] = "write"
    /\ ~PipeFull
    /\ IF stdinOpen /\ gdbUp
       THEN /\ stdin' = Append(stdin, [tok |-> tok[c], by |-> c, n |-> calls[c]])
            /\ pc' = [pc EXCEPT ![c] = "wait"]
            /\ UNCHANGED <<calls, tok, answer, sendSem, tableVars>>
       ELSE /\ Forget(tok[c], FALSE)
            /\ Return(c, Failed("write"))
            /\ UNCHANGED stdin
    /\ UNCHANGED <<stdinOpen, stdout, gdbUp, asyncs, executed, queueVars, deathVars>>

\* A receive on the call's channel: the reply the reader put there.
TakeReply(c) ==
    /\ pc[c] = "wait"
    /\ \E r \in inbox :
          /\ r.tok = tok[c]
          /\ inbox' = inbox \ {r}
          /\ Return(c, [how |-> "reply", by |-> r.by, n |-> r.n])
    /\ UNCHANGED <<nextTok, pending, hangup, tombs, tombOrder>>
    /\ UNCHANGED <<gdbVars, queueVars, deathVars>>

\* Mutant of TakeHangup: !ok is not looked at, the zero record is a success.
TakeHangupAsDone(c) ==
    /\ pc[c] = "wait"
    /\ tok[c] \in hangup
    /\ hangup' = hangup \ {tok[c]}
    /\ Return(c, [how |-> "reply", by |-> c, n |-> calls[c]])
    /\ UNCHANGED <<nextTok, pending, inbox, tombs, tombOrder>>
    /\ UNCHANGED <<gdbVars, queueVars, deathVars>>

\* A receive that yields !ok: the channel was closed by markDead.
TakeHangup(c) ==
    /\ pc[c] = "wait"
    /\ tok[c] \in hangup
    /\ hangup' = hangup \ {tok[c]}
    /\ Return(c, Failed("dead"))
    /\ UNCHANGED <<nextTok, pending, inbox, tombs, tombOrder>>
    /\ UNCHANGED <<gdbVars, queueVars, deathVars>>

\* The context ends first: leave a tombstone for the reply in flight.
GiveUp(c) ==
    /\ pc[c] = "wait"
    /\ Forget(tok[c], TRUE)
    /\ Return(c, Failed("ctx"))
    /\ UNCHANGED <<gdbVars, queueVars, deathVars>>

\* The dead channel wins the select.
NoticeDead(c) ==
    /\ pc[c] = "wait"
    /\ Dead
    /\ Forget(tok[c], FALSE)
    /\ Return(c, Failed("dead"))
    /\ UNCHANGED <<gdbVars, queueVars, deathVars>>

-----------------------------------------------------------------------------
(* gdb.                                                                    *)

\* gdb reads one line, does what it says and writes the result record.
GdbAnswer ==
    /\ gdbUp
    /\ stdin # <<>>
    /\ Len(stdout) < PipeSize
    /\ stdin' = Tail(stdin)
    /\ stdout' = Append(stdout, Head(stdin))
    /\ executed' = Append(executed, [by |-> Head(stdin).by, n |-> Head(stdin).n])
    /\ UNCHANGED <<stdinOpen, gdbUp, asyncs, sendVars, tableVars, queueVars, deathVars>>

\* A stop, a notification, output, or a result carrying token 0.
GdbSpeaks ==
    /\ gdbUp
    /\ asyncs < MaxAsync
    /\ Len(stdout) < PipeSize
    /\ asyncs' = asyncs + 1
    /\ stdout' = Append(stdout, [tok |-> 0, by |-> Gdb, n |-> asyncs'])
    /\ UNCHANGED <<stdin, stdinOpen, gdbUp, executed, sendVars, tableVars, queueVars, deathVars>>

\* gdb exits: on -gdb-exit, on the end of its input, or because it crashed.
GdbExit ==
    /\ gdbUp
    /\ gdbUp' = FALSE
    /\ stdin' = <<>>
    /\ UNCHANGED <<stdinOpen, stdout, asyncs, executed, sendVars, tableVars, queueVars, deathVars>>


-----------------------------------------------------------------------------
(* The reader and the dispatcher.                                          *)

\* What no step of the two loops touches.
CallersWait == UNCHANGED <<sendVars, stdin, stdinOpen, gdbUp, asyncs, executed, deathVars>>

\* route: a result for a waiting caller goes to its channel.
RouteToCaller ==
    /\ reader = "read" /\ stdout # <<>>
    /\ Head(stdout).tok \in pending
    /\ pending' = pending \ {Head(stdout).tok}
    /\ tombs' = tombs \ {Head(stdout).tok}
    /\ inbox' = inbox \cup {Head(stdout)}
    /\ stdout' = Tail(stdout)
    /\ UNCHANGED <<nextTok, hangup, tombOrder, queueVars>>
    /\ CallersWait

\* route: a result for a caller that gave up is dropped.
RouteToTombstone ==
    /\ reader = "read" /\ stdout # <<>>
    /\ Head(stdout).tok \notin pending
    /\ Head(stdout).tok \in tombs
    /\ tombs' = tombs \ {Head(stdout).tok}
    /\ stdout' = Tail(stdout)
    /\ UNCHANGED <<nextTok, pending, inbox, hangup, tombOrder, queueVars>>
    /\ CallersWait

\* Everything else is an event; emit blocks when the queue is full.
RouteToEvents ==
    /\ reader = "read" /\ stdout # <<>>
    /\ Head(stdout).tok \notin pending \cup tombs
    /\ hand' = <<Head(stdout)>>
    /\ reader' = "emit"
    /\ stdout' = Tail(stdout)
    /\ UNCHANGED <<events, dispatching, intake, seen, tableVars>>
    /\ CallersWait

\* Mutant of Emit: off by one at the capacity of the queue.
EmitOverCapacity ==
    /\ reader = "emit"
    /\ Len(events) <= QueueSize
    /\ events' = Append(events, hand[1])
    /\ hand' = <<>>
    /\ reader' = "read"
    /\ UNCHANGED <<dispatching, intake, seen, stdout, tableVars>>
    /\ CallersWait

Emit ==
    /\ reader = "emit"
    /\ Len(events) < QueueSize
    /\ events' = Append(events, hand[1])
    /\ hand' = <<>>
    /\ reader' = "read"
    /\ UNCHANGED <<dispatching, intake, seen, stdout, tableVars>>
    /\ CallersWait

\* The read fails: gdb is gone and its output has been read, or Close has
\* already reaped it, which closes the pipe under the reader.
ReadError ==
    /\ reader = "read"
    /\ ~gdbUp
    /\ stdout = <<>> \/ closing \in {"mark", "join"}
    /\ stdout' = <<>>
    /\ reader' = "mark"
    /\ UNCHANGED <<hand, events, dispatching, intake, seen, tableVars>>
    /\ CallersWait

\* Mutant of Dispatch: a goroutine per event, so that a later one may be first.
DispatchUnordered ==
    /\ dispatching
    /\ events # <<>>
    /\ intake' \in {Append(intake, Head(events)), <<Head(events)>> \o intake}
    /\ events' = Tail(events)
    /\ UNCHANGED <<reader, hand, dispatching, seen, stdout, tableVars>>
    /\ CallersWait

\* Mutant of Dispatch: the handler waits for the actor to take the record.
DispatchWaits ==
    /\ dispatching
    /\ events # <<>>
    /\ pc[Actor] = "idle"
    /\ intake' = Append(intake, Head(events))
    /\ events' = Tail(events)
    /\ UNCHANGED <<reader, hand, dispatching, seen, stdout, tableVars>>
    /\ CallersWait

\* dispatchLoop hands one event to the handler, which only pushes it.
Dispatch ==
    /\ dispatching
    /\ events # <<>>
    /\ intake' = Append(intake, Head(events))
    /\ events' = Tail(events)
    /\ UNCHANGED <<reader, hand, dispatching, seen, stdout, tableVars>>
    /\ CallersWait

\* Mutant of DispatchEnd: it stops with the reader, whatever is queued.
DispatchEndEarly ==
    /\ dispatching
    /\ reader = "ended"
    /\ dispatching' = FALSE
    /\ UNCHANGED <<reader, hand, events, intake, seen, stdout, tableVars>>
    /\ CallersWait

DispatchEnd ==
    /\ dispatching
    /\ events = <<>>
    /\ reader = "ended"
    /\ dispatching' = FALSE
    /\ UNCHANGED <<reader, hand, events, intake, seen, stdout, tableVars>>
    /\ CallersWait

\* The actor handles a record; only between commands, since a command blocks it.
Drain ==
    /\ pc[Actor] = "idle"
    /\ intake # <<>>
    /\ intake' = Tail(intake)
    /\ seen' = IF IsResult(Head(intake)) THEN seen ELSE Head(intake).n
    /\ UNCHANGED <<reader, hand, events, dispatching, stdout, tableVars>>
    /\ CallersWait

-----------------------------------------------------------------------------
(* Death and shutdown.                                                     *)

\* markDead, first half: take the table away under the lock.
SwapPending ==
    /\ death = "alive"
    /\ death' = "swapped"
    /\ doomed' = pending
    /\ pending' = {}
    /\ UNCHANGED <<nextTok, inbox, hangup, tombs, tombOrder>>

\* The reader is the first to call it, or Close is.
MarkDead ==
    /\ reader = "mark" \/ closing = "mark"
    /\ SwapPending
    /\ UNCHANGED <<killOnClose, closing, sendVars, gdbVars, queueVars>>

\* close(c.dead).
CloseDead ==
    /\ death = "swapped"
    /\ death' = "dead"
    /\ UNCHANGED <<doomed, killOnClose, closing, sendVars, tableVars, gdbVars, queueVars>>

\* Then the channel of every caller that was waiting, one after another.
CloseChannel ==
    /\ Dead
    /\ \E t \in doomed :
          /\ doomed' = doomed \ {t}
          /\ hangup' = hangup \cup {t}
    /\ UNCHANGED <<death, killOnClose, closing, nextTok, pending, inbox, tombs, tombOrder>>
    /\ UNCHANGED <<sendVars, gdbVars, queueVars>>

\* deadOnce.Do returns to every caller of markDead once the body is done.
MarkedDead == Dead /\ doomed = {}

\* Mutant of ReaderEnd: the loop goes on after the error.
ReaderRetries ==
    /\ reader = "mark"
    /\ MarkedDead
    /\ reader' = "read"
    /\ UNCHANGED <<hand, events, dispatching, intake, seen, sendVars, tableVars, gdbVars, deathVars>>

\* readLoop returns: the deferred close(c.events) ends the dispatcher.
ReaderEnd ==
    /\ reader = "mark"
    /\ MarkedDead
    /\ reader' = "ended"
    /\ UNCHANGED <<hand, events, dispatching, intake, seen, sendVars, tableVars, gdbVars, deathVars>>

\* doClose: the polite steps are skipped when gdb is already known dead.
CloseStart ==
    /\ closing = "open"
    /\ MaxCalls[Closer] >= 3
    /\ closing' = IF Dead THEN "stdin" ELSE "interrupt"
    /\ UNCHANGED <<death, doomed, killOnClose, sendVars, tableVars, gdbVars, queueVars>>

\* -exec-interrupt, kill and -gdb-exit, each bounded and each ignored if it fails.
CloseStep ==
    /\ \/ closing = "interrupt" /\ closing' = IF killOnClose THEN "kill" ELSE "exit"
       \/ closing = "kill" /\ closing' = "exit"
       \/ closing = "exit" /\ closing' = "stdin"
    /\ Begin(Closer)
    /\ UNCHANGED <<death, doomed, killOnClose, tableVars, gdbVars, queueVars>>

CloseStdin ==
    /\ closing = "stdin"
    /\ pc[Closer] = "idle"
    /\ stdinOpen' = FALSE
    /\ closing' = "wait"
    /\ UNCHANGED <<death, doomed, killOnClose, stdin, stdout, gdbUp, asyncs, executed>>
    /\ UNCHANGED <<sendVars, tableVars, queueVars>>

\* cmd.Wait returns.
CloseWait ==
    /\ closing = "wait"
    /\ ~gdbUp
    /\ closing' = "mark"
    /\ UNCHANGED <<death, doomed, killOnClose, sendVars, tableVars, gdbVars, queueVars>>

\* The shutdown timeout: SIGKILL to the process group.
KillGroup == closing = "wait" /\ GdbExit

CloseMarked ==
    /\ closing = "mark"
    /\ MarkedDead
    /\ closing' = "join"
    /\ UNCHANGED <<death, doomed, killOnClose, sendVars, tableVars, gdbVars, queueVars>>

\* wg.Wait: both loops have returned.
CloseJoin ==
    /\ closing = "join"
    /\ reader = "ended"
    /\ ~dispatching
    /\ closing' = "closed"
    /\ UNCHANGED <<death, doomed, killOnClose, sendVars, tableVars, gdbVars, queueVars>>

-----------------------------------------------------------------------------

Call(c) ==
    /\ c # Closer
    /\ Begin(c)
    /\ UNCHANGED <<tableVars, gdbVars, queueVars, deathVars>>

\* The steps of a call that need nobody else.
CallStep(c) ==
    \/ AcquireSem(c) \/ DeadAtSem(c) \/ CheckDead(c) \/ Register(c) \/ WriteLine(c)
    \/ TakeReply(c) \/ TakeHangup(c) \/ NoticeDead(c)

Deadline(c) == AbandonSem(c) \/ GiveUp(c)

Environment == GdbAnswer \/ GdbSpeaks \/ GdbExit

Reading == RouteToCaller \/ RouteToTombstone \/ RouteToEvents \/ Emit \/ ReadError \/ ReaderEnd

Dispatching == Dispatch \/ DispatchEnd

Dying == MarkDead \/ CloseDead \/ CloseChannel

Closing == CloseStep \/ CloseStdin \/ CloseWait \/ CloseMarked \/ CloseJoin

Next ==
    \/ \E c \in Callers : Call(c) \/ CallStep(c) \/ Deadline(c)
    \/ Environment \/ Reading \/ Dispatching \/ Drain \/ Dying
    \/ CloseStart \/ Closing \/ KillGroup

Spec == Init /\ [][Next]_vars

\* Goroutines keep running; the shutdown timer fires, and so do the deadlines
\* of Close's three commands.  Nothing obliges other deadlines to fire, gdb to
\* read, answer or die, or Close to be called.
Fairness ==
    /\ \A c \in Callers : WF_vars(CallStep(c))
    /\ WF_vars(Reading)
    /\ WF_vars(Dispatching)
    /\ WF_vars(Drain)
    /\ WF_vars(Dying)
    /\ WF_vars(Closing)
    /\ WF_vars(KillGroup)
    /\ WF_vars(Deadline(Closer))

\* A gdb that may stop reading at any moment and live.
WedgedSpec == Spec /\ Fairness

\* A gdb that reads and answers what it is sent, until it exits.
FairSpec == WedgedSpec /\ WF_vars(GdbAnswer)

-----------------------------------------------------------------------------
(* What the callers may rely on.                                           *)

\* How a call ended, without the reason of a failure.
Outcome == [c \in Callers |->
              IF answer[c].how \in {"none", "reply"} THEN answer[c].how ELSE "failed"]

Abstract == INSTANCE MICalls WITH
    active <- [c \in Callers |-> pc[c] # "idle"],
    outcome <- Outcome

\* The client with its tokens, semaphore, queues, tombstones and its death
\* implements plain remote calls: gdb executes a command at most once and a
\* caller's commands in the order they were issued, even those it gave up on,
\* and a call succeeds only after its own command was executed.
ImplementsCalls == Abstract!Spec

-----------------------------------------------------------------------------
(* Properties.                                                             *)

Outcomes == [how : {"none", "reply", "ctx", "dead", "write"}, by : Callers \cup {Gdb}, n : Nat]

SendTypes ==
    /\ pc \in [Callers -> {"idle", "sem", "check", "register", "write", "wait"}]
    /\ calls \in [Callers -> Nat]
    /\ tok \in [Callers -> Nat]
    /\ answer \in [Callers -> Outcomes]
    /\ sendSem \in Callers \cup {NoCaller}

TableTypes ==
    /\ nextTok \in Nat
    /\ pending \subseteq Nat
    /\ inbox \subseteq Records
    /\ hangup \subseteq Nat
    /\ tombs \subseteq Nat
    /\ tombOrder \in Seq(Nat)

GdbTypes ==
    /\ stdin \in Seq(Lines)
    /\ stdinOpen \in BOOLEAN
    /\ stdout \in Seq(Records)
    /\ gdbUp \in BOOLEAN
    /\ asyncs \in Nat
    /\ executed \in Seq(Commands)

QueueTypes ==
    /\ reader \in {"read", "emit", "mark", "ended"}
    /\ hand \in Seq(Records)
    /\ (reader = "emit") => Len(hand) = 1
    /\ events \in Seq(Records)
    /\ Len(events) <= QueueSize
    /\ dispatching \in BOOLEAN
    /\ intake \in Seq(Records)
    /\ seen \in Nat

DeathTypes ==
    /\ death \in {"alive", "swapped", "dead"}
    /\ doomed \subseteq Nat
    /\ killOnClose \in BOOLEAN
    /\ closing \in {"open", "interrupt", "kill", "exit", "stdin", "wait", "mark", "join", "closed"}

\* Every variable keeps its type; the event queue keeps its capacity (emit).
TypeOK == SendTypes /\ TableTypes /\ GdbTypes /\ QueueTypes /\ DeathTypes

\* A call that succeeds returns the answer to its own command, which gdb has
\* executed: no caller is handed another caller's reply, a reply to a command
\* it gave up on earlier, or a success nobody sent (send's select).
OwnReply ==
    \A c \in Callers :
        answer[c].how = "reply" =>
            /\ answer[c].by = c
            /\ answer[c].n = calls[c]
            /\ \E i \in 1..Len(executed) : executed[i] = [by |-> c, n |-> calls[c]]

\* Records gdb wrote of its own accord reach the actor in the order they were
\* written and none is skipped, whatever the callers are doing (emit blocks
\* instead of dropping, and there is one dispatcher).
InOrder == [][seen' # seen => seen' = seen + 1]_vars

\* When both loops have ended after a crash, everything gdb said before it
\* went has been handed to the actor.
NothingLost ==
    (closing = "open" /\ ~dispatching /\ intake = <<>>) => seen = asyncs

\* A call returns: gdb answers it or the death of gdb ends it, although the
\* actor drains nothing while it waits, and the event queue and both pipes are
\* bounded.
CallsEnd == \A c \in Callers : (pc[c] # "idle") ~> (pc[c] = "idle")

\* Close is writing one of its commands and cannot.
CloseHeld == pc[Closer] = "write" /\ PipeFull

\* Close returns, whether gdb obeys, ignores it, never reads again or is gone
\* already, with the one exception that doClose leaves it: the writes of its
\* commands have no deadline and come before the end of stdin and the kill, so
\* that a gdb that lives and leaves its stdin full holds Close for ever.
CloseEnds == []<>~CloseHeld => ((closing # "open") ~> (closing = "closed"))
=============================================================================
