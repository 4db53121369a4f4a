------------------------------- MODULE Bridge --------------------------------
(***************************************************************************)
(* The MCP bridge (internal/mcp): an agent's tools over the WebSocket of a *)
(* running gdb-wui, among them those that answer with the program's next   *)
(* stop.                                                                   *)
(*                                                                         *)
(* Processes: serve, which runs one tool at a time; the reader of the      *)
(* socket; the deadlines.  The server is what Session and Hub promise: it  *)
(* answers requests, sends an event for every stop, exit and resume, and   *)
(* sends both in order, while a person at a browser drives the same        *)
(* program.  A bridge begins connected and greeted.                        *)
(***************************************************************************)
EXTENDS Naturals, Sequences

CONSTANTS
    WatchCap,     \* events a watcher's channel holds
    WireCap,      \* bound: what may be on its way to the bridge
    Settings      \* bounds: the tools the agent calls, how many times, how often
                  \* the program resumes, the other events and changes of the
                  \* decompiler, whether the connection breaks

ASSUME BoundsAssumption ==
    /\ {WatchCap, WireCap} \subseteq Nat \ {0}
    /\ \A s \in Settings : {s.tools, s.resumes, s.chatter} \subseteq Nat

VARIABLES
    program,    \* the server's run state and stop counter
    decomp,     \* the server's decompiler
    asked,      \* the request the server has not answered
    wire,       \* what it has sent and the bridge has not read
    up,         \* the connection
    cache,      \* session.state, session.stopSeq
    inbox,      \* the reply, in the channel of the call that waits for it
    hand,       \* the event the reader is delivering, and whether to the watcher
    watching,   \* the tool has subscribed
    channel,    \* and not yet taken these events
    dropped,    \* one did not fit
    dead,       \* the reader has ended
    tool,       \* the tool being served
    pc,         \* and where it is
    told,       \* the stop known when it began
    answer,     \* what the last tool answered
    runAllowed, \* -mcp-run
    count,      \* tools, resumes and chatter so far
    setting     \* the setting of this behaviour

server == <<program, decomp>>
reader == <<cache, inbox, hand, dead>>
watcher == <<watching, channel, dropped>>
serving == <<tool, pc, told, answer>>
given == <<runAllowed, setting>>
vars == <<server, asked, wire, up, reader, watcher, serving, given, count>>

\* run, continue, step and finish are one; so are the tools that only read.
Kinds == {"exec", "pause", "wait", "decomp", "pass"}
RunTools == {"exec", "pause"}

Event(kind, seq) == [event |-> TRUE, kind |-> kind, seq |-> seq, ok |-> TRUE, state |-> ""]
Reply(ok, state) == [event |-> FALSE, kind |-> "", seq |-> 0, ok |-> ok, state |-> state]

-----------------------------------------------------------------------------
(* The server.                                                             *)

\* Nothing is sent on a connection that is gone.
Sends(msgs) ==
    /\ Len(wire) + Len(msgs) <= WireCap
    /\ wire' = IF up THEN wire \o msgs ELSE wire

Counted(what) == count' = [count EXCEPT ![what] = @ + 1]

\* A deferred start and the steps of a walk hide their stops (Session).
Stops ==
    /\ program.state = "running"
    /\ \E end \in {"stopped", "exited"} :
          /\ program' = [state |-> end, seq |-> IF end = "stopped" THEN program.seq + 1
                                                                   ELSE program.seq]
          /\ Sends(<<Event(end, program'.seq)>>)
    /\ UNCHANGED <<decomp, asked, up, reader, watcher, serving, given, count>>

\* A person resumes it.
Resumes ==
    /\ program.state # "running"
    /\ count.resumes < setting.resumes
    /\ Counted("resumes")
    /\ program' = [program EXCEPT !.state = "running"]
    /\ Sends(<<Event("running", 0)>>)
    /\ UNCHANGED <<decomp, asked, up, reader, watcher, serving, given>>

\* Another program is loaded, or gdb dies and is started again.
Unloads ==
    /\ program.state # "noProgram"
    /\ \/ program.state # "running" /\ Sends(<<Event("exeLoaded", 0)>>)
       \/ Sends(<<Event("gdbDead", 0)>>)
    /\ program' = [program EXCEPT !.state = "noProgram"]
    /\ UNCHANGED <<decomp, asked, up, reader, watcher, serving, given, count>>

\* Output, and a decompiler that comes or goes.
Chatters ==
    /\ count.chatter < setting.chatter
    /\ Counted("chatter")
    /\ \/ Sends(<<Event("console", 0)>>) /\ UNCHANGED decomp
       \/ /\ \E state \in {"starting", "ready", "failed"} \ {decomp} : decomp' = state
          /\ Sends(<<Event("decompChanged", 0)>>)
    /\ UNCHANGED <<program, asked, up, reader, watcher, serving, given>>

\* The actor: a resume is refused, or sent, and then answered or too late to
\* be.  The status of the decompiler starts it.  A pause is acknowledged
\* whether anything runs or not.
Answers ==
    /\ asked # "none"
    /\ asked' = "none"
    /\ \/ /\ asked = "exec" /\ program.state # "running"
          /\ count.resumes < setting.resumes
          /\ Counted("resumes")
          /\ program' = [program EXCEPT !.state = "running"]
          /\ \E ok \in BOOLEAN : Sends(<<Event("running", 0), Reply(ok, "")>>)
          /\ UNCHANGED decomp
       \/ /\ asked = "exec"
          /\ Sends(<<Reply(FALSE, "")>>)
          /\ UNCHANGED <<program, decomp, count>>
       \/ /\ asked \in {"pause", "pass"}
          /\ Sends(<<Reply(TRUE, "")>>)
          /\ UNCHANGED <<program, decomp, count>>
       \/ /\ asked = "decomp"
          /\ decomp' = IF decomp = "off" THEN "starting" ELSE decomp
          /\ Sends(<<Reply(TRUE, decomp')>>)
          /\ UNCHANGED <<program, count>>
    /\ UNCHANGED <<up, reader, watcher, serving, given>>

Disconnects ==
    /\ up /\ setting.breaks
    /\ up' = FALSE
    /\ asked' = "none"
    /\ UNCHANGED <<server, wire, reader, watcher, serving, given, count>>

-----------------------------------------------------------------------------
(* The reader.                                                             *)

\* The cached state under the lock, from four kinds of event.
CacheOf(ev) ==
    [state |-> IF ev.kind \in {"stopped", "running", "exited"} THEN ev.kind ELSE cache.state,
     seq |-> IF ev.seq > cache.seq THEN ev.seq ELSE cache.seq]

DeliverUncached(ev) ==
    /\ cache' = [cache EXCEPT !.seq = CacheOf(ev).seq]
    /\ hand' = <<[ev |-> ev, to |-> watching]>>

\* deliver: the cache and a copy of the watchers, under the lock.
Deliver(ev) ==
    /\ cache' = CacheOf(ev)
    /\ hand' = <<[ev |-> ev, to |-> watching]>>

Read ==
    /\ ~dead /\ hand = <<>> /\ wire # <<>>
    /\ wire' = Tail(wire)
    /\ \/ /\ Head(wire).event
          /\ Deliver(Head(wire))
          /\ UNCHANGED inbox
       \/ /\ ~Head(wire).event
          /\ inbox' = <<Head(wire)>>
          /\ UNCHANGED <<cache, hand>>
    /\ UNCHANGED <<server, asked, up, dead, watcher, serving, given, count>>

PushTo(to) ==
    LET fits == Len(channel) < WatchCap
    IN /\ hand' = <<>>
       /\ channel' = IF to /\ fits THEN Append(channel, hand[1].ev) ELSE channel
       /\ dropped' = (dropped \/ (to /\ ~fits))

PushToAll ==
    /\ hand # <<>>
    /\ PushTo(watching)
    /\ UNCHANGED <<server, asked, wire, up, cache, inbox, dead, watching, serving, given, count>>

\* Then each watcher that was copied, unless its channel is full.
Push ==
    /\ hand # <<>>
    /\ PushTo(hand[1].to)
    /\ UNCHANGED <<server, asked, wire, up, cache, inbox, dead, watching, serving, given, count>>

ReadFailsQuietly ==
    /\ ~up /\ hand = <<>> /\ ~dead
    /\ UNCHANGED vars

\* What was still on its way may be lost; every call is hung up on.
ReadFails ==
    /\ ~up /\ hand = <<>> /\ ~dead
    /\ dead' = TRUE
    /\ wire' = <<>>
    /\ UNCHANGED <<server, asked, up, cache, inbox, hand, watcher, serving, given, count>>

-----------------------------------------------------------------------------
(* The tools.                                                              *)

Nothing == [how |-> "", seq |-> 0]

\* The subscription ends, and its channel with it.
Answer(how, seq) ==
    /\ answer' = [how |-> how, seq |-> seq]
    /\ pc' = "answered"
    /\ watching' = FALSE
    /\ channel' = <<>>
    /\ dropped' = FALSE
    /\ hand' = [i \in DOMAIN hand |-> [hand[i] EXCEPT !.to = FALSE]]
    /\ UNCHANGED <<tool, told>>

Goes(to) ==
    /\ pc' = to
    /\ UNCHANGED <<tool, told, answer, watching, channel, dropped, hand>>

\* callTool: a tool the flags do not permit is refused although it is asked for.
CallTool(kind) ==
    /\ pc = "idle"
    /\ kind \in setting.kinds
    /\ count.tools < setting.tools
    /\ Counted("tools")
    /\ tool' = kind
    /\ told' = cache.seq
    /\ IF kind \in RunTools /\ ~runAllowed
       THEN answer' = [Nothing EXCEPT !.how = "refused"] /\ pc' = "answered"
       ELSE pc' = (IF kind = "pass" THEN "call" ELSE "watch") /\ UNCHANGED answer
    /\ UNCHANGED <<server, asked, wire, up, reader, watcher, given>>

\* A new channel, which no delivery under way knows.
Watch ==
    /\ pc = "watch"
    /\ watching' = TRUE
    /\ pc' = IF tool = "wait" THEN "look" ELSE "call"
    /\ UNCHANGED <<server, asked, wire, up, reader, channel, dropped, tool, told, answer, given, count>>

\* waitForStop, after subscribing.
Look ==
    /\ pc = "look"
    /\ IF cache.state \in {"stopped", "exited"} THEN Answer(cache.state, cache.seq) ELSE Goes("waiting")
    /\ UNCHANGED <<server, asked, wire, up, cache, inbox, dead, given, count>>

\* call: a write may go into a connection that is gone already.
Call ==
    /\ pc = "call"
    /\ inbox' = <<>>
    /\ \/ ~up /\ Answer("gone", 0) /\ UNCHANGED asked
       \/ ~dead /\ Goes("replying") /\ asked' = IF up THEN tool ELSE "none"
    /\ UNCHANGED <<server, wire, up, cache, dead, given, count>>

Replied ==
    /\ pc = "replying"
    /\ \/ /\ inbox # <<>>
          /\ \/ ~inbox[1].ok /\ Answer("error", 0)
             \/ inbox[1].ok /\ tool = "pass" /\ Answer("passed", 0)
             \/ inbox[1].ok /\ inbox[1].state \in {"ready", "failed"} /\ Answer("status", 0)
             \/ /\ inbox[1].ok /\ tool # "pass" /\ inbox[1].state \notin {"ready", "failed"}
                /\ Goes("waiting")
       \/ dead /\ Answer("gone", 0)
    /\ UNCHANGED <<server, asked, wire, up, cache, inbox, dead, given, count>>

\* The next event is taken, and the tool waits on, or asks again.
Drops(to) ==
    /\ channel' = Tail(channel)
    /\ pc' = to
    /\ UNCHANGED <<hand, dropped, watching, tool, told, answer>>

Taking(kinds) ==
    /\ pc = "waiting" /\ channel # <<>> /\ tool \in kinds
    /\ UNCHANGED <<server, asked, wire, up, cache, inbox, dead, given, count>>

\* runToStop: a stop, an exit or the end of gdb.
TakeRun ==
    /\ Taking(RunTools)
    /\ LET ev == Head(channel)
       IN \/ ev.kind \in {"stopped", "exited"} /\ Answer(ev.kind, ev.seq)
          \/ ev.kind = "gdbDead" /\ Answer("error", 0)
          \/ ev.kind \notin {"stopped", "exited", "gdbDead"} /\ Drops("waiting")

\* waitForStop: a stop or an exit; the end of gdb is nothing to it.
TakeWait ==
    /\ Taking({"wait"})
    /\ LET ev == Head(channel)
       IN \/ ev.kind \in {"stopped", "exited"} /\ Answer(ev.kind, ev.seq)
          \/ ev.kind \notin {"stopped", "exited"} /\ Drops("waiting")

\* waitForDecompiler: a change, after which the status is asked for again.
TakeDecomp ==
    /\ Taking({"decomp"})
    /\ Drops(IF Head(channel).kind = "decompChanged" THEN "call" ELSE "waiting")

Deadline ==
    /\ pc = "waiting"
    /\ Answer(IF tool = "decomp" THEN "status" ELSE "running", 0)
    /\ UNCHANGED <<server, asked, wire, up, cache, inbox, dead, given, count>>

Gone ==
    /\ pc = "waiting" /\ dead
    /\ Answer("gone", 0)
    /\ UNCHANGED <<server, asked, wire, up, cache, inbox, dead, given, count>>

\* The reply is written for the agent.
Write ==
    /\ pc = "answered"
    /\ pc' = "idle"
    /\ answer' = Nothing /\ told' = 0 /\ tool' = "pass"
    /\ inbox' = <<>>
    /\ UNCHANGED <<server, asked, wire, up, cache, hand, dead, watcher, given, count>>

-----------------------------------------------------------------------------
Init ==
    /\ program \in [state : {"noProgram", "stopped"}, seq : {0}]
    /\ decomp = "off"
    /\ asked = "none"
    /\ wire = <<>>
    /\ up = TRUE
    /\ cache = program
    /\ inbox = <<>>
    /\ hand = <<>>
    /\ watching = FALSE
    /\ channel = <<>>
    /\ dropped = FALSE
    /\ dead = FALSE
    /\ tool = "pass"
    /\ pc = "idle"
    /\ told = 0
    /\ answer = Nothing
    /\ runAllowed \in BOOLEAN
    /\ count = [tools |-> 0, resumes |-> 0, chatter |-> 0]
    /\ setting \in Settings

Steps == Watch \/ Look \/ Call \/ Replied \/ TakeRun \/ TakeWait \/ TakeDecomp \/ Gone \/ Write

Next ==
    \/ Stops \/ Resumes \/ Unloads \/ Chatters \/ Answers \/ Disconnects
    \/ Read \/ Push \/ ReadFails
    \/ \E kind \in Kinds : CallTool(kind)
    \/ Steps \/ Deadline

Spec == Init /\ [][Next]_vars

\* The server answers, the reader and the tool run, timers fire.  Nobody need
\* call a tool, stop or resume the program, or break the connection.
FairSpec ==
    Spec /\ WF_vars(Answers) /\ WF_vars(Read \/ Push) /\ WF_vars(ReadFails)
         /\ WF_vars(Steps) /\ WF_vars(Deadline)

-----------------------------------------------------------------------------
(* Properties.                                                             *)

\* Everything the server said has reached the tool.
Heard == up /\ wire = <<>> /\ hand = <<>> /\ channel = <<>> /\ ~dropped

\* No tool waits for what has happened: once it has heard everything, a tool
\* that waits for a stop waits for a program that is not stopped, and one that
\* waits for the decompiler for one that is still starting, whoever resumed
\* the program and whenever it stopped (the subscription comes first, and
\* deliver sets the state before it copies the watchers).  A pause of a
\* program that is not running waits for nothing.
NothingOverlooked ==
    pc = "waiting" /\ Heard =>
        /\ tool \in {"exec", "wait"} => program.state \notin {"stopped", "exited"}
        /\ tool = "decomp" => decomp = "starting"

\* A tool that runs the program never answers with a stop the agent had been
\* told of before it asked.
NewerStop ==
    [][ answer' # answer /\ answer'.how = "stopped" /\ tool \in RunTools
        => answer'.seq > told ]_vars

\* Every tool answers, at its deadline at the latest, while the server answers
\* requests or the connection breaks (call itself has no deadline).
ToolsEnd == (pc # "idle") ~> (pc = "idle")
==============================================================================
