--------------------------------- MODULE Hub ---------------------------------
(***************************************************************************)
(* The event hub of internal/hub/hub.go: connections of browsers, each     *)
(* with a bounded queue drained by its writePump, events broadcast to all  *)
(* of them by several goroutines, the hello a new connection is given, and *)
(* the readPump that hands one request after the other to the session.     *)
(*                                                                         *)
(* The session is the number of the state the actor published last; an     *)
(* event of the actor carries the number it brings a browser to, an event  *)
(* of another goroutine (terminal output, gdb's death) carries none.       *)
(***************************************************************************)
EXTENDS Naturals, Sequences, FiniteSets

CONSTANTS
    Conns,       \* connections
    Actor,       \* the session actor, which publishes before it broadcasts
    Pumps,       \* goroutines that broadcast without publishing
    Main,        \* the goroutine that calls Shutdown
    QueueSize,   \* outboundBuffer
    MaxEvents,   \* bound: states the actor publishes
    MaxOutput,   \* bound: broadcasts of the pumps together
    MaxSeq,      \* bound: connections are accepted while seq is below it
    MaxAsked,    \* bound: unread requests on a socket
    ShutsDown    \* whether the server is shut down in this run

Producers == {Actor, Main} \cup Pumps

ASSUME GoroutinesAssumption == Actor \notin Pumps /\ Main \notin Pumps \cup {Actor}

ASSUME BoundsAssumption ==
    /\ QueueSize \in Nat \ {0}
    /\ MaxEvents \in Nat
    /\ MaxOutput \in Nat
    /\ MaxSeq \in Nat
    /\ MaxAsked \in Nat
    /\ ShutsDown \in BOOLEAN

VARIABLES
    version,   \* number of the state in Session.snapshot
    seq,       \* Hub.seq
    outputs,   \* broadcasts the pumps have made
    cast,      \* what each producer is doing in Broadcast
    closed,    \* Hub.closed
    phase,     \* where each connection is between Accept and remove
    hello,     \* the hello event serve holds before it is queued
    out,       \* conn.out
    dropped,   \* conn.dropped
    joined,    \* the version when the connection was added
    tab,       \* what the browser at the other end has been sent
    inbox,     \* requests on the socket, not read
    waiting    \* connections whose readPump waits in Session.Handle

producing == <<version, seq, outputs, cast, closed>>
sending == <<out, dropped>>
serving == <<phase, hello, joined>>
reading == <<inbox, waiting>>
vars == <<producing, serving, sending, tab, reading>>

Message(kind, v) == [kind |-> kind, version |-> v]
NoMessage == Message("none", 0)

Idle == [stage |-> "idle", msg |-> NoMessage, todo |-> {}]

\* A browser: the state it shows, and the newest state an event brought it to.
NewTab == [view |-> 0, event |-> 0]

\* In h.conns.
Registered == {c \in Conns : phase[c] \in {"added", "greeting", "open"}}

Init ==
    /\ version = 0
    /\ seq = 0
    /\ outputs = 0
    /\ cast = [p \in Producers |-> Idle]
    /\ closed = FALSE
    /\ phase = [c \in Conns |-> "off"]
    /\ hello = [c \in Conns |-> NoMessage]
    /\ out = [c \in Conns |-> <<>>]
    /\ dropped = [c \in Conns |-> FALSE]
    /\ joined = [c \in Conns |-> 0]
    /\ tab = [c \in Conns |-> NewTab]
    /\ inbox = [c \in Conns |-> <<>>]
    /\ waiting = {}

-----------------------------------------------------------------------------
(* Queueing a message for one connection.                                  *)

SendToBlocking(c, msg) ==
    /\ Len(out[c]) < QueueSize
    /\ out' = [out EXCEPT ![c] = Append(@, msg)]
    /\ UNCHANGED dropped

SendToSilently(c, msg) ==
    /\ out' = IF Len(out[c]) < QueueSize THEN [out EXCEPT ![c] = Append(@, msg)] ELSE out
    /\ UNCHANGED dropped

\* A full queue costs the connection, not the broadcast.
SendTo(c, msg) ==
    IF Len(out[c]) < QueueSize
    THEN /\ out' = [out EXCEPT ![c] = Append(@, msg)]
         /\ UNCHANGED dropped
    ELSE /\ dropped' = [dropped EXCEPT ![c] = TRUE]
         /\ UNCHANGED out

-----------------------------------------------------------------------------
(* Broadcast.                                                              *)

\* emit: the snapshot first, then the event.
Publish ==
    /\ cast[Actor].stage = "idle"
    /\ version < MaxEvents
    /\ version' = version + 1
    /\ cast' = [cast EXCEPT ![Actor].stage = "called"]
    /\ UNCHANGED <<seq, outputs, closed, serving, sending, tab, reading>>

\* emitOffActor.
Output(p) ==
    /\ cast[p].stage = "idle"
    /\ outputs < MaxOutput
    /\ outputs' = outputs + 1
    /\ cast' = [cast EXCEPT ![p].stage = "called"]
    /\ UNCHANGED <<version, seq, closed, serving, sending, tab, reading>>

Shutdown ==
    /\ ShutsDown /\ ~closed
    /\ closed' = TRUE
    /\ cast' = [cast EXCEPT ![Main].stage = "called"]
    /\ UNCHANGED <<version, seq, outputs, serving, sending, tab, reading>>

\* The message gets its number before it is queued anywhere.
Number(p) ==
    /\ cast[p].stage = "called"
    /\ seq' = seq + 1
    /\ cast' = [cast EXCEPT
                   ![p].stage = "numbered",
                   ![p].msg = IF p = Actor THEN Message("state", version)
                                           ELSE Message("output", 0)]
    /\ UNCHANGED <<version, outputs, closed, serving, sending, tab, reading>>

CopyConns(p) ==
    /\ cast[p].stage = "numbered"
    /\ cast' = [cast EXCEPT ![p].stage = "sending", ![p].todo = Registered]
    /\ UNCHANGED <<version, seq, outputs, closed, serving, sending, tab, reading>>

SendOne(p, c) ==
    /\ cast[p].stage = "sending"
    /\ c \in cast[p].todo
    /\ SendTo(c, cast[p].msg)
    /\ cast' = [cast EXCEPT ![p].todo = @ \ {c}]
    /\ UNCHANGED <<version, seq, outputs, closed, serving, tab, reading>>

\* Shutdown goes on to copy the connections once more; the others return.
BroadcastReturns(p) ==
    /\ cast[p].stage = "sending"
    /\ cast[p].todo = {}
    /\ cast' = [cast EXCEPT ![p] = IF p = Main
                                   THEN [Idle EXCEPT !.stage = "closing", !.todo = Registered]
                                   ELSE Idle]
    /\ UNCHANGED <<version, seq, outputs, closed, serving, sending, tab, reading>>

-----------------------------------------------------------------------------
(* Connections.                                                            *)

\* Handler: the check of closed, then the websocket handshake.
Accept(c) ==
    /\ phase[c] = "off"
    /\ ~closed
    /\ seq < MaxSeq
    /\ phase' = [phase EXCEPT ![c] = "accepted"]
    /\ UNCHANGED <<producing, hello, joined, sending, tab, reading>>

Add(c) ==
    /\ phase[c] = "accepted"
    /\ phase' = [phase EXCEPT ![c] = "added"]
    /\ joined' = [joined EXCEPT ![c] = version]
    /\ UNCHANGED <<producing, hello, sending, tab, reading>>

\* The snapshot is taken while events already go to the connection.
HelloEvent(c) ==
    /\ phase[c] = "added"
    /\ seq' = seq + 1
    /\ hello' = [hello EXCEPT ![c] = Message("hello", version)]
    /\ phase' = [phase EXCEPT ![c] = "greeting"]
    /\ UNCHANGED <<version, outputs, cast, closed, joined, sending, tab, reading>>

SendHello(c) ==
    /\ phase[c] = "greeting"
    /\ SendTo(c, hello[c])
    /\ phase' = [phase EXCEPT ![c] = "open"]
    /\ UNCHANGED <<producing, hello, joined, tab, reading>>

\* What a message does to the browser that gets it.
Applied(t, msg) ==
    [t EXCEPT !.view = IF msg.kind \in {"hello", "state"} THEN msg.version ELSE @,
              !.event = IF msg.kind = "state" THEN msg.version ELSE @]

WritePump(c) ==
    /\ c \in Registered
    /\ out[c] # <<>>
    /\ tab' = [tab EXCEPT ![c] = Applied(@, Head(out[c]))]
    /\ out' = [out EXCEPT ![c] = Tail(@)]
    /\ UNCHANGED <<producing, serving, dropped, reading>>

\* serve returns and the connection is removed; what a broadcast still sends it
\* is read by nobody.  The next Accept is of another connection.
Remove(c) ==
    /\ phase' = [phase EXCEPT ![c] = "off"]
    /\ cast' = [p \in Producers |-> [cast[p] EXCEPT !.todo = @ \ {c}]]
    /\ out' = [out EXCEPT ![c] = <<>>]
    /\ dropped' = [dropped EXCEPT ![c] = FALSE]
    /\ tab' = [tab EXCEPT ![c] = NewTab]
    /\ joined' = [joined EXCEPT ![c] = 0]
    /\ hello' = [hello EXCEPT ![c] = NoMessage]
    /\ inbox' = [inbox EXCEPT ![c] = <<>>]
    /\ waiting' = waiting \ {c}
    /\ UNCHANGED <<version, seq, outputs, closed>>

\* The close sendTo started, or the browser going away.
Leave(c) ==
    /\ phase[c] = "open"
    /\ Remove(c)

\* Shutdown closes the connections of its second copy.
CloseOne(c) ==
    /\ cast[Main].stage = "closing"
    /\ c \in cast[Main].todo
    /\ Remove(c)

-----------------------------------------------------------------------------
(* Requests.                                                               *)

Asks(c, what) ==
    /\ phase[c] = "open"
    /\ Len(inbox[c]) < MaxAsked
    /\ inbox' = [inbox EXCEPT ![c] = Append(@, what)]
    /\ UNCHANGED <<producing, serving, sending, tab, waiting>>

\* readPump reads the next request only when it has answered the last one.
\* exec.pause is answered without the actor.
ReadPump(c) ==
    /\ phase[c] = "open"
    /\ c \notin waiting
    /\ inbox[c] # <<>>
    /\ inbox' = [inbox EXCEPT ![c] = Tail(@)]
    /\ IF Head(inbox[c]) = "pause"
       THEN SendTo(c, Message("reply", 0)) /\ UNCHANGED waiting
       ELSE waiting' = waiting \cup {c} /\ UNCHANGED sending
    /\ UNCHANGED <<producing, serving, tab>>

ActorReplies(c) ==
    /\ c \in waiting
    /\ waiting' = waiting \ {c}
    /\ SendTo(c, Message("reply", 0))
    /\ UNCHANGED <<producing, serving, tab, inbox>>

Next ==
    \/ Publish
    \/ \E p \in Pumps : Output(p)
    \/ Shutdown
    \/ \E p \in Producers :
          \/ Number(p)
          \/ CopyConns(p)
          \/ \E c \in Conns : SendOne(p, c)
          \/ BroadcastReturns(p)
    \/ \E c \in Conns :
          \/ Accept(c)
          \/ Add(c)
          \/ HelloEvent(c)
          \/ SendHello(c)
          \/ WritePump(c)
          \/ Leave(c)
          \/ CloseOne(c)
          \/ \E what \in {"pause", "other"} : Asks(c, what)
          \/ ReadPump(c)
          \/ ActorReplies(c)

Spec == Init /\ [][Next]_vars

\* Goroutines of the hub run.  Browsers need not read, nor the actor answer.
Broadcasting(p) ==
    Number(p) \/ CopyConns(p) \/ (\E c \in Conns : SendOne(p, c)) \/ BroadcastReturns(p)

FairSpec ==
    /\ Spec
    /\ \A p \in Producers : WF_vars(Broadcasting(p))
    /\ \A c \in Conns : WF_vars(ReadPump(c))

-----------------------------------------------------------------------------
(* Properties.                                                             *)

\* Nothing is being broadcast and everything queued for c has reached it.
Quiet(c) ==
    /\ \A p \in Producers : cast[p].stage = "idle"
    /\ phase[c] = "open"
    /\ out[c] = <<>>

\* A connection that is not about to be closed for being slow has been sent the
\* newest state the actor published since it was added, whatever was queued,
\* added or removed meanwhile.
EveryEventArrives ==
    \A c \in Conns :
        Quiet(c) /\ ~dropped[c] => joined[c] = version \/ tab[c].event = version

\* Whoever broadcasts gets to the end of it, and so on with what it was doing,
\* although no browser reads and the actor answers no request (sendTo drops a
\* slow client instead of waiting for it).
BroadcastEnds ==
    \A p \in {Actor} \cup Pumps : (cast[p].stage # "idle") ~> (cast[p].stage = "idle")
=============================================================================
