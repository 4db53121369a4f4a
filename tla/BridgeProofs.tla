----------------------------- MODULE BridgeProofs -----------------------------
(***************************************************************************)
(* Theorems about the MCP bridge for any tools in any order, any person at *)
(* the browser and any capacity of a watcher's channel; and, in the last   *)
(* part, about the links by which a bridge gets in, for any joiners, any   *)
(* servers one after the other on the address and any number of links.     *)
(***************************************************************************)
EXTENDS Bridge, Login, SequenceTheorems, TLAPS

-----------------------------------------------------------------------------
(* The invariant.                                                          *)

Ends == {"stopped", "exited"}
EventKinds == {"stopped", "exited", "running", "exeLoaded", "gdbDead", "console", "decompChanged"}
RunStates == [state : {"noProgram", "running", "stopped", "exited"}, seq : Nat]
Statuses == {"off", "starting", "ready", "failed"}
Msgs == [event : BOOLEAN, kind : EventKinds \cup {""}, seq : Nat, ok : BOOLEAN, state : Statuses \cup {""}]
Outcomes == [how : Ends \cup {"", "running", "refused", "error", "passed", "status", "gone"}, seq : Nat]

ServerTypes ==
    /\ program \in RunStates
    /\ decomp \in Statuses
    /\ asked \in Kinds \cup {"none"}
    /\ wire \in Seq(Msgs)
    /\ up \in BOOLEAN

ReaderTypes ==
    /\ cache \in RunStates
    /\ inbox \in Seq(Msgs) /\ Len(inbox) <= 1
    /\ hand \in Seq([ev : Msgs, to : BOOLEAN]) /\ Len(hand) <= 1
    /\ channel \in Seq(Msgs) /\ Len(channel) <= WatchCap
    /\ watching \in BOOLEAN /\ dropped \in BOOLEAN /\ dead \in BOOLEAN

ToolTypes ==
    /\ tool \in Kinds
    /\ pc \in {"idle", "watch", "look", "call", "replying", "waiting", "answered"}
    /\ told \in Nat
    /\ answer \in Outcomes

BridgeTypes == ServerTypes /\ ReaderTypes /\ ToolTypes

\* Where a tool is tells whether it has subscribed, and nothing is kept for one
\* that has not.
Subscribed ==
    /\ watching = (pc \in {"look", "waiting"} \/ (pc \in {"call", "replying"} /\ tool # "pass"))
    /\ pc = "look" => tool = "wait"
    /\ pc = "waiting" => tool # "pass"
    /\ pc = "watch" => tool # "pass"
    /\ ~watching => channel = <<>> /\ \A i \in 1..Len(hand) : ~hand[i].to

\* The stops still to be read are newer than the cache and than one another;
\* those kept for the tool are newer than the one it was told of.
StopsAscend ==
    /\ cache.seq <= program.seq /\ told <= cache.seq
    /\ \A i \in 1..Len(wire) : wire[i].seq <= program.seq
    /\ \A i \in 1..Len(wire) : wire[i].kind = "stopped" => wire[i].seq > cache.seq
    /\ \A i, j \in 1..Len(wire) : i < j /\ wire[j].kind = "stopped" => wire[i].seq < wire[j].seq
    /\ \A i \in 1..Len(hand) : hand[i].to /\ hand[i].ev.kind = "stopped" => hand[i].ev.seq > told
    /\ \A i \in 1..Len(channel) : channel[i].kind = "stopped" => channel[i].seq > told

\* The cache is what the program was, and what is on the wire tells the rest.
CacheFollows ==
    program.state \in Ends /\ up =>
        \/ /\ cache.state \in Ends
           /\ \A i \in 1..Len(wire) : wire[i].kind # "running"
        \/ \E i \in 1..Len(wire) :
              /\ wire[i].kind \in Ends
              /\ \A j \in 1..Len(wire) : j > i => wire[j].kind # "running"

\* The server answers the call that waits, once.
OneReply ==
    /\ dead => ~up /\ wire = <<>>
    /\ asked # "none" =>
          /\ pc = "replying" /\ asked = tool /\ up /\ inbox = <<>>
          /\ \A i \in 1..Len(wire) : wire[i].event
    /\ \A i \in 1..Len(wire) : ~wire[i].event => pc = "replying" /\ inbox = <<>> /\ wire[i].kind = ""
    /\ \A i, j \in 1..Len(wire) : ~wire[i].event /\ ~wire[j].event => i = j
    /\ \A i \in 1..Len(inbox) : ~inbox[i].event

\* What the tool waits for has happened.
Due ==
    \/ tool \in {"exec", "wait"} /\ program.state \in Ends
    \/ tool = "decomp" /\ decomp # "starting"

\* An event that ends the wait.
Awaited(ev) ==
    \/ tool \in {"exec", "wait"} /\ ev.kind \in Ends
    \/ tool = "decomp" /\ ev.kind = "decompChanged"

\* One is on its way, or cannot come any more.
Coming ==
    \/ ~up
    \/ dropped
    \/ \E i \in 1..Len(channel) : Awaited(channel[i])
    \/ \E i \in 1..Len(hand) : hand[i].to /\ Awaited(hand[i].ev)
    \/ \E i \in 1..Len(wire) : Awaited(wire[i])

\* A reply after which the tool waits.
LetsWait(r) == ~r.event /\ r.ok /\ r.state \notin {"ready", "failed"} /\ tool # "pass"

\* No tool waits for what has happened and will not be heard of.
NoneOverlooked ==
    /\ pc = "waiting" /\ Due => Coming
    /\ pc = "replying" /\ (\E i \in 1..Len(inbox) : LetsWait(inbox[i])) /\ Due => Coming
    /\ \A i \in 1..Len(wire) : LetsWait(wire[i]) /\ Due /\ up =>
          \E j \in 1..Len(wire) : j > i /\ Awaited(wire[j])

BridgeInv ==
    BridgeTypes /\ Subscribed /\ StopsAscend /\ CacheFollows /\ OneReply /\ NoneOverlooked

-----------------------------------------------------------------------------
(* What the operators of the model do.                                     *)

\* Events are what their name says.
LEMMA EventTypes ==
  ASSUME NEW kind \in EventKinds, NEW seq \in Nat
  PROVE  /\ Event(kind, seq) \in Msgs
         /\ Event(kind, seq).event = TRUE
         /\ Event(kind, seq).kind = kind
         /\ Event(kind, seq).seq = seq
  BY DEF Event, Msgs

\* And so are replies.
LEMMA ReplyTypes ==
  ASSUME NEW ok \in BOOLEAN, NEW state \in Statuses \cup {""}
  PROVE  /\ Reply(ok, state) \in Msgs
         /\ Reply(ok, state).event = FALSE
         /\ Reply(ok, state).kind = ""
         /\ Reply(ok, state).seq = 0
         /\ Reply(ok, state).ok = ok
         /\ Reply(ok, state).state = state
  BY DEF Reply, Msgs

\* One message on its own.
LEMMA OneMessage ==
  /\ \A m \in Msgs : <<m>> \in Seq(Msgs) /\ Len(<<m>>) = 1 /\ <<m>>[1] = m
  /\ \A m, n \in Msgs : <<m, n>> \in Seq(Msgs)
  /\ \A i \in 1..1 : i = 1
  <1>1. ASSUME NEW m \in Msgs PROVE <<m>> \in Seq(Msgs) /\ Len(<<m>>) = 1 /\ <<m>>[1] = m
    OBVIOUS
  <1> QED
    BY <1>1

\* What is on its way are messages.
LEMMA MessageFields ==
  ASSUME NEW s \in Seq(Msgs)
  PROVE  \A i \in 1..Len(s) : s[i] \in Msgs /\ s[i].seq \in Nat
  <1>1. \A i \in 1..Len(s) : s[i] \in Msgs
    OBVIOUS
  <1> QED
    BY <1>1 DEF Msgs

\* One less at the front.
LEMMA TailFacts ==
  ASSUME NEW S, NEW s \in Seq(S), s # <<>>
  PROVE  /\ Tail(s) \in Seq(S)
         /\ Len(s) \in Nat \ {0}
         /\ Head(s) = s[1] /\ s[1] \in S
         /\ Len(Tail(s)) = Len(s) - 1
         /\ \A i \in 1..Len(Tail(s)) : Tail(s)[i] = s[i + 1]
  OBVIOUS

\* What is sent comes after what was on its way, while the connection is up.
LEMMA SendsGrows ==
  ASSUME wire \in Seq(Msgs), up \in BOOLEAN, NEW msgs \in Seq(Msgs), Sends(msgs)
  PROVE  /\ wire' \in Seq(Msgs)
         /\ Len(wire) \in Nat /\ Len(msgs) \in Nat
         /\ Len(wire') = Len(wire) + (IF up THEN Len(msgs) ELSE 0)
         /\ \A i \in 1..Len(wire) : wire'[i] = wire[i]
         /\ \A i \in 1..Len(msgs) : up => wire'[Len(wire) + i] = msgs[i]
         /\ \A i \in 1..Len(wire') : i > Len(wire) =>
               up /\ i - Len(wire) \in 1..Len(msgs) /\ wire'[i] = msgs[i - Len(wire)]
  <1>1. CASE up
    <2>1. wire' = wire \o msgs
      BY <1>1 DEF Sends
    <2> QED
      BY <1>1, <2>1
  <1>2. CASE ~up
    BY <1>2 DEF Sends
  <1> QED
    BY <1>1, <1>2

\* The delivery under way forgets a watcher that is gone.
LEMMA Forgotten ==
  ASSUME NEW S, NEW h \in Seq([ev : S, to : BOOLEAN])
  PROVE  /\ [i \in DOMAIN h |-> [h[i] EXCEPT !.to = FALSE]] \in Seq([ev : S, to : BOOLEAN])
         /\ Len([i \in DOMAIN h |-> [h[i] EXCEPT !.to = FALSE]]) = Len(h)
         /\ \A i \in 1..Len(h) : ~[j \in DOMAIN h |-> [h[j] EXCEPT !.to = FALSE]][i].to
  <1> DEFINE g == [i \in 1..Len(h) |-> [h[i] EXCEPT !.to = FALSE]]
  <1>1. Len(h) \in Nat /\ DOMAIN h = 1..Len(h)
    OBVIOUS
  <1>2. \A i \in 1..Len(h) : g[i] \in [ev : S, to : BOOLEAN] /\ ~g[i].to
    <2> SUFFICES ASSUME NEW i \in 1..Len(h) PROVE g[i] \in [ev : S, to : BOOLEAN] /\ ~g[i].to
      OBVIOUS
    <2>1. h[i] \in [ev : S, to : BOOLEAN]
      BY ElementOfSeq
    <2>2. [h[i] EXCEPT !.to = FALSE] \in [ev : S, to : BOOLEAN] /\ ~[h[i] EXCEPT !.to = FALSE].to
      BY <2>1
    <2> QED
      BY <2>2
  <1>3. g \in Seq([ev : S, to : BOOLEAN])
    BY <1>1, <1>2, IsASeq
  <1>4. Len(g) = Len(h)
    BY <1>1, <1>3, LenProperties
  <1> QED
    BY <1>1, <1>2, <1>3, <1>4

\* An answer ends the subscription.
LEMMA AnswerEnds ==
  ASSUME hand \in Seq([ev : Msgs, to : BOOLEAN]), Len(hand) <= 1, NEW how, NEW seq, Answer(how, seq)
  PROVE  /\ hand' \in Seq([ev : Msgs, to : BOOLEAN]) /\ Len(hand') <= 1
         /\ \A i \in 1..Len(hand') : ~hand'[i].to
         /\ pc' = "answered" /\ watching' = FALSE /\ channel' = <<>> /\ dropped' = FALSE
         /\ answer' = [how |-> how, seq |-> seq]
         /\ tool' = tool /\ told' = told
  <1>1. hand' = [i \in DOMAIN hand |-> [hand[i] EXCEPT !.to = FALSE]]
    BY DEF Answer
  <1>2. /\ hand' \in Seq([ev : Msgs, to : BOOLEAN]) /\ Len(hand') <= 1
        /\ \A i \in 1..Len(hand') : ~hand'[i].to
    BY <1>1, Forgotten
  <1> QED
    BY <1>2 DEF Answer

-----------------------------------------------------------------------------
(* Types.                                                                  *)

\* The bridge begins with the types it keeps.
LEMMA InitTypes == Init => BridgeTypes
  <1> SUFFICES ASSUME Init PROVE BridgeTypes
    OBVIOUS
  <1> USE DEF Init
  <1>1. ServerTypes
    BY DEF ServerTypes, RunStates, Kinds, Statuses
  <1>2. ReaderTypes
    <2>1. program \in RunStates
      BY DEF RunStates
    <2>2. Len(<<>>) = 0 /\ 0 <= WatchCap
      BY BoundsAssumption
    <2>3. <<>> \in Seq(Msgs) /\ <<>> \in Seq([ev : Msgs, to : BOOLEAN])
      OBVIOUS
    <2>4. cache = program /\ inbox = <<>> /\ hand = <<>> /\ channel = <<>>
      OBVIOUS
    <2>5. watching = FALSE /\ dropped = FALSE /\ dead = FALSE
      OBVIOUS
    <2>6. /\ inbox \in Seq(Msgs) /\ Len(inbox) <= 1
          /\ hand \in Seq([ev : Msgs, to : BOOLEAN]) /\ Len(hand) <= 1
          /\ channel \in Seq(Msgs) /\ Len(channel) <= WatchCap
      <3> HIDE DEF Init
      <3> QED
        BY <2>2, <2>3, <2>4
    <2> HIDE DEF Init
    <2> QED
      BY <2>1, <2>4, <2>5, <2>6 DEF ReaderTypes
  <1>3. ToolTypes
    BY DEF ToolTypes, Kinds, Outcomes, Nothing
  <1> QED
    BY <1>1, <1>2, <1>3 DEF BridgeTypes

\* The steps of the server keep the types.
LEMMA ServerKeepsTypes ==
  ASSUME BridgeTypes, Stops \/ Resumes \/ Unloads \/ Chatters \/ Answers \/ Disconnects
  PROVE  BridgeTypes'
  <1>1. ReaderTypes' /\ ToolTypes'
    <2>1. UNCHANGED <<reader, watcher, serving>>
      BY DEF Stops, Resumes, Unloads, Chatters, Answers, Disconnects
    <2> QED
      BY <2>1 DEF BridgeTypes, ReaderTypes, ToolTypes, reader, watcher, serving
  <1>2. wire \in Seq(Msgs) /\ up \in BOOLEAN /\ program \in RunStates /\ asked \in Kinds \cup {"none"}
        /\ decomp \in Statuses
    BY DEF BridgeTypes, ServerTypes
  <1>3. \A m \in Msgs : Sends(<<m>>) => wire' \in Seq(Msgs)
    <2>1. \A m \in Msgs : <<m>> \in Seq(Msgs)
      OBVIOUS
    <2> QED
      BY <1>2, <2>1, SendsGrows
  <1>4. \A m, n \in Msgs : Sends(<<m, n>>) => wire' \in Seq(Msgs)
    <2>1. \A m, n \in Msgs : <<m, n>> \in Seq(Msgs)
      OBVIOUS
    <2> QED
      BY <1>2, <2>1, SendsGrows
  <1>5. \A kind \in EventKinds, seq \in Nat : Event(kind, seq) \in Msgs
    BY EventTypes
  <1>6. \A ok \in BOOLEAN, state \in Statuses \cup {""} : Reply(ok, state) \in Msgs
    BY ReplyTypes
  <1>7. CASE Stops
    <2>1. PICK end \in Ends : /\ program' = [state |-> end, seq |-> IF end = "stopped" THEN program.seq + 1
                                                                                        ELSE program.seq]
                              /\ Sends(<<Event(end, program'.seq)>>)
      BY <1>7 DEF Stops, Ends
    <2>2. program' \in RunStates
      BY <1>2, <2>1 DEF RunStates, Ends
    <2>3. Event(end, program'.seq) \in Msgs
      BY <1>5, <2>2 DEF RunStates, EventKinds, Ends
    <2>4. wire' \in Seq(Msgs)
      BY <1>3, <2>1, <2>3
    <2> QED
      BY <1>1, <1>2, <1>7, <2>2, <2>4 DEF BridgeTypes, ServerTypes, Stops
  <1>8. CASE Resumes
    <2>1. wire' \in Seq(Msgs)
      BY <1>3, <1>5, <1>8 DEF Resumes, EventKinds
    <2>2. program' \in RunStates
      BY <1>2, <1>8 DEF Resumes, RunStates
    <2> QED
      BY <1>1, <1>2, <1>8, <2>1, <2>2 DEF BridgeTypes, ServerTypes, Resumes
  <1>9. CASE Unloads
    <2>1. wire' \in Seq(Msgs)
      BY <1>3, <1>5, <1>9 DEF Unloads, EventKinds
    <2>2. program' \in RunStates
      BY <1>2, <1>9 DEF Unloads, RunStates
    <2> QED
      BY <1>1, <1>2, <1>9, <2>1, <2>2 DEF BridgeTypes, ServerTypes, Unloads
  <1>10. CASE Chatters
    <2>1. wire' \in Seq(Msgs)
      BY <1>3, <1>5, <1>10 DEF Chatters, EventKinds
    <2>2. decomp' \in Statuses
      BY <1>2, <1>10 DEF Chatters, Statuses
    <2> QED
      BY <1>1, <1>2, <1>10, <2>1, <2>2 DEF BridgeTypes, ServerTypes, Chatters
  <1>11. CASE Answers
    <2>1. program' \in RunStates
      BY <1>2, <1>11 DEF Answers, RunStates
    <2>2. decomp' \in Statuses
      BY <1>2, <1>11 DEF Answers, Statuses
    <2>3. \/ \E ok \in BOOLEAN : Sends(<<Event("running", 0), Reply(ok, "")>>)
          \/ Sends(<<Reply(FALSE, "")>>)
          \/ Sends(<<Reply(TRUE, "")>>)
          \/ Sends(<<Reply(TRUE, decomp')>>)
      BY <1>11 DEF Answers
    <2>4. wire' \in Seq(Msgs)
      BY <1>3, <1>4, <1>5, <1>6, <2>2, <2>3 DEF EventKinds
    <2>5. asked' = "none" /\ up' = up
      BY <1>11 DEF Answers
    <2> QED
      BY <1>1, <1>2, <2>1, <2>2, <2>4, <2>5 DEF BridgeTypes, ServerTypes
  <1>12. CASE Disconnects
    BY <1>1, <1>2, <1>12 DEF BridgeTypes, ServerTypes, Disconnects, server
  <1> QED
    BY <1>7, <1>8, <1>9, <1>10, <1>11, <1>12

\* The steps of the reader keep the types.
LEMMA ReaderKeepsTypes ==
  ASSUME BridgeTypes, Read \/ Push \/ ReadFails
  PROVE  BridgeTypes'
  <1>1. ToolTypes'
    <2>1. UNCHANGED serving
      BY DEF Read, Push, ReadFails
    <2> QED
      BY <2>1 DEF BridgeTypes, ToolTypes, serving
  <1>2. /\ wire \in Seq(Msgs) /\ cache \in RunStates /\ watching \in BOOLEAN /\ dropped \in BOOLEAN
        /\ inbox \in Seq(Msgs) /\ Len(inbox) <= 1
        /\ hand \in Seq([ev : Msgs, to : BOOLEAN]) /\ Len(hand) <= 1
        /\ channel \in Seq(Msgs) /\ Len(channel) <= WatchCap
    BY DEF BridgeTypes, ServerTypes, ReaderTypes
  <1>3. CASE Read
    <2>1. wire' \in Seq(Msgs) /\ Head(wire) \in Msgs
      BY <1>2, <1>3, TailFacts DEF Read
    <2>2. ServerTypes'
      BY <1>3, <2>1 DEF Read, BridgeTypes, ServerTypes, server
    <2>3. CASE Head(wire).event /\ Deliver(Head(wire)) /\ UNCHANGED inbox
      <3>1. cache' \in RunStates
        BY <1>2, <2>1, <2>3 DEF Deliver, CacheOf, RunStates, Msgs
      <3>2. [ev |-> Head(wire), to |-> watching] \in [ev : Msgs, to : BOOLEAN]
        BY <1>2, <2>1
      <3>3. hand' \in Seq([ev : Msgs, to : BOOLEAN]) /\ Len(hand') <= 1
        BY <2>3, <3>2 DEF Deliver
      <3> QED
        BY <1>1, <1>3, <2>2, <2>3, <3>1, <3>3 DEF Read, BridgeTypes, ReaderTypes, watcher
    <2>4. CASE ~Head(wire).event /\ inbox' = <<Head(wire)>> /\ UNCHANGED <<cache, hand>>
      <3>1. inbox' \in Seq(Msgs) /\ Len(inbox') <= 1
        BY <2>1, <2>4
      <3> QED
        BY <1>1, <1>3, <2>2, <2>4, <3>1 DEF Read, BridgeTypes, ReaderTypes, watcher
    <2> QED
      BY <1>3, <2>3, <2>4 DEF Read
  <1>4. CASE Push
    <2>1. hand' = <<>> /\ dropped' \in BOOLEAN
      BY <1>4 DEF Push, PushTo
    <2>2. hand[1] \in [ev : Msgs, to : BOOLEAN]
      <3>1. hand # <<>>
        BY <1>4 DEF Push
      <3>2. hand \in Seq([ev : Msgs, to : BOOLEAN])
        BY <1>2
      <3> QED
        BY <3>1, <3>2, TailFacts
    <2>3. hand[1].ev \in Msgs
      BY <2>2
    <2>4. Append(channel, hand[1].ev) \in Seq(Msgs) /\ Len(Append(channel, hand[1].ev)) = Len(channel) + 1
      BY <1>2, <2>3
    <2>5. channel' \in Seq(Msgs) /\ Len(channel') <= WatchCap
      BY <1>2, <1>4, <2>4, BoundsAssumption DEF Push, PushTo
    <2> QED
      BY <1>1, <1>4, <2>1, <2>5 DEF Push, BridgeTypes, ServerTypes, ReaderTypes, server
  <1>5. CASE ReadFails
    BY <1>1, <1>5 DEF ReadFails, BridgeTypes, ServerTypes, ReaderTypes, server, watcher
  <1> QED
    BY <1>3, <1>4, <1>5

\* The steps of a tool keep the types.
LEMMA ToolKeepsTypes ==
  ASSUME BridgeTypes, (\E kind \in Kinds : CallTool(kind)) \/ Steps \/ Deadline
  PROVE  BridgeTypes'
  <1>1. ServerTypes' /\ cache' = cache /\ dead' = dead
    <2>1. asked' \in Kinds \cup {"none"}
      BY DEF CallTool, Steps, Watch, Look, Call, Replied, TakeRun, TakeWait, TakeDecomp, Taking,
             Gone, Write, Deadline, BridgeTypes, ServerTypes, ToolTypes
    <2>2. UNCHANGED <<server, wire, up, cache, dead>>
      BY DEF CallTool, Steps, Watch, Look, Call, Replied, TakeRun, TakeWait, TakeDecomp, Taking,
             Gone, Write, Deadline, reader
    <2> QED
      BY <2>1, <2>2 DEF BridgeTypes, ServerTypes, server
  <1>2. /\ cache \in RunStates /\ watching \in BOOLEAN /\ dropped \in BOOLEAN /\ dead \in BOOLEAN
        /\ inbox \in Seq(Msgs) /\ Len(inbox) <= 1
        /\ hand \in Seq([ev : Msgs, to : BOOLEAN]) /\ Len(hand) <= 1
        /\ channel \in Seq(Msgs) /\ Len(channel) <= WatchCap
        /\ tool \in Kinds /\ told \in Nat /\ answer \in Outcomes
        /\ pc \in {"idle", "watch", "look", "call", "replying", "waiting", "answered"}
    BY DEF BridgeTypes, ReaderTypes, ToolTypes
  <1>3. <<>> \in Seq(Msgs) /\ Len(<<>>) = 0 /\ 0 <= WatchCap
    BY BoundsAssumption
  <1>4. ASSUME NEW how \in Ends \cup {"", "running", "refused", "error", "passed", "status", "gone"},
               NEW seq \in Nat, Answer(how, seq), inbox' \in Seq(Msgs), Len(inbox') <= 1
        PROVE  BridgeTypes'
    <2>1. /\ hand' \in Seq([ev : Msgs, to : BOOLEAN]) /\ Len(hand') <= 1
          /\ pc' = "answered" /\ watching' = FALSE /\ channel' = <<>> /\ dropped' = FALSE
          /\ answer' = [how |-> how, seq |-> seq]
          /\ tool' = tool /\ told' = told
      BY <1>2, <1>4, AnswerEnds
    <2>2. answer' \in Outcomes
      BY <1>4, <2>1 DEF Outcomes
    <2>3. ReaderTypes'
      BY <1>1, <1>2, <1>3, <1>4, <2>1 DEF ReaderTypes
    <2> QED
      BY <1>1, <1>2, <2>1, <2>2, <2>3 DEF BridgeTypes, ToolTypes
  <1>5. ASSUME NEW to \in {"call", "replying", "waiting"}, Goes(to),
               inbox' \in Seq(Msgs), Len(inbox') <= 1
        PROVE  BridgeTypes'
    BY <1>1, <1>2, <1>5 DEF Goes, BridgeTypes, ReaderTypes, ToolTypes
  <1>6. ASSUME NEW to \in {"call", "replying", "waiting"}, Drops(to), channel # <<>>, inbox' = inbox
        PROVE  BridgeTypes'
    <2>1. channel' \in Seq(Msgs) /\ Len(channel') <= WatchCap
      <3>1. channel' = Tail(channel)
        BY <1>6 DEF Drops
      <3> QED
        BY <1>2, <1>6, <3>1, TailFacts, BoundsAssumption
    <2> QED
      BY <1>1, <1>2, <1>6, <2>1 DEF Drops, BridgeTypes, ReaderTypes, ToolTypes
  <1>7. ASSUME NEW kind \in Kinds, CallTool(kind) PROVE BridgeTypes'
    <2>1. UNCHANGED <<reader, watcher>>
      BY <1>7 DEF CallTool
    <2>2. ReaderTypes'
      BY <1>2, <2>1 DEF ReaderTypes, reader, watcher
    <2>3. told' \in Nat /\ tool' \in Kinds
      BY <1>2, <1>7 DEF CallTool, RunStates
    <2>4. answer' \in Outcomes /\ pc' \in {"answered", "call", "watch"}
      <3>1. answer' = [Nothing EXCEPT !.how = "refused"] \/ answer' = answer
        BY <1>7 DEF CallTool
      <3>2. [Nothing EXCEPT !.how = "refused"] \in Outcomes
        BY DEF Nothing, Outcomes
      <3>3. pc' \in {"answered", "call", "watch"}
        BY <1>7 DEF CallTool
      <3> QED
        BY <1>2, <3>1, <3>2, <3>3
    <2> QED
      BY <1>1, <2>2, <2>3, <2>4 DEF BridgeTypes, ToolTypes
  <1>8. CASE Watch
    BY <1>1, <1>2, <1>8 DEF Watch, BridgeTypes, ReaderTypes, ToolTypes, reader
  <1>9. CASE Look
    <2>1. cache.seq \in Nat /\ inbox' = inbox
      BY <1>2, <1>9 DEF RunStates, Look
    <2>2. CASE cache.state \in Ends /\ Answer(cache.state, cache.seq)
      BY <1>2, <1>4, <2>1, <2>2
    <2>3. CASE Goes("waiting")
      BY <1>2, <1>5, <2>1, <2>3
    <2>4. IF cache.state \in Ends THEN Answer(cache.state, cache.seq) ELSE Goes("waiting")
      BY <1>9 DEF Look, Ends
    <2> QED
      BY <2>2, <2>3, <2>4
  <1>10. CASE Call
    <2>1. inbox' \in Seq(Msgs) /\ Len(inbox') <= 1
      BY <1>3, <1>10 DEF Call
    <2>2. Answer("gone", 0) \/ Goes("replying")
      BY <1>10 DEF Call
    <2> QED
      BY <1>4, <1>5, <2>1, <2>2
  <1>11. CASE Replied
    BY <1>2, <1>4, <1>5, <1>11 DEF Replied
  <1>12. CASE TakeRun \/ TakeWait \/ TakeDecomp
    <2>1. channel # <<>> /\ inbox' = inbox
      BY <1>12 DEF TakeRun, TakeWait, TakeDecomp, Taking
    <2>2. Head(channel) \in Msgs
      BY <1>2, <2>1, TailFacts
    <2>3. Head(channel).seq \in Nat
      BY <2>2 DEF Msgs
    <2> QED
      BY <1>2, <1>4, <1>6, <1>12, <2>1, <2>3 DEF TakeRun, TakeWait, TakeDecomp, Ends
  <1>13. CASE Deadline \/ Gone
    <2>1. inbox' = inbox /\ (Answer("status", 0) \/ Answer("running", 0) \/ Answer("gone", 0))
      BY <1>13 DEF Deadline, Gone
    <2>2. /\ Answer("status", 0) => BridgeTypes'
          /\ Answer("running", 0) => BridgeTypes'
          /\ Answer("gone", 0) => BridgeTypes'
      BY <1>2, <1>4, <2>1
    <2> QED
      BY <2>1, <2>2
  <1>14. CASE Write
    <2>1. Nothing \in Outcomes /\ "pass" \in Kinds
      BY DEF Nothing, Outcomes, Kinds
    <2>2. ToolTypes'
      BY <1>14, <2>1 DEF Write, ToolTypes
    <2>3. ReaderTypes'
      BY <1>1, <1>2, <1>3, <1>14 DEF Write, ReaderTypes, watcher
    <2> QED
      BY <1>1, <2>2, <2>3 DEF BridgeTypes
  <1> QED
    BY <1>7, <1>8, <1>9, <1>10, <1>11, <1>12, <1>13, <1>14 DEF Steps

\* Every step keeps the types.
LEMMA NextTypes ==
  ASSUME BridgeTypes, [Next]_vars
  PROVE  BridgeTypes'
  <1>1. CASE Next
    BY <1>1, ServerKeepsTypes, ReaderKeepsTypes, ToolKeepsTypes DEF Next
  <1>2. CASE UNCHANGED vars
    BY <1>2 DEF BridgeTypes, ServerTypes, ReaderTypes, ToolTypes, vars, server, reader, watcher, serving
  <1> QED
    BY <1>1, <1>2

-----------------------------------------------------------------------------
(* Subscriptions.                                                          *)

\* Every step keeps the subscription where the tool is.
LEMMA NextSubscribed ==
  ASSUME BridgeTypes, Subscribed, [Next]_vars
  PROVE  Subscribed'
  <1>1. /\ watching \in BOOLEAN /\ channel \in Seq(Msgs) /\ tool \in Kinds
        /\ hand \in Seq([ev : Msgs, to : BOOLEAN]) /\ Len(hand) <= 1 /\ wire \in Seq(Msgs)
        /\ pc \in {"idle", "watch", "look", "call", "replying", "waiting", "answered"}
    BY DEF BridgeTypes, ServerTypes, ReaderTypes, ToolTypes
  <1>2. CASE UNCHANGED <<hand, watcher, serving>>
    BY <1>2 DEF Subscribed, watcher, serving
  <1>3. ASSUME NEW how, NEW seq, Answer(how, seq) PROVE Subscribed'
    <2>1. /\ \A i \in 1..Len(hand') : ~hand'[i].to
          /\ pc' = "answered" /\ watching' = FALSE /\ channel' = <<>>
      BY <1>1, <1>3, AnswerEnds
    <2> QED
      BY <2>1 DEF Subscribed
  <1>4. CASE Stops \/ Resumes \/ Unloads \/ Chatters \/ Answers \/ Disconnects \/ ReadFails
    BY <1>2, <1>4 DEF Stops, Resumes, Unloads, Chatters, Answers, Disconnects, ReadFails, reader
  <1>5. CASE Read
    <2>1. \/ hand' = <<[ev |-> Head(wire), to |-> watching]>>
          \/ hand' = hand
      BY <1>5 DEF Read, Deliver
    <2>2. ~watching => \A i \in 1..Len(hand') : ~hand'[i].to
      BY <2>1 DEF Subscribed
    <2>3. UNCHANGED <<watcher, serving>>
      BY <1>5 DEF Read
    <2> QED
      BY <2>2, <2>3 DEF Subscribed, watcher, serving
  <1>6. CASE Push
    <2>1. hand # <<>> /\ hand' = <<>>
      BY <1>6 DEF Push, PushTo
    <2>2. 1 \in 1..Len(hand)
      BY <1>1, <2>1
    <2>3. channel' = channel \/ hand[1].to
      BY <1>6 DEF Push, PushTo
    <2>4. ~watching => channel' = channel
      BY <2>2, <2>3 DEF Subscribed
    <2>5. \A i \in 1..Len(hand') : ~hand'[i].to
      BY <2>1
    <2> QED
      BY <1>6, <2>4, <2>5 DEF Push, Subscribed, serving
  <1>7. ASSUME NEW kind \in Kinds, CallTool(kind) PROVE Subscribed'
    <2>1. UNCHANGED <<hand, watching, channel>> /\ watching = FALSE
      BY <1>1, <1>7 DEF CallTool, reader, watcher, Subscribed
    <2>2. tool' = kind /\ \/ pc' = "answered"
                          \/ pc' = "call" /\ kind = "pass"
                          \/ pc' = "watch" /\ kind # "pass"
      BY <1>7 DEF CallTool
    <2> QED
      BY <2>1, <2>2 DEF Subscribed
  <1>8. CASE Watch
    BY <1>8 DEF Watch, Subscribed, reader
  <1>9. CASE Look
    <2>1. CASE Goes("waiting")
      BY <1>9, <2>1 DEF Look, Goes, Subscribed
    <2> QED
      BY <1>3, <1>9, <2>1 DEF Look
  <1>10. CASE Call
    <2>1. CASE Goes("replying")
      BY <1>10, <2>1 DEF Call, Goes, Subscribed
    <2> QED
      BY <1>3, <1>10, <2>1 DEF Call
  <1>11. CASE Replied
    <2>1. CASE Goes("waiting") /\ tool # "pass"
      BY <1>11, <2>1 DEF Replied, Goes, Subscribed
    <2> QED
      BY <1>3, <1>11, <2>1 DEF Replied
  <1>12. CASE TakeRun \/ TakeWait \/ TakeDecomp
    <2>1. pc = "waiting" /\ watching = TRUE
      BY <1>1, <1>12 DEF TakeRun, TakeWait, TakeDecomp, Taking, Subscribed
    <2>2. ASSUME NEW to \in {"call", "waiting"}, Drops(to), tool # "pass" PROVE Subscribed'
      BY <2>1, <2>2 DEF Drops, Subscribed
    <2> QED
      BY <1>3, <1>12, <2>2 DEF TakeRun, TakeWait, TakeDecomp, Taking, RunTools
  <1>13. CASE Deadline \/ Gone
    BY <1>3, <1>13 DEF Deadline, Gone
  <1>14. CASE Write
    BY <1>14 DEF Write, Subscribed, watcher
  <1>15. CASE UNCHANGED vars
    BY <1>2, <1>15 DEF vars, reader
  <1> QED
    BY <1>4, <1>5, <1>6, <1>7, <1>8, <1>9, <1>10, <1>11, <1>12, <1>13, <1>14, <1>15 DEF Next, Steps

-----------------------------------------------------------------------------
(* The order of stops.                                                     *)

\* What the server sends keeps the order when a stop among it comes first and is
\* newer than every stop before it.
LEMMA SendsAscend ==
  ASSUME BridgeTypes, StopsAscend, NEW msgs \in Seq(Msgs), Sends(msgs),
         UNCHANGED <<reader, watcher, serving>>, program' \in RunStates, program.seq <= program'.seq,
         \A i \in 1..Len(msgs) :
            /\ msgs[i].seq <= program'.seq
            /\ msgs[i].kind = "stopped" => i = 1 /\ msgs[i].seq > program.seq
  PROVE  StopsAscend'
  <1>1. /\ wire \in Seq(Msgs) /\ up \in BOOLEAN /\ program.seq \in Nat /\ cache.seq \in Nat /\ program'.seq \in Nat
        /\ \A i \in 1..Len(wire) : wire[i].seq \in Nat
        /\ \A i \in 1..Len(msgs) : msgs[i].seq \in Nat
    <2>1. wire \in Seq(Msgs) /\ up \in BOOLEAN /\ program.seq \in Nat /\ cache.seq \in Nat /\ program'.seq \in Nat
      BY DEF BridgeTypes, ServerTypes, ReaderTypes, RunStates
    <2> QED
      BY <2>1, MessageFields
  <1>2. /\ Len(wire) \in Nat /\ Len(msgs) \in Nat
        /\ \A i \in 1..Len(wire) : wire'[i] = wire[i]
        /\ \A i \in 1..Len(wire') : i > Len(wire) =>
              up /\ i - Len(wire) \in 1..Len(msgs) /\ wire'[i] = msgs[i - Len(wire)]
        /\ Len(wire') \in Nat
    BY <1>1, SendsGrows, SMTT(30)
  <1>3. UNCHANGED <<cache, told, hand, channel>>
    BY DEF reader, watcher, serving
  <1>4. \A i \in 1..Len(wire') : wire'[i].seq <= program'.seq
    <2> TAKE i \in 1..Len(wire')
    <2>1. CASE i <= Len(wire)
      BY <1>1, <1>2, <2>1 DEF StopsAscend
    <2>2. CASE i > Len(wire)
      BY <1>1, <1>2, <2>2
    <2> QED
      BY <1>2, <2>1, <2>2
  <1>5. \A i \in 1..Len(wire') : wire'[i].kind = "stopped" => wire'[i].seq > cache.seq
    <2> TAKE i \in 1..Len(wire')
    <2>1. CASE i <= Len(wire)
      BY <1>1, <1>2, <2>1 DEF StopsAscend
    <2>2. CASE i > Len(wire)
      BY <1>1, <1>2, <2>2, SMTT(30) DEF StopsAscend
    <2> QED
      BY <1>2, <2>1, <2>2
  <1>6. \A i, j \in 1..Len(wire') : i < j /\ wire'[j].kind = "stopped" => wire'[i].seq < wire'[j].seq
    <2> SUFFICES ASSUME NEW i \in 1..Len(wire'), NEW j \in 1..Len(wire'), i < j, wire'[j].kind = "stopped"
                 PROVE  wire'[i].seq < wire'[j].seq
      OBVIOUS
    <2>1. CASE j <= Len(wire)
      <3>1. i \in 1..Len(wire) /\ j \in 1..Len(wire)
        BY <1>2, <2>1
      <3> QED
        BY <1>2, <3>1 DEF StopsAscend
    <2>2. CASE j > Len(wire)
      <3>1. j - Len(wire) = 1 /\ wire'[j].seq > program.seq /\ wire'[j].seq \in Nat
        BY <1>1, <1>2, <2>2
      <3>2. i \in 1..Len(wire)
        BY <1>2, <3>1
      <3>3. wire'[i].seq <= program.seq /\ wire'[i].seq \in Nat
        BY <1>1, <1>2, <3>2 DEF StopsAscend
      <3>4. program.seq \in Nat
        BY <1>1
      <3> QED
        BY <3>1, <3>3, <3>4
    <2> QED
      BY <1>2, <2>1, <2>2
  <1>7. cache.seq <= program'.seq
    BY <1>1 DEF StopsAscend
  <1> QED
    BY <1>3, <1>4, <1>5, <1>6, <1>7 DEF StopsAscend

\* The steps of the server keep the order.
LEMMA ServerKeepsOrder ==
  ASSUME BridgeTypes, BridgeTypes', StopsAscend,
         Stops \/ Resumes \/ Unloads \/ Chatters \/ Answers \/ Disconnects
  PROVE  StopsAscend'
  <1>1. /\ UNCHANGED <<reader, watcher, serving>>
        /\ program \in RunStates /\ program' \in RunStates /\ decomp' \in Statuses
    BY DEF Stops, Resumes, Unloads, Chatters, Answers, Disconnects, BridgeTypes, ServerTypes
  <1>2. program.seq \in Nat /\ program'.seq \in Nat
    BY <1>1 DEF RunStates
  <1>3. ASSUME NEW m \in Msgs, Sends(<<m>>), program.seq <= program'.seq, m.seq <= program'.seq,
               m.kind = "stopped" => m.seq > program.seq
        PROVE  StopsAscend'
    <2>1. <<m>> \in Seq(Msgs) /\ Len(<<m>>) = 1 /\ <<m>>[1] = m
      OBVIOUS
    <2>2. \A i \in 1..Len(<<m>>) :
             /\ <<m>>[i].seq <= program'.seq
             /\ <<m>>[i].kind = "stopped" => i = 1 /\ <<m>>[i].seq > program.seq
      BY <1>3, <2>1
    <2> QED
      BY <1>1, <1>3, <2>1, <2>2, SendsAscend
  <1>4. ASSUME NEW m \in Msgs, NEW n \in Msgs, Sends(<<m, n>>), program.seq <= program'.seq,
               m.seq = 0, n.seq = 0, m.kind # "stopped", n.kind # "stopped"
        PROVE  StopsAscend'
    <2>1. <<m, n>> \in Seq(Msgs) /\ Len(<<m, n>>) = 2 /\ <<m, n>>[1] = m /\ <<m, n>>[2] = n
      OBVIOUS
    <2>2. \A i \in 1..Len(<<m, n>>) : <<m, n>>[i].seq <= program'.seq /\ <<m, n>>[i].kind # "stopped"
      BY <1>2, <1>4, <2>1
    <2> QED
      BY <1>1, <1>4, <2>1, <2>2, SendsAscend
  <1>5. ASSUME NEW kind \in EventKinds \ {"stopped"}, Sends(<<Event(kind, 0)>>), program'.seq = program.seq
        PROVE  StopsAscend'
    <2>1. /\ Event(kind, 0) \in Msgs /\ Event(kind, 0).kind # "stopped" /\ Event(kind, 0).seq = 0
      BY EventTypes
    <2> QED
      BY <1>2, <1>3, <1>5, <2>1
  <1>13. program'.seq = program.seq => program.seq <= program'.seq /\ 0 <= program'.seq
    BY <1>2
  <1>6. ASSUME NEW ok \in BOOLEAN, NEW st \in Statuses \cup {""},
               Sends(<<Reply(ok, st)>>), program'.seq = program.seq
        PROVE  StopsAscend'
    <2>1. Reply(ok, st) \in Msgs /\ Reply(ok, st).kind # "stopped" /\ Reply(ok, st).seq = 0
      BY ReplyTypes
    <2>2. program'.seq = program.seq
      BY <1>6
    <2>3. program.seq <= program'.seq /\ 0 <= program'.seq
      BY <1>13, <2>2, Zenon
    <2>4. Reply(ok, st).seq <= program'.seq
      BY <2>1, <2>3, Zenon
    <2> QED
      BY <1>3, <1>6, <2>1, <2>3, <2>4
  <1>7. CASE Stops
    <2>1. PICK end \in Ends : /\ program' = [state |-> end, seq |-> IF end = "stopped" THEN program.seq + 1
                                                                                        ELSE program.seq]
                              /\ Sends(<<Event(end, program'.seq)>>)
      BY <1>7 DEF Stops, Ends
    <2>2. /\ Event(end, program'.seq) \in Msgs
          /\ Event(end, program'.seq).kind = end /\ Event(end, program'.seq).seq = program'.seq
      <3>1. end \in EventKinds
        BY DEF Ends, EventKinds
      <3> QED
        BY <1>2, <3>1, EventTypes
    <2>3. program'.seq = IF end = "stopped" THEN program.seq + 1 ELSE program.seq
      BY <2>1
    <2> QED
      BY <1>2, <1>3, <2>1, <2>2, <2>3
  <1>8. CASE Resumes
    <2>1. program'.seq = program.seq
      BY <1>1, <1>8 DEF Resumes, RunStates
    <2> QED
      BY <1>5, <1>8, <2>1 DEF Resumes, EventKinds
  <1>9. CASE Unloads
    <2>1. program'.seq = program.seq
      BY <1>1, <1>9 DEF Unloads, RunStates
    <2> QED
      BY <1>5, <1>9, <2>1 DEF Unloads, EventKinds
  <1>10. CASE Chatters
    BY <1>5, <1>10 DEF Chatters, EventKinds
  <1>11. CASE Answers
    <2>1. program'.seq = program.seq
      BY <1>1, <1>11 DEF Answers, RunStates
    <2>2. CASE \E ok \in BOOLEAN : Sends(<<Event("running", 0), Reply(ok, "")>>)
      <3>1. PICK ok \in BOOLEAN : Sends(<<Event("running", 0), Reply(ok, "")>>)
        BY <2>2
      <3>2. /\ Event("running", 0) \in Msgs /\ Event("running", 0).seq = 0
            /\ Event("running", 0).kind = "running"
        BY EventTypes DEF EventKinds
      <3>3. Reply(ok, "") \in Msgs /\ Reply(ok, "").seq = 0 /\ Reply(ok, "").kind = ""
        <4>1. "" \in Statuses \cup {""}
          OBVIOUS
        <4> QED
          BY <4>1, ReplyTypes
      <3>4. program.seq <= program'.seq
        BY <1>2, <2>1
      <3> QED
        BY <1>4, <3>1, <3>2, <3>3, <3>4
    <2>3. CASE Sends(<<Reply(FALSE, "")>>) \/ Sends(<<Reply(TRUE, "")>>) \/ Sends(<<Reply(TRUE, decomp')>>)
      BY <1>1, <1>6, <2>1, <2>3
    <2> QED
      BY <1>11, <2>2, <2>3 DEF Answers
  <1>12. CASE Disconnects
    BY <1>1, <1>12 DEF Disconnects, StopsAscend, server, reader, watcher, serving
  <1> QED
    BY <1>7, <1>8, <1>9, <1>10, <1>11, <1>12

\* The steps of the reader keep the order.
LEMMA ReaderKeepsOrder ==
  ASSUME BridgeTypes, Subscribed, StopsAscend, Read \/ Push \/ ReadFails
  PROVE  StopsAscend'
  <1>1. /\ wire \in Seq(Msgs) /\ program.seq \in Nat /\ cache.seq \in Nat /\ told \in Nat
        /\ hand \in Seq([ev : Msgs, to : BOOLEAN]) /\ Len(hand) <= 1 /\ channel \in Seq(Msgs)
        /\ \A i \in 1..Len(wire) : wire[i].seq \in Nat
    <2>1. /\ wire \in Seq(Msgs) /\ program.seq \in Nat /\ cache.seq \in Nat /\ told \in Nat
          /\ hand \in Seq([ev : Msgs, to : BOOLEAN]) /\ Len(hand) <= 1 /\ channel \in Seq(Msgs)
      BY DEF BridgeTypes, ServerTypes, ReaderTypes, ToolTypes, RunStates
    <2> QED
      BY <2>1, MessageFields
  <1>2. CASE Read
    <2>1. UNCHANGED <<program, told, channel>> /\ wire # <<>> /\ wire' = Tail(wire)
      BY <1>2 DEF Read, server, watcher, serving
    <2>2. /\ Len(wire) \in Nat \ {0} /\ Head(wire) = wire[1]
          /\ Len(wire') = Len(wire) - 1
          /\ \A i \in 1..Len(wire') : wire'[i] = wire[i + 1]
      BY <1>1, <2>1, TailFacts
    <2>3. 1 \in 1..Len(wire) /\ \A i \in 1..Len(wire') : i + 1 \in 1..Len(wire)
      BY <2>2
    <2>4. /\ \A i \in 1..Len(wire') : wire'[i].seq <= program.seq
          /\ \A i, j \in 1..Len(wire') : i < j /\ wire'[j].kind = "stopped" => wire'[i].seq < wire'[j].seq
      <3>1. \A i \in 1..Len(wire') : wire'[i].seq <= program.seq
        BY <2>2, <2>3 DEF StopsAscend
      <3>2. \A i, j \in 1..Len(wire) : i < j /\ wire[j].kind = "stopped" => wire[i].seq < wire[j].seq
        BY DEF StopsAscend
      <3>3. ASSUME NEW i \in 1..Len(wire'), NEW j \in 1..Len(wire'), i < j, wire'[j].kind = "stopped"
            PROVE  wire'[i].seq < wire'[j].seq
        <4>1. i + 1 \in 1..Len(wire) /\ j + 1 \in 1..Len(wire) /\ i + 1 < j + 1
          BY <2>3, <3>3
        <4> QED
          BY <2>2, <3>2, <3>3, <4>1
      <3> QED
        BY <3>1, <3>3
    <2>5. \A i \in 1..Len(wire') : wire'[i].kind = "stopped" =>
             wire'[i].seq > cache.seq /\ wire'[i].seq > wire[1].seq
      <3> SUFFICES ASSUME NEW i \in 1..Len(wire'), wire'[i].kind = "stopped"
                   PROVE  wire'[i].seq > cache.seq /\ wire'[i].seq > wire[1].seq
        OBVIOUS
      <3>1. i + 1 \in 1..Len(wire) /\ 1 \in 1..Len(wire) /\ 1 < i + 1 /\ wire[i + 1].kind = "stopped"
        BY <2>2, <2>3
      <3>2. wire[i + 1].seq > cache.seq /\ wire[1].seq < wire[i + 1].seq
        BY <3>1 DEF StopsAscend
      <3>3. wire[1].seq \in Nat /\ wire[i + 1].seq \in Nat
        BY <1>1, <3>1
      <3> QED
        BY <2>2, <3>2, <3>3
    <2>6. CASE Head(wire).event /\ Deliver(Head(wire))
      <3>1. /\ cache'.seq = IF wire[1].seq > cache.seq THEN wire[1].seq ELSE cache.seq
            /\ hand' = <<[ev |-> wire[1], to |-> watching]>>
        BY <2>2, <2>6 DEF Deliver, CacheOf
      <3>2. cache'.seq <= program.seq /\ told <= cache'.seq
        BY <1>1, <2>3, <3>1 DEF StopsAscend
      <3>3. \A i \in 1..Len(wire') : wire'[i].kind = "stopped" => wire'[i].seq > cache'.seq
        BY <2>5, <3>1
      <3>4. \A i \in 1..Len(hand') : hand'[i].to /\ hand'[i].ev.kind = "stopped" => hand'[i].ev.seq > told
        BY <1>1, <2>3, <3>1 DEF StopsAscend
      <3>5. \A i \in 1..Len(channel) : channel[i].kind = "stopped" => channel[i].seq > told
        BY DEF StopsAscend
      <3> QED
        BY <2>1, <2>4, <3>2, <3>3, <3>4, <3>5 DEF StopsAscend
    <2>7. CASE UNCHANGED <<cache, hand>>
      BY <2>1, <2>4, <2>5, <2>7 DEF StopsAscend
    <2> QED
      BY <1>2, <2>6, <2>7 DEF Read
  <1>3. CASE Push
    <2>1. UNCHANGED <<program, told, wire, cache>> /\ hand # <<>> /\ hand' = <<>>
      BY <1>3 DEF Push, PushTo, server, serving
    <2>2. 1 \in 1..Len(hand)
      BY <1>1, <2>1
    <2>3. channel' = channel \/ (hand[1].to /\ channel' = Append(channel, hand[1].ev))
      BY <1>3 DEF Push, PushTo
    <2>4. hand[1].to /\ hand[1].ev.kind = "stopped" => hand[1].ev.seq > told
      BY <2>2 DEF StopsAscend
    <2>5. \A i \in 1..Len(channel) : channel[i].kind = "stopped" => channel[i].seq > told
      BY DEF StopsAscend
    <2>6. \A i \in 1..Len(channel') : channel'[i].kind = "stopped" => channel'[i].seq > told
      <3>1. CASE hand[1].to /\ channel' = Append(channel, hand[1].ev)
        <4>1. hand[1] \in [ev : Msgs, to : BOOLEAN]
          <5>1. hand \in Seq([ev : Msgs, to : BOOLEAN]) /\ hand # <<>>
            BY <1>1, <2>1
          <5> QED
            BY <5>1, TailFacts
        <4>2. hand[1].ev \in Msgs
          BY <4>1
        <4>3. /\ Len(channel') = Len(channel) + 1 /\ Len(channel) \in Nat
              /\ \A i \in 1..Len(channel) : channel'[i] = channel[i]
              /\ channel'[Len(channel) + 1] = hand[1].ev
          BY <1>1, <3>1, <4>2
        <4> QED
          BY <2>4, <2>5, <3>1, <4>3
      <3> QED
        BY <2>3, <2>5, <3>1
    <2>7. \A i \in 1..Len(hand') : FALSE
      BY <2>1
    <2> QED
      BY <2>1, <2>6, <2>7 DEF StopsAscend
  <1>4. CASE ReadFails
    <2>1. UNCHANGED <<program, told, cache, hand, channel>> /\ wire' = <<>>
      BY <1>4 DEF ReadFails, server, watcher, serving
    <2>2. \A i \in 1..Len(wire') : FALSE
      BY <2>1
    <2> QED
      BY <2>1, <2>2 DEF StopsAscend
  <1> QED
    BY <1>2, <1>3, <1>4

\* The steps of a tool keep the order.
LEMMA ToolKeepsOrder ==
  ASSUME BridgeTypes, Subscribed, StopsAscend, (\E kind \in Kinds : CallTool(kind)) \/ Steps \/ Deadline
  PROVE  StopsAscend'
  <1>1. UNCHANGED <<program, wire, cache>>
    BY DEF CallTool, Steps, Watch, Look, Call, Replied, TakeRun, TakeWait, TakeDecomp, Taking,
           Gone, Write, Deadline, server, reader
  <1>2. /\ hand \in Seq([ev : Msgs, to : BOOLEAN]) /\ Len(hand) <= 1 /\ channel \in Seq(Msgs)
        /\ cache.seq \in Nat /\ watching \in BOOLEAN
    BY DEF BridgeTypes, ReaderTypes, RunStates
  <1>3. ASSUME told' <= cache.seq,
               \A i \in 1..Len(hand') : hand'[i].to /\ hand'[i].ev.kind = "stopped" => hand'[i].ev.seq > told',
               \A i \in 1..Len(channel') : channel'[i].kind = "stopped" => channel'[i].seq > told'
        PROVE  StopsAscend'
    BY <1>1, <1>3 DEF StopsAscend
  <1>4. /\ told <= cache.seq
        /\ \A i \in 1..Len(hand) : hand[i].to /\ hand[i].ev.kind = "stopped" => hand[i].ev.seq > told
        /\ \A i \in 1..Len(channel) : channel[i].kind = "stopped" => channel[i].seq > told
    BY DEF StopsAscend
  <1>5. ASSUME NEW how, NEW seq, Answer(how, seq) PROVE StopsAscend'
    <2>1. /\ \A i \in 1..Len(hand') : ~hand'[i].to
          /\ channel' = <<>> /\ told' = told
      BY <1>2, <1>5, AnswerEnds
    <2>2. \A i \in 1..Len(channel') : FALSE
      BY <2>1
    <2> QED
      BY <1>3, <1>4, <2>1, <2>2
  <1>6. CASE UNCHANGED <<hand, channel, told>>
    BY <1>3, <1>4, <1>6
  <1>7. ASSUME watching = FALSE, UNCHANGED <<hand, channel>>, told' <= cache.seq PROVE StopsAscend'
    <2>1. channel' = <<>> /\ \A i \in 1..Len(hand') : ~hand'[i].to
      BY <1>7 DEF Subscribed
    <2>2. \A i \in 1..Len(channel') : FALSE
      BY <2>1
    <2> QED
      BY <1>3, <1>7, <2>1, <2>2
  <1>8. ASSUME NEW to, Drops(to), channel # <<>> PROVE StopsAscend'
    <2>1. hand' = hand /\ told' = told /\ channel' = Tail(channel)
      BY <1>8 DEF Drops
    <2>2. \A i \in 1..Len(channel') : i + 1 \in 1..Len(channel) /\ channel'[i] = channel[i + 1]
      BY <1>2, <1>8, <2>1, TailFacts
    <2>3. \A i \in 1..Len(channel') : channel'[i].kind = "stopped" => channel'[i].seq > told'
      BY <1>4, <2>1, <2>2
    <2> QED
      BY <1>3, <1>4, <2>1, <2>3
  <1>9. CASE \E kind \in Kinds : CallTool(kind)
    <2>1. pc = "idle" /\ UNCHANGED <<hand, channel>> /\ told' = cache.seq
      BY <1>9 DEF CallTool, reader, watcher
    <2>2. watching = FALSE
      BY <1>2, <2>1 DEF Subscribed
    <2>3. told' <= cache.seq
      BY <1>2, <2>1
    <2> QED
      BY <1>7, <2>1, <2>2, <2>3
  <1>10. CASE Watch
    BY <1>6, <1>10 DEF Watch, reader
  <1>11. CASE Look
    BY <1>5, <1>6, <1>11 DEF Look, Goes
  <1>12. CASE Call
    BY <1>5, <1>6, <1>12 DEF Call, Goes
  <1>13. CASE Replied
    BY <1>5, <1>6, <1>13 DEF Replied, Goes
  <1>14. CASE TakeRun \/ TakeWait \/ TakeDecomp
    BY <1>5, <1>8, <1>14 DEF TakeRun, TakeWait, TakeDecomp, Taking
  <1>15. CASE Deadline \/ Gone
    BY <1>5, <1>15 DEF Deadline, Gone
  <1>16. CASE Write
    <2>1. pc = "answered" /\ UNCHANGED <<hand, channel>> /\ told' = 0
      BY <1>16 DEF Write, watcher
    <2>2. watching = FALSE
      BY <1>2, <2>1 DEF Subscribed
    <2>3. told' <= cache.seq
      BY <1>2, <2>1
    <2> QED
      BY <1>7, <2>1, <2>2, <2>3
  <1> QED
    BY <1>9, <1>10, <1>11, <1>12, <1>13, <1>14, <1>15, <1>16 DEF Steps

\* Every step keeps the order.
LEMMA NextOrder ==
  ASSUME BridgeTypes, BridgeTypes', Subscribed, StopsAscend, [Next]_vars
  PROVE  StopsAscend'
  <1>1. CASE Next
    BY <1>1, ServerKeepsOrder, ReaderKeepsOrder, ToolKeepsOrder DEF Next
  <1>2. CASE UNCHANGED vars
    BY <1>2 DEF StopsAscend, vars, server, reader, watcher, serving
  <1> QED
    BY <1>1, <1>2

-----------------------------------------------------------------------------
(* The cache.                                                              *)

\* What the server sends while the program is as it was keeps the cache behind it.
LEMMA SendsFollow ==
  ASSUME BridgeTypes, CacheFollows, NEW msgs \in Seq(Msgs), Sends(msgs), UNCHANGED <<program, up, cache>>,
         \A i \in 1..Len(msgs) : msgs[i].kind # "running"
  PROVE  CacheFollows'
  <1>1. /\ Len(wire) \in Nat /\ Len(wire') \in Nat
        /\ \A i \in 1..Len(wire) : wire'[i] = wire[i]
        /\ \A i \in 1..Len(wire') : i > Len(wire) => wire'[i].kind # "running"
        /\ Len(wire') >= Len(wire)
    <2>1. wire \in Seq(Msgs) /\ up \in BOOLEAN
      BY DEF BridgeTypes, ServerTypes
    <2>2. /\ Len(wire) \in Nat /\ Len(msgs) \in Nat
          /\ Len(wire') = Len(wire) + (IF up THEN Len(msgs) ELSE 0)
          /\ \A i \in 1..Len(wire) : wire'[i] = wire[i]
          /\ \A i \in 1..Len(wire') : i > Len(wire) =>
                i - Len(wire) \in 1..Len(msgs) /\ wire'[i] = msgs[i - Len(wire)]
      BY <2>1, SendsGrows
    <2>3. Len(wire') \in Nat /\ Len(wire') >= Len(wire)
      BY <2>1, <2>2
    <2>4. \A i \in 1..Len(wire') : i > Len(wire) => wire'[i].kind # "running"
      BY <2>2
    <2> QED
      BY <2>2, <2>3, <2>4
  <1>2. SUFFICES ASSUME program.state \in Ends, up
                 PROVE  \/ /\ cache.state \in Ends
                           /\ \A i \in 1..Len(wire') : wire'[i].kind # "running"
                        \/ \E i \in 1..Len(wire') :
                              /\ wire'[i].kind \in Ends
                              /\ \A j \in 1..Len(wire') : j > i => wire'[j].kind # "running"
    BY DEF CacheFollows
  <1>3. CASE cache.state \in Ends /\ \A i \in 1..Len(wire) : wire[i].kind # "running"
    BY <1>1, <1>3
  <1>4. ASSUME NEW i \in 1..Len(wire), wire[i].kind \in Ends,
               \A j \in 1..Len(wire) : j > i => wire[j].kind # "running"
        PROVE  \E k \in 1..Len(wire') :
                  /\ wire'[k].kind \in Ends
                  /\ \A j \in 1..Len(wire') : j > k => wire'[j].kind # "running"
    <2>1. i \in 1..Len(wire') /\ wire'[i].kind \in Ends
      BY <1>1, <1>4
    <2>2. \A j \in 1..Len(wire') : j > i => wire'[j].kind # "running"
      BY <1>1, <1>4
    <2> QED
      BY <2>1, <2>2
  <1> QED
    BY <1>2, <1>3, <1>4 DEF CacheFollows

\* Every step keeps the cache behind the program, with what tells the rest on
\* its way.
LEMMA NextFollows ==
  ASSUME BridgeTypes, BridgeTypes', CacheFollows, OneReply, [Next]_vars
  PROVE  CacheFollows'
  <1>1. wire \in Seq(Msgs) /\ up \in BOOLEAN /\ program \in RunStates /\ cache \in RunStates
    BY DEF BridgeTypes, ServerTypes, ReaderTypes
  <1>2. ASSUME program'.state \notin Ends \/ ~up' PROVE CacheFollows'
    BY <1>2 DEF CacheFollows
  <1>3. ASSUME NEW m \in Msgs, Sends(<<m>>), UNCHANGED <<program, up, cache>>, m.kind # "running"
        PROVE  CacheFollows'
    <2>1. <<m>> \in Seq(Msgs) /\ Len(<<m>>) = 1 /\ <<m>>[1] = m
      OBVIOUS
    <2>2. \A i \in 1..Len(<<m>>) : <<m>>[i].kind # "running"
      BY <1>3, <2>1
    <2> QED
      BY <1>3, <2>1, <2>2, SendsFollow
  <1>4. CASE UNCHANGED <<program, up, wire, cache>>
    BY <1>4 DEF CacheFollows
  <1>5. CASE Stops
    <2>1. PICK end \in Ends : Sends(<<Event(end, program'.seq)>>) /\ up' = up /\ program'.seq \in Nat
      <3>1. program'.seq \in Nat
        BY DEF BridgeTypes, ServerTypes, RunStates
      <3> QED
        BY <1>5, <3>1 DEF Stops, Ends
    <2>2. Event(end, program'.seq) \in Msgs /\ Event(end, program'.seq).kind = end
      <3>1. end \in EventKinds
        BY DEF Ends, EventKinds
      <3> QED
        BY <2>1, <3>1, EventTypes
    <2>3. <<Event(end, program'.seq)>> \in Seq(Msgs) /\ Len(<<Event(end, program'.seq)>>) = 1
          /\ <<Event(end, program'.seq)>>[1] = Event(end, program'.seq)
      BY <2>2
    <2>4. up => Len(wire') = Len(wire) + 1 /\ wire'[Len(wire) + 1] = Event(end, program'.seq) /\ Len(wire) \in Nat
      <3> DEFINE ms == <<Event(end, program'.seq)>>
      <3>1. ms \in Seq(Msgs) /\ Len(ms) = 1 /\ ms[1] = Event(end, program'.seq) /\ Sends(ms)
        BY <2>1, <2>3
      <3> HIDE DEF ms
      <3>2. /\ Len(wire) \in Nat
            /\ Len(wire') = Len(wire) + (IF up THEN Len(ms) ELSE 0)
            /\ \A i \in 1..Len(ms) : up => wire'[Len(wire) + i] = ms[i]
        BY <1>1, <3>1, SendsGrows
      <3> QED
        BY <3>1, <3>2
    <2>5. up => \E i \in 1..Len(wire') :
                   /\ wire'[i].kind \in Ends
                   /\ \A j \in 1..Len(wire') : j > i => wire'[j].kind # "running"
      BY <2>2, <2>4
    <2> QED
      BY <2>1, <2>5 DEF CacheFollows
  <1>6. CASE Resumes
    <2>1. program'.state = "running"
      BY <1>1, <1>6 DEF Resumes, RunStates
    <2> QED
      BY <1>2, <2>1 DEF Ends
  <1>7. CASE Unloads
    <2>1. program'.state = "noProgram"
      BY <1>1, <1>7 DEF Unloads, RunStates
    <2> QED
      BY <1>2, <2>1 DEF Ends
  <1>8. CASE Chatters
    <2>1. /\ Event("console", 0) \in Msgs /\ Event("console", 0).kind # "running"
          /\ Event("decompChanged", 0) \in Msgs /\ Event("decompChanged", 0).kind # "running"
      BY EventTypes DEF EventKinds
    <2>2. Sends(<<Event("console", 0)>>) \/ Sends(<<Event("decompChanged", 0)>>)
      BY <1>8 DEF Chatters
    <2>3. UNCHANGED <<program, up, cache>>
      BY <1>8 DEF Chatters, reader
    <2> QED
      BY <1>3, <2>1, <2>2, <2>3
  <1>9. CASE Answers
    <2>1. CASE program' = [program EXCEPT !.state = "running"]
      <3>1. program'.state = "running"
        BY <1>1, <2>1 DEF RunStates
      <3> QED
        BY <1>2, <3>1 DEF Ends
    <2>2. CASE program' = program /\ \E ok \in BOOLEAN, state \in {"", decomp'} : Sends(<<Reply(ok, state)>>)
      <3>1. PICK ok \in BOOLEAN, state \in {"", decomp'} : Sends(<<Reply(ok, state)>>)
        BY <2>2
      <3>2. state \in Statuses \cup {""}
        BY DEF BridgeTypes, ServerTypes
      <3>3. Reply(ok, state) \in Msgs /\ Reply(ok, state).kind # "running"
        BY <3>2, ReplyTypes
      <3>4. UNCHANGED <<up, cache>>
        BY <1>9 DEF Answers, reader
      <3> QED
        BY <1>3, <2>2, <3>1, <3>3, <3>4
    <2>3. \/ program' = [program EXCEPT !.state = "running"]
          \/ program' = program /\ (\/ Sends(<<Reply(FALSE, "")>>)
                                    \/ Sends(<<Reply(TRUE, "")>>)
                                    \/ Sends(<<Reply(TRUE, decomp')>>))
      BY <1>9 DEF Answers
    <2> QED
      BY <2>1, <2>2, <2>3
  <1>10. CASE Disconnects
    BY <1>2, <1>10 DEF Disconnects
  <1>11. CASE Read
    <2>1. /\ Len(wire) \in Nat \ {0} /\ Head(wire) = wire[1]
          /\ Len(wire') = Len(wire) - 1
          /\ \A i \in 1..Len(wire') : wire'[i] = wire[i + 1]
      BY <1>1, <1>11, TailFacts DEF Read
    <2>2. UNCHANGED <<program, up>>
      BY <1>11 DEF Read, server
    <2>3. \/ cache'.state = IF wire[1].kind \in {"stopped", "running", "exited"} THEN wire[1].kind ELSE cache.state
          \/ cache' = cache /\ wire[1].kind = ""
      <3>1. CASE Head(wire).event /\ Deliver(Head(wire))
        BY <2>1, <3>1 DEF Deliver, CacheOf
      <3>2. CASE ~Head(wire).event /\ UNCHANGED cache
        <4>1. 1 \in 1..Len(wire) /\ ~wire[1].event
          BY <2>1, <3>2
        <4>2. wire[1].kind = ""
          BY <4>1 DEF OneReply
        <4> QED
          BY <3>2, <4>2
      <3> QED
        BY <1>11, <3>1, <3>2 DEF Read
    <2>4. SUFFICES ASSUME program.state \in Ends, up
                   PROVE  \/ /\ cache'.state \in Ends
                             /\ \A i \in 1..Len(wire') : wire'[i].kind # "running"
                          \/ \E i \in 1..Len(wire') :
                                /\ wire'[i].kind \in Ends
                                /\ \A j \in 1..Len(wire') : j > i => wire'[j].kind # "running"
      BY <2>2 DEF CacheFollows
    <2>5. CASE cache.state \in Ends /\ \A i \in 1..Len(wire) : wire[i].kind # "running"
      <3>1. wire[1].kind # "running"
        BY <2>1, <2>5
      <3>2. cache'.state \in Ends
        BY <2>3, <2>5, <3>1 DEF Ends
      <3>3. \A i \in 1..Len(wire') : wire'[i].kind # "running"
        BY <2>1, <2>5
      <3> QED
        BY <3>2, <3>3
    <2>6. ASSUME NEW i \in 1..Len(wire), wire[i].kind \in Ends,
                 \A j \in 1..Len(wire) : j > i => wire[j].kind # "running"
          PROVE  \/ /\ cache'.state \in Ends
                    /\ \A k \in 1..Len(wire') : wire'[k].kind # "running"
                 \/ \E k \in 1..Len(wire') :
                       /\ wire'[k].kind \in Ends
                       /\ \A j \in 1..Len(wire') : j > k => wire'[j].kind # "running"
      <3>1. CASE i = 1
        <4>1. cache'.state \in Ends
          BY <2>3, <2>6, <3>1 DEF Ends
        <4>2. \A k \in 1..Len(wire') : wire'[k].kind # "running"
          BY <2>1, <2>6, <3>1
        <4> QED
          BY <4>1, <4>2
      <3>2. CASE i > 1
        <4>1. i - 1 \in 1..Len(wire') /\ wire'[i - 1].kind \in Ends
          BY <2>1, <2>6, <3>2
        <4>2. \A j \in 1..Len(wire') : j > i - 1 => wire'[j].kind # "running"
          BY <2>1, <2>6, <3>2
        <4> QED
          BY <4>1, <4>2
      <3>3. i = 1 \/ i > 1
        BY <2>1
      <3> QED
        BY <3>1, <3>2, <3>3
    <2> QED
      BY <2>4, <2>5, <2>6 DEF CacheFollows
  <1>12. CASE Push
    BY <1>4, <1>12 DEF Push, server
  <1>13. CASE ReadFails
    BY <1>2, <1>13 DEF ReadFails
  <1>14. CASE (\E kind \in Kinds : CallTool(kind)) \/ Steps \/ Deadline
    <2>1. UNCHANGED <<program, up, wire, cache>>
      BY <1>14 DEF CallTool, Steps, Watch, Look, Call, Replied, TakeRun, TakeWait, TakeDecomp, Taking,
                   Gone, Write, Deadline, server, reader
    <2> QED
      BY <1>4, <2>1
  <1>15. CASE UNCHANGED vars
    BY <1>4, <1>15 DEF vars, server, reader
  <1> QED
    BY <1>5, <1>6, <1>7, <1>8, <1>9, <1>10, <1>11, <1>12, <1>13, <1>14, <1>15 DEF Next

-----------------------------------------------------------------------------
(* Requests and replies.                                                   *)

\* Events disturb neither the question nor the reply to it.
LEMMA SendsEvents ==
  ASSUME BridgeTypes, OneReply, NEW m \in Msgs, Sends(<<m>>), m.event,
         UNCHANGED <<asked, up, pc, tool, inbox, dead>>
  PROVE  OneReply'
  <1> DEFINE ms == <<m>>
  <1>1. wire \in Seq(Msgs) /\ up \in BOOLEAN /\ ms \in Seq(Msgs) /\ Len(ms) = 1 /\ ms[1] = m
    BY DEF BridgeTypes, ServerTypes
  <1>2. Sends(ms)
    OBVIOUS
  <1> HIDE DEF ms
  <1>3. /\ Len(wire) \in Nat /\ Len(wire') \in Nat
        /\ \A i \in 1..Len(wire) : wire'[i] = wire[i]
        /\ \A i \in 1..Len(wire') : i > Len(wire) => i - Len(wire) \in 1..Len(ms) /\ wire'[i] = ms[i - Len(wire)]
    BY <1>1, <1>2, SendsGrows
  <1>4. \A i \in 1..Len(wire') : ~wire'[i].event => i \in 1..Len(wire) /\ wire'[i] = wire[i]
    BY <1>1, <1>3
  <1>5. ~up => wire' = wire
    BY DEF Sends
  <1>6. asked # "none" => \A i \in 1..Len(wire') : wire'[i].event
    BY <1>4 DEF OneReply
  <1>7. \A i \in 1..Len(wire') : ~wire'[i].event => pc = "replying" /\ inbox = <<>> /\ wire'[i].kind = ""
    BY <1>4 DEF OneReply
  <1>8. \A i, j \in 1..Len(wire') : ~wire'[i].event /\ ~wire'[j].event => i = j
    BY <1>4 DEF OneReply
  <1> QED
    BY <1>5, <1>6, <1>7, <1>8 DEF OneReply

\* Of several messages only the last is a reply.
ReplyLast(msgs) == \A i \in 1..Len(msgs) : ~msgs[i].event => i = Len(msgs) /\ msgs[i].kind = ""

\* The reply goes out last, after nothing but events.
LEMMA SendsReply ==
  ASSUME BridgeTypes, OneReply, NEW msgs \in Seq(Msgs), Sends(msgs), asked # "none", asked' = "none",
         UNCHANGED <<up, pc, tool, inbox, dead>>, ReplyLast(msgs)
  PROVE  OneReply'
  <1>1. wire \in Seq(Msgs) /\ up \in BOOLEAN
    BY DEF BridgeTypes, ServerTypes
  <1>2. /\ pc = "replying" /\ up /\ inbox = <<>>
        /\ \A i \in 1..Len(wire) : wire[i].event
    BY DEF OneReply
  <1>3. /\ Len(wire) \in Nat /\ Len(msgs) \in Nat /\ wire' \in Seq(Msgs)
        /\ \A i \in 1..Len(wire) : wire'[i] = wire[i]
        /\ \A i \in 1..Len(wire') : i > Len(wire) => i - Len(wire) \in 1..Len(msgs) /\ wire'[i] = msgs[i - Len(wire)]
    BY <1>1, SendsGrows
  <1>8. Len(wire) \in Nat /\ Len(wire') \in Nat /\ Len(msgs) \in Nat
    <2>1. wire' \in Seq(Msgs)
      BY <1>3
    <2> QED
      BY <1>1, <2>1
  <1>4. \A i \in 1..Len(wire') : ~wire'[i].event => i = Len(wire) + Len(msgs) /\ wire'[i].kind = ""
    <2> SUFFICES ASSUME NEW i \in 1..Len(wire'), ~wire'[i].event
                 PROVE  i = Len(wire) + Len(msgs) /\ wire'[i].kind = ""
      OBVIOUS
    <2>1. i > Len(wire)
      <3>1. CASE i \in 1..Len(wire)
        <4>1. wire[i].event /\ wire'[i] = wire[i]
          BY <1>2, <1>3, <3>1
        <4> QED
          BY <4>1
      <3>2. i \in Nat /\ i >= 1
        BY <1>8
      <3>3. i \in 1..Len(wire) \/ i > Len(wire)
        BY <1>8, <3>2
      <3> QED
        BY <3>1, <3>3
    <2>2. i - Len(wire) \in 1..Len(msgs) /\ wire'[i] = msgs[i - Len(wire)]
      BY <1>3, <2>1
    <2>3. ~msgs[i - Len(wire)].event
      BY <2>2
    <2>4. i - Len(wire) = Len(msgs) /\ wire'[i].kind = ""
      BY <2>2, <2>3 DEF ReplyLast
    <2>5. i = Len(wire) + Len(msgs)
      <3>1. i \in Nat
        BY <1>8
      <3>2. i - Len(wire) = Len(msgs)
        BY <2>4
      <3> QED
        BY <1>8, <3>1, <3>2
    <2> QED
      BY <2>4, <2>5
  <1>5. ~dead
    BY <1>2 DEF OneReply
  <1>6. \A i, j \in 1..Len(wire') : ~wire'[i].event /\ ~wire'[j].event => i = j
    BY <1>4
  <1>7. \A i \in 1..Len(inbox') : ~inbox'[i].event
    BY DEF OneReply
  <1> QED
    BY <1>2, <1>4, <1>5, <1>6, <1>7 DEF OneReply

\* Every step keeps one question, or one reply to it.
LEMMA NextOneReply ==
  ASSUME BridgeTypes, BridgeTypes', OneReply, [Next]_vars
  PROVE  OneReply'
  <1>1. /\ wire \in Seq(Msgs) /\ up \in BOOLEAN /\ tool \in Kinds /\ inbox \in Seq(Msgs) /\ Len(inbox) <= 1
        /\ decomp' \in Statuses /\ program'.seq \in Nat
        /\ hand \in Seq([ev : Msgs, to : BOOLEAN]) /\ Len(hand) <= 1
    BY DEF BridgeTypes, ServerTypes, ReaderTypes, ToolTypes, RunStates
  <1>2. CASE UNCHANGED <<asked, wire, up, inbox, dead, pc, tool>>
    BY <1>2 DEF OneReply
  <1>3. ASSUME NEW kind \in EventKinds, NEW n \in Nat, Sends(<<Event(kind, n)>>),
               UNCHANGED <<asked, up, pc, tool, inbox, dead>>
        PROVE  OneReply'
    BY <1>3, EventTypes, SendsEvents
  <1>4. CASE Stops
    <2>1. PICK end \in Ends : Sends(<<Event(end, program'.seq)>>)
      BY <1>4 DEF Stops, Ends
    <2>2. UNCHANGED <<asked, up, pc, tool, inbox, dead>>
      BY <1>4 DEF Stops, reader, serving
    <2>3. end \in EventKinds
      BY DEF Ends, EventKinds
    <2> QED
      BY <1>1, <1>3, <2>1, <2>2, <2>3
  <1>5. CASE Resumes \/ Unloads \/ Chatters
    <2>1. UNCHANGED <<asked, up, pc, tool, inbox, dead>>
      BY <1>5 DEF Resumes, Unloads, Chatters, reader, serving
    <2>2. PICK kind \in EventKinds : Sends(<<Event(kind, 0)>>)
      BY <1>5 DEF Resumes, Unloads, Chatters, EventKinds
    <2> QED
      BY <1>3, <2>1, <2>2
  <1>6. CASE Answers
    <2>1. asked # "none" /\ asked' = "none" /\ UNCHANGED <<up, pc, tool, inbox, dead>>
      BY <1>6 DEF Answers, reader, serving
    <2>2. ASSUME NEW ok \in BOOLEAN, NEW st \in Statuses \cup {""}, Sends(<<Reply(ok, st)>>)
          PROVE  OneReply'
      <3>1. Reply(ok, st) \in Msgs /\ Reply(ok, st).kind = ""
        BY ReplyTypes
      <3>2. PICK m \in Msgs : m = Reply(ok, st)
        BY <3>1
      <3> DEFINE ms == <<m>>
      <3>3. ms \in Seq(Msgs) /\ Len(ms) = 1 /\ ms[1] = m
        BY OneMessage, Zenon
      <3>4. m.kind = "" /\ Sends(ms)
        BY <2>2, <3>1, <3>2
      <3> HIDE DEF ms
      <3>5. ReplyLast(ms)
        <4>1. \A i \in 1..1 : i = 1
          BY OneMessage, Zenon
        <4> QED
          BY <3>3, <3>4, <4>1, Zenon DEF ReplyLast
      <3> QED
        BY <2>1, <3>3, <3>4, <3>5, SendsReply
    <2>3. ASSUME NEW ok \in BOOLEAN, Sends(<<Event("running", 0), Reply(ok, "")>>)
          PROVE  OneReply'
      <3>1. Event("running", 0) \in Msgs /\ Event("running", 0).event = TRUE
        BY EventTypes DEF EventKinds
      <3>2. Reply(ok, "") \in Msgs /\ Reply(ok, "").kind = ""
        BY ReplyTypes
      <3>3. PICK m \in Msgs : m = Event("running", 0)
        BY <3>1
      <3>4. PICK n \in Msgs : n = Reply(ok, "")
        BY <3>2
      <3> DEFINE ms == <<m, n>>
      <3>5. ms \in Seq(Msgs) /\ Len(ms) = 2 /\ ms[1] = m /\ ms[2] = n
        OBVIOUS
      <3>6. m.event /\ n.kind = "" /\ Sends(ms)
        BY <2>3, <3>1, <3>2, <3>3, <3>4
      <3> HIDE DEF ms
      <3>7. ReplyLast(ms)
        <4> SUFFICES ASSUME NEW i \in 1..Len(ms), ~ms[i].event PROVE i = Len(ms) /\ ms[i].kind = ""
          BY DEF ReplyLast
        <4>1. i # 1
          BY <3>5, <3>6
        <4>2. i = 2
          BY <3>5, <4>1
        <4> QED
          BY <3>5, <3>6, <4>2
      <3> QED
        BY <2>1, <3>5, <3>6, <3>7, SendsReply
    <2>4. \/ \E ok \in BOOLEAN : Sends(<<Event("running", 0), Reply(ok, "")>>)
          \/ Sends(<<Reply(FALSE, "")>>)
          \/ Sends(<<Reply(TRUE, "")>>)
          \/ Sends(<<Reply(TRUE, decomp')>>)
      BY <1>6 DEF Answers
    <2> QED
      BY <1>1, <2>2, <2>3, <2>4
  <1>7. CASE Disconnects
    BY <1>7 DEF Disconnects, OneReply, server, reader, serving
  <1>8. CASE Read
    <2>1. /\ Len(wire) \in Nat \ {0} /\ Head(wire) = wire[1]
          /\ Len(wire') = Len(wire) - 1 /\ wire' = Tail(wire)
          /\ \A i \in 1..Len(wire') : wire'[i] = wire[i + 1]
      BY <1>1, <1>8, TailFacts DEF Read
    <2>2. UNCHANGED <<asked, up, dead, pc, tool>> /\ ~dead
      BY <1>8 DEF Read, serving
    <2>3. 1 \in 1..Len(wire) /\ \A i \in 1..Len(wire') : i + 1 \in 1..Len(wire)
      BY <2>1
    <2>4. CASE inbox' = inbox
      <3>1. asked # "none" => \A i \in 1..Len(wire') : wire'[i].event
        BY <2>1, <2>3 DEF OneReply
      <3>2. \A i \in 1..Len(wire') : ~wire'[i].event => pc = "replying" /\ inbox = <<>> /\ wire'[i].kind = ""
        <4> SUFFICES ASSUME NEW i \in 1..Len(wire'), ~wire'[i].event
                     PROVE  pc = "replying" /\ inbox = <<>> /\ wire'[i].kind = ""
          OBVIOUS
        <4>1. i + 1 \in 1..Len(wire) /\ wire'[i] = wire[i + 1]
          BY <2>1, <2>3
        <4>2. ~wire[i + 1].event
          BY <4>1
        <4>3. pc = "replying" /\ inbox = <<>> /\ wire[i + 1].kind = ""
          BY <4>1, <4>2 DEF OneReply
        <4> QED
          BY <4>1, <4>3
      <3>3. ASSUME NEW i \in 1..Len(wire'), NEW j \in 1..Len(wire'), ~wire'[i].event, ~wire'[j].event
            PROVE  i = j
        <4>1. i + 1 = j + 1
          BY <2>1, <2>3, <3>3 DEF OneReply
        <4> QED
          BY <4>1
      <3> QED
        BY <2>2, <2>4, <3>1, <3>2, <3>3 DEF OneReply
    <2>5. CASE ~Head(wire).event /\ inbox' = <<Head(wire)>>
      <3>1. ~wire[1].event
        BY <2>1, <2>5
      <3>2. asked = "none"
        BY <2>3, <3>1 DEF OneReply
      <3>3. ASSUME NEW i \in 1..Len(wire') PROVE wire'[i].event
        <4>1. i + 1 \in 1..Len(wire) /\ i + 1 # 1
          BY <2>3
        <4> QED
          BY <2>1, <2>3, <3>1, <4>1 DEF OneReply
      <3>4. \A i \in 1..Len(inbox') : ~inbox'[i].event
        BY <2>5
      <3> QED
        BY <2>2, <3>2, <3>3, <3>4 DEF OneReply
    <2> QED
      BY <1>8, <2>4, <2>5 DEF Read
  <1>9. CASE Push
    BY <1>2, <1>9 DEF Push, server, serving
  <1>10. CASE ReadFails
    <2>1. UNCHANGED <<asked, up, inbox, pc, tool>> /\ dead' = TRUE /\ ~up /\ wire' = <<>>
      BY <1>10 DEF ReadFails, serving
    <2>2. \A i \in 1..Len(wire') : FALSE
      BY <2>1
    <2> QED
      BY <2>1, <2>2 DEF OneReply
  <1>11. ASSUME pc # "replying", UNCHANGED <<asked, wire, up, dead>>, inbox' = inbox \/ inbox' = <<>>
         PROVE  OneReply'
    <2>1. asked = "none" /\ \A i \in 1..Len(wire) : wire[i].event
      BY <1>11 DEF OneReply
    <2>2. \A i \in 1..Len(inbox') : ~inbox'[i].event
      <3>1. CASE inbox' = <<>>
        BY <3>1
      <3>2. CASE inbox' = inbox
        BY <3>2 DEF OneReply
      <3> QED
        BY <1>11, <3>1, <3>2
    <2> QED
      BY <1>11, <2>1, <2>2 DEF OneReply
  <1>12. CASE \E kind \in Kinds : CallTool(kind)
    BY <1>11, <1>12 DEF CallTool, reader
  <1>13. CASE Watch
    BY <1>11, <1>13 DEF Watch, reader
  <1>14. CASE Look
    BY <1>11, <1>14 DEF Look
  <1>15. CASE Call
    <2>1. pc = "call" /\ inbox' = <<>> /\ UNCHANGED <<wire, up, dead>>
      BY <1>15 DEF Call
    <2>2. CASE UNCHANGED asked
      BY <1>11, <2>1, <2>2
    <2>3. CASE ~dead /\ Goes("replying") /\ asked' = IF up THEN tool ELSE "none"
      <3>1. \A i \in 1..Len(wire) : wire[i].event
        BY <2>1 DEF OneReply
      <3>2. pc' = "replying" /\ tool' = tool
        BY <2>3 DEF Goes
      <3>3. \A i \in 1..Len(inbox') : FALSE
        BY <2>1
      <3> QED
        BY <2>1, <2>3, <3>1, <3>2, <3>3 DEF OneReply
    <2> QED
      BY <1>15, <2>2, <2>3 DEF Call
  <1>16. CASE Replied
    <2>1. UNCHANGED <<asked, wire, up, inbox, dead>> /\ (inbox # <<>> \/ dead)
      BY <1>16 DEF Replied
    <2>2. asked = "none" /\ \A i \in 1..Len(wire) : wire[i].event
      <3>1. CASE inbox # <<>>
        BY <3>1 DEF OneReply
      <3>2. CASE dead
        <4>1. ~up /\ wire = <<>>
          BY <3>2 DEF OneReply
        <4>2. \A i \in 1..Len(wire) : FALSE
          BY <4>1
        <4> QED
          BY <4>1, <4>2 DEF OneReply
      <3> QED
        BY <2>1, <3>1, <3>2
    <2> QED
      BY <2>1, <2>2 DEF OneReply
  <1>17. CASE TakeRun \/ TakeWait \/ TakeDecomp \/ Deadline \/ Gone
    BY <1>11, <1>17 DEF TakeRun, TakeWait, TakeDecomp, Taking, Deadline, Gone
  <1>18. CASE Write
    BY <1>11, <1>18 DEF Write
  <1>19. CASE UNCHANGED vars
    BY <1>2, <1>19 DEF vars, reader, serving
  <1> QED
    BY <1>4, <1>5, <1>6, <1>7, <1>8, <1>9, <1>10, <1>12, <1>13, <1>14, <1>15, <1>16, <1>17, <1>18, <1>19
       DEF Next, Steps

-----------------------------------------------------------------------------
(* What a tool waits for.                                                  *)

\* One of the messages ends the wait.
Brings(msgs) == \E i \in 1..Len(msgs) : Awaited(msgs[i])

\* None of the messages lets a tool wait for what has happened by then.
LetsNoneWait(msgs) == \A i \in 1..Len(msgs) : ~(LetsWait(msgs[i]) /\ Due')

\* What the server sends overlooks no tool, when what the step makes due was due
\* or is among it.
LEMMA SendsOverlookNone ==
  ASSUME BridgeTypes, NoneOverlooked, NEW msgs \in Seq(Msgs), Sends(msgs),
         UNCHANGED <<up, reader, watcher, serving>>,
         Due' => Due \/ Brings(msgs), LetsNoneWait(msgs)
  PROVE  NoneOverlooked'
  <1>1. wire \in Seq(Msgs) /\ up \in BOOLEAN
    BY DEF BridgeTypes, ServerTypes
  <1>2. /\ Len(wire) \in Nat /\ Len(msgs) \in Nat /\ wire' \in Seq(Msgs)
        /\ Len(wire') = Len(wire) + (IF up THEN Len(msgs) ELSE 0)
        /\ \A i \in 1..Len(wire) : wire'[i] = wire[i]
        /\ \A i \in 1..Len(msgs) : up => wire'[Len(wire) + i] = msgs[i]
        /\ \A i \in 1..Len(wire') : i > Len(wire) =>
              i - Len(wire) \in 1..Len(msgs) /\ wire'[i] = msgs[i - Len(wire)]
    BY <1>1, SendsGrows
  <1>3. UNCHANGED <<up, inbox, hand, channel, dropped, tool, pc>>
    BY DEF reader, watcher, serving
  <1>4. /\ \A ev : Awaited(ev)' = Awaited(ev)
        /\ \A r : LetsWait(r)' = LetsWait(r)
    BY <1>3 DEF Awaited, LetsWait
  <1>5. \A i \in 1..Len(wire) : i \in 1..Len(wire')
    BY <1>2
  <1>6. Coming => Coming'
    BY <1>2, <1>3, <1>5 DEF Coming, Awaited
  <1>7. ASSUME Brings(msgs), up PROVE \E j \in 1..Len(wire') : j > Len(wire) /\ Awaited(wire'[j])
    <2>1. PICK i \in 1..Len(msgs) : Awaited(msgs[i])
      BY <1>7 DEF Brings
    <2>2. /\ Len(wire) + i \in 1..Len(wire') /\ Len(wire) + i > Len(wire)
          /\ wire'[Len(wire) + i] = msgs[i]
      BY <1>2, <1>7
    <2> QED
      BY <2>1, <2>2
  <1>8. Brings(msgs) => Coming'
    <2>1. ASSUME NEW j \in 1..Len(wire'), Awaited(wire'[j]) PROVE Coming'
      BY <1>3, <2>1 DEF Coming, Awaited
    <2>2. ~up => Coming'
      BY <1>3 DEF Coming
    <2> QED
      BY <1>7, <2>1, <2>2
  <1>9. (pc = "waiting" /\ Due => Coming)' 
    BY <1>3, <1>6, <1>8 DEF NoneOverlooked
  <1>10. (pc = "replying" /\ (\E i \in 1..Len(inbox) : LetsWait(inbox[i])) /\ Due => Coming)'
    BY <1>3, <1>6, <1>8 DEF NoneOverlooked, LetsWait
  <1>11. ASSUME NEW i \in 1..Len(wire'), LetsWait(wire[i])', Due', up
         PROVE  \E j \in 1..Len(wire') : j > i /\ Awaited(wire'[j])
    <2>1. LetsWait(wire'[i])
      BY <1>3, <1>11 DEF LetsWait
    <2>2. i \in 1..Len(wire)
      <3>1. CASE i > Len(wire)
        <4>1. i - Len(wire) \in 1..Len(msgs) /\ wire'[i] = msgs[i - Len(wire)]
          BY <1>2, <3>1
        <4> QED
          BY <1>11, <2>1, <4>1 DEF LetsNoneWait
      <3> QED
        BY <1>2, <3>1
    <2>3. CASE Brings(msgs)
      <3>1. PICK j \in 1..Len(wire') : j > Len(wire) /\ Awaited(wire'[j])
        BY <1>7, <1>11, <2>3
      <3>2. j > i
        BY <1>2, <2>2, <3>1
      <3> QED
        BY <3>1, <3>2
    <2>4. CASE Due
      <3>1. LetsWait(wire[i])
        BY <1>2, <2>1, <2>2
      <3>2. PICK j \in 1..Len(wire) : j > i /\ Awaited(wire[j])
        BY <1>11, <2>2, <2>4, <3>1 DEF NoneOverlooked
      <3>3. j \in 1..Len(wire') /\ wire'[j] = wire[j]
        BY <1>2, <1>5
      <3> QED
        BY <3>2, <3>3
    <2> QED
      BY <1>11, <2>3, <2>4
  <1>12. (\A i \in 1..Len(wire) : LetsWait(wire[i]) /\ Due /\ up =>
             \E j \in 1..Len(wire) : j > i /\ Awaited(wire[j]))'
    BY <1>3, <1>11 DEF Awaited
  <1> QED
    BY <1>9, <1>10, <1>12 DEF NoneOverlooked

\* The steps of the server overlook no tool.
LEMMA ServerOverlooksNone ==
  ASSUME BridgeTypes, BridgeTypes', OneReply, NoneOverlooked,
         Stops \/ Resumes \/ Unloads \/ Chatters \/ Answers \/ Disconnects
  PROVE  NoneOverlooked'
  <1>1. /\ tool \in Kinds /\ program \in RunStates /\ program'.seq \in Nat
        /\ decomp \in Statuses /\ decomp' \in Statuses
    BY DEF BridgeTypes, ServerTypes, ToolTypes, RunStates
  <1>2. UNCHANGED <<reader, watcher, serving>> /\ tool' = tool
    BY DEF Stops, Resumes, Unloads, Chatters, Answers, Disconnects, serving
  <1>3. ASSUME NEW m \in Msgs, Sends(<<m>>), UNCHANGED up,
               Due' => Due \/ Awaited(m), m.event \/ ~m.ok \/ m.state \in {"ready", "failed"} \/ ~Due'
        PROVE  NoneOverlooked'
    <2> DEFINE ms == <<m>>
    <2>1. ms \in Seq(Msgs) /\ Len(ms) = 1 /\ ms[1] = m /\ Sends(ms)
      BY <1>3, OneMessage, Zenon
    <2> HIDE DEF ms
    <2>2. \A i \in 1..Len(ms) : ms[i] = m
      BY <2>1
    <2>3. Awaited(m) => Brings(ms)
      BY <2>1 DEF Brings
    <2>4. ~(LetsWait(m) /\ Due')
      BY <1>3 DEF LetsWait
    <2>5. LetsNoneWait(ms)
      BY <2>2, <2>4 DEF LetsNoneWait
    <2> QED
      BY <1>2, <1>3, <2>1, <2>3, <2>5, SendsOverlookNone
  <1>4. ASSUME NEW kind \in EventKinds, NEW n \in Nat, Sends(<<Event(kind, n)>>), UNCHANGED up,
               Due' => Due \/ Awaited(Event(kind, n))
        PROVE  NoneOverlooked'
    BY <1>3, <1>4, EventTypes
  <1>5. CASE Stops
    <2>1. PICK end \in Ends : Sends(<<Event(end, program'.seq)>>) /\ UNCHANGED <<up, decomp>>
      BY <1>5 DEF Stops, Ends
    <2>2. end \in EventKinds
      BY DEF Ends, EventKinds
    <2>3. Event(end, program'.seq).kind = end
      BY <1>1, <2>2, EventTypes
    <2>4. Due' => Due \/ Awaited(Event(end, program'.seq))
      BY <1>2, <2>1, <2>3 DEF Due, Awaited
    <2> QED
      BY <1>1, <1>4, <2>1, <2>2, <2>4
  <1>6. CASE Resumes
    <2>1. program'.state = "running" /\ UNCHANGED <<up, decomp>> /\ Sends(<<Event("running", 0)>>)
      BY <1>1, <1>6 DEF Resumes, RunStates
    <2>2. Due' => Due
      BY <1>2, <2>1 DEF Due, Ends
    <2> QED
      BY <1>4, <2>1, <2>2 DEF EventKinds
  <1>7. CASE Unloads
    <2>1. program'.state = "noProgram" /\ UNCHANGED <<up, decomp>>
      BY <1>1, <1>7 DEF Unloads, RunStates
    <2>2. Due' => Due
      BY <1>2, <2>1 DEF Due, Ends
    <2> QED
      BY <1>4, <1>7, <2>1, <2>2 DEF Unloads, EventKinds
  <1>8. CASE Chatters
    <2>1. UNCHANGED <<program, up>>
      BY <1>8 DEF Chatters
    <2>2. CASE Sends(<<Event("console", 0)>>) /\ UNCHANGED decomp
      <3>1. Due' => Due
        BY <1>2, <2>1, <2>2 DEF Due
      <3> QED
        BY <1>4, <2>1, <2>2, <3>1 DEF EventKinds
    <2>3. CASE Sends(<<Event("decompChanged", 0)>>)
      <3>1. Event("decompChanged", 0).kind = "decompChanged"
        BY EventTypes DEF EventKinds
      <3>2. Due' => Due \/ Awaited(Event("decompChanged", 0))
        BY <1>2, <2>1, <3>1 DEF Due, Awaited
      <3> QED
        BY <1>4, <2>1, <2>3, <3>2 DEF EventKinds
    <2> QED
      BY <1>8, <2>2, <2>3 DEF Chatters
  <1>9. CASE Answers
    <2>1. asked # "none" /\ asked = tool /\ UNCHANGED up
      BY <1>9 DEF Answers, OneReply
    <2>2. ASSUME NEW ok \in BOOLEAN, Sends(<<Event("running", 0), Reply(ok, "")>>), ~Due'
          PROVE  NoneOverlooked'
      <3>1. Event("running", 0) \in Msgs
        BY EventTypes DEF EventKinds
      <3>2. Reply(ok, "") \in Msgs
        BY ReplyTypes
      <3>3. <<Event("running", 0), Reply(ok, "")>> \in Seq(Msgs)
        BY <3>1, <3>2, OneMessage, Zenon
      <3>4. LetsNoneWait(<<Event("running", 0), Reply(ok, "")>>)
        BY <2>2 DEF LetsNoneWait
      <3> QED
        BY <1>2, <2>1, <2>2, <3>3, <3>4, SendsOverlookNone
    <2>3. CASE /\ asked = "exec" /\ program' = [program EXCEPT !.state = "running"]
               /\ \E ok \in BOOLEAN : Sends(<<Event("running", 0), Reply(ok, "")>>)
      <3>1. program'.state = "running"
        BY <1>1, <2>3 DEF RunStates
      <3>2. ~Due'
        BY <1>2, <2>1, <2>3, <3>1 DEF Due, Ends
      <3> QED
        BY <2>2, <2>3, <3>2
    <2>4. CASE asked = "exec" /\ Sends(<<Reply(FALSE, "")>>) /\ UNCHANGED <<program, decomp>>
      <3>1. Reply(FALSE, "") \in Msgs /\ ~Reply(FALSE, "").ok
        BY ReplyTypes
      <3>2. Due' => Due
        BY <1>2, <2>4 DEF Due
      <3> QED
        BY <1>3, <2>1, <2>4, <3>1, <3>2
    <2>5. CASE asked \in {"pause", "pass"} /\ Sends(<<Reply(TRUE, "")>>)
      <3>1. Reply(TRUE, "") \in Msgs
        BY ReplyTypes
      <3>2. ~Due'
        BY <1>2, <2>1, <2>5 DEF Due
      <3> QED
        BY <1>3, <2>1, <2>5, <3>1, <3>2
    <2>6. CASE asked = "decomp" /\ Sends(<<Reply(TRUE, decomp')>>)
               /\ decomp' = IF decomp = "off" THEN "starting" ELSE decomp
      <3>1. Reply(TRUE, decomp') \in Msgs /\ Reply(TRUE, decomp').state = decomp'
        BY <1>1, ReplyTypes
      <3>2. decomp' \in {"ready", "failed"} \/ ~Due'
        BY <1>1, <1>2, <2>1, <2>6 DEF Due, Statuses
      <3>3. Due' => Due
        BY <1>2, <2>1, <2>6 DEF Due
      <3> QED
        BY <1>3, <2>1, <2>6, <3>1, <3>2, <3>3
    <2> QED
      BY <1>9, <2>3, <2>4, <2>5, <2>6 DEF Answers
  <1>10. CASE Disconnects
    BY <1>10 DEF Disconnects, NoneOverlooked, Coming
  <1> QED
    BY <1>5, <1>6, <1>7, <1>8, <1>9, <1>10

\* The steps of the reader overlook no tool.
LEMMA ReaderOverlooksNone ==
  ASSUME BridgeTypes, Subscribed, OneReply, NoneOverlooked, Read \/ Push \/ ReadFails
  PROVE  NoneOverlooked'
  <1>1. /\ wire \in Seq(Msgs) /\ tool \in Kinds
        /\ inbox \in Seq(Msgs) /\ Len(inbox) <= 1 /\ channel \in Seq(Msgs)
        /\ hand \in Seq([ev : Msgs, to : BOOLEAN]) /\ Len(hand) <= 1
    BY DEF BridgeTypes, ServerTypes, ReaderTypes, ToolTypes
  <1>2. UNCHANGED <<program, decomp, up, pc, tool>>
    BY DEF Read, Push, ReadFails, server, serving
  <1>3. /\ Due' = Due
        /\ \A ev : Awaited(ev)' = Awaited(ev)
        /\ \A r : LetsWait(r)' = LetsWait(r)
    BY <1>2 DEF Due, Awaited, LetsWait
  <1>4. CASE Read
    <2>1. /\ Len(wire) \in Nat \ {0} /\ Head(wire) = wire[1]
          /\ Len(wire') = Len(wire) - 1
          /\ \A i \in 1..Len(wire') : wire'[i] = wire[i + 1]
      BY <1>1, <1>4, TailFacts DEF Read
    <2>2. UNCHANGED <<watching, channel, dropped>> /\ hand = <<>>
      BY <1>4 DEF Read, watcher
    <2>3. \A i \in 1..Len(hand) : FALSE
      BY <2>2
    <2>4. \A i \in 1..Len(wire') : i + 1 \in 1..Len(wire)
      BY <2>1
    <2>5. ASSUME NEW i \in 1..Len(wire), Awaited(wire[i]), i > 1 PROVE Coming'
      <3>1. i - 1 \in 1..Len(wire') /\ wire'[i - 1] = wire[i]
        BY <2>1, <2>5
      <3> QED
        BY <1>2, <2>5, <3>1 DEF Coming, Awaited
    <2>6. (\A i \in 1..Len(wire) : LetsWait(wire[i]) /\ Due /\ up =>
              \E j \in 1..Len(wire) : j > i /\ Awaited(wire[j]))'
      <3> SUFFICES ASSUME NEW i \in 1..Len(wire'), LetsWait(wire[i])', Due', up'
                   PROVE  \E j \in 1..Len(wire') : j > i /\ Awaited(wire[j])'
        OBVIOUS
      <3>1. i + 1 \in 1..Len(wire) /\ wire'[i] = wire[i + 1]
        BY <2>1, <2>4
      <3>2. LetsWait(wire[i + 1]) /\ Due /\ up
        BY <1>2, <1>3, <3>1 DEF LetsWait
      <3>3. PICK j \in 1..Len(wire) : j > i + 1 /\ Awaited(wire[j])
        BY <3>1, <3>2 DEF NoneOverlooked
      <3>4. j - 1 \in 1..Len(wire') /\ j - 1 > i /\ wire'[j - 1] = wire[j]
        BY <2>1, <3>1, <3>3
      <3>5. Awaited(wire[j - 1])'
        BY <1>2, <3>3, <3>4 DEF Awaited
      <3> QED
        BY <3>4, <3>5
    <2>7. CASE Head(wire).event /\ hand' = <<[ev |-> Head(wire), to |-> watching]>> /\ UNCHANGED inbox
      <3>1. ASSUME Coming, watching PROVE Coming'
        <4>1. CASE Awaited(wire[1])
          <5>1. Len(hand') = 1 /\ hand'[1].to /\ hand'[1].ev = wire[1]
            BY <2>1, <2>7, <3>1
          <5> QED
            BY <1>2, <4>1, <5>1 DEF Coming, Awaited
        <4>2. CASE \E i \in 1..Len(wire) : Awaited(wire[i]) /\ ~Awaited(wire[1])
          <5>1. PICK i \in 1..Len(wire) : Awaited(wire[i]) /\ ~Awaited(wire[1])
            BY <4>2
          <5>2. i > 1
            BY <2>1, <5>1
          <5> QED
            BY <2>5, <5>1, <5>2
        <4>3. CASE ~up \/ dropped \/ \E i \in 1..Len(channel) : Awaited(channel[i])
          BY <1>2, <2>2, <4>3 DEF Coming, Awaited
        <4> QED
          BY <2>3, <3>1, <4>1, <4>2, <4>3 DEF Coming
      <3>2. (pc = "waiting" /\ Due => Coming)'
        BY <1>2, <1>3, <3>1 DEF NoneOverlooked, Subscribed
      <3>3. (pc = "replying" /\ (\E i \in 1..Len(inbox) : LetsWait(inbox[i])) /\ Due => Coming)'
        <4> SUFFICES ASSUME pc = "replying", Due, NEW i \in 1..Len(inbox), LetsWait(inbox[i]) PROVE Coming'
          BY <1>2, <1>3, <2>7 DEF LetsWait
        <4>1. tool # "pass" /\ Coming
          BY DEF LetsWait, NoneOverlooked
        <4>2. watching
          BY <4>1 DEF Subscribed
        <4> QED
          BY <3>1, <4>1, <4>2
      <3> QED
        BY <2>6, <3>2, <3>3 DEF NoneOverlooked
    <2>8. CASE ~Head(wire).event /\ inbox' = <<Head(wire)>>
      <3>1. 1 \in 1..Len(wire) /\ ~wire[1].event
        BY <2>1, <2>8
      <3>2. pc = "replying"
        BY <3>1 DEF OneReply
      <3>3. Len(inbox') = 1 /\ inbox'[1] = wire[1]
        BY <2>1, <2>8
      <3>4. (pc = "replying" /\ (\E i \in 1..Len(inbox) : LetsWait(inbox[i])) /\ Due => Coming)'
        <4> SUFFICES ASSUME Due', NEW i \in 1..Len(inbox'), LetsWait(inbox[i])' PROVE Coming'
          OBVIOUS
        <4>1. i = 1
          BY <3>3
        <4>2. LetsWait(wire[1]) /\ Due
          BY <1>2, <1>3, <3>3, <4>1 DEF LetsWait
        <4>3. CASE ~up
          BY <1>2, <4>3 DEF Coming
        <4>4. CASE up
          <5>1. PICK j \in 1..Len(wire) : j > 1 /\ Awaited(wire[j])
            BY <3>1, <4>2, <4>4 DEF NoneOverlooked
          <5> QED
            BY <2>5, <5>1
        <4> QED
          BY <4>3, <4>4
      <3>5. (pc = "waiting" /\ Due => Coming)'
        BY <1>2, <3>2
      <3> QED
        BY <2>6, <3>4, <3>5 DEF NoneOverlooked
    <2> QED
      BY <1>4, <2>7, <2>8 DEF Read, Deliver
  <1>5. CASE Push
    <2>1. hand # <<>> /\ hand' = <<>> /\ UNCHANGED <<wire, inbox>>
      BY <1>5 DEF Push, PushTo
    <2>2. Len(hand) = 1
      <3>1. Len(hand) \in Nat /\ Len(hand) # 0 /\ Len(hand) <= 1
        BY <1>1, <2>1, TailFacts
      <3>2. \A n \in Nat : n # 0 /\ n <= 1 => n = 1
        OBVIOUS
      <3> QED
        BY <3>1, <3>2
    <2>3. hand[1].ev \in Msgs
      <3>1. hand[1] \in [ev : Msgs, to : BOOLEAN]
        <4>1. hand \in Seq([ev : Msgs, to : BOOLEAN]) /\ hand # <<>>
          BY <1>1, <2>1
        <4> QED
          BY <4>1, TailFacts
      <3> QED
        BY <3>1
    <2>4. /\ channel' = channel \/ channel' = Append(channel, hand[1].ev)
          /\ dropped => dropped'
          /\ hand[1].to => dropped' \/ channel' = Append(channel, hand[1].ev)
      BY <1>5 DEF Push, PushTo
    <2>5. /\ Len(channel) \in Nat
          /\ \A i \in 1..Len(channel) : i \in 1..Len(channel') /\ channel'[i] = channel[i]
      <3>1. CASE channel' = channel
        BY <1>1, <3>1
      <3>2. CASE channel' = Append(channel, hand[1].ev)
        BY <1>1, <2>3, <3>2
      <3> QED
        BY <2>4, <3>1, <3>2
    <2>6. hand[1].to => dropped' \/ (/\ Len(channel) + 1 \in 1..Len(channel')
                                     /\ channel'[Len(channel) + 1] = hand[1].ev)
      BY <1>1, <2>3, <2>4, <2>5
    <2>7. Coming => Coming'
      <3>1. CASE ~up \/ dropped \/ \E i \in 1..Len(wire) : Awaited(wire[i])
        BY <1>2, <2>1, <2>4, <3>1 DEF Coming, Awaited
      <3>2. ASSUME NEW i \in 1..Len(channel), Awaited(channel[i]) PROVE Coming'
        <4>1. i \in 1..Len(channel') /\ channel'[i] = channel[i]
          BY <2>5
        <4> QED
          BY <1>2, <3>2, <4>1 DEF Coming, Awaited
      <3>3. ASSUME NEW i \in 1..Len(hand), hand[i].to, Awaited(hand[i].ev) PROVE Coming'
        <4>1. i = 1
          BY <2>2
        <4>2. CASE dropped'
          BY <4>2 DEF Coming
        <4>3. CASE Len(channel) + 1 \in 1..Len(channel') /\ channel'[Len(channel) + 1] = hand[1].ev
          <5>1. Awaited(hand[1].ev)
            BY <3>3, <4>1
          <5>2. \E k \in 1..Len(channel') : channel'[k] = hand[1].ev
            BY <4>3
          <5> QED
            BY <1>2, <5>1, <5>2 DEF Coming, Awaited
        <4> QED
          BY <2>6, <3>3, <4>1, <4>2, <4>3
      <3> QED
        BY <3>1, <3>2, <3>3 DEF Coming
    <2> QED
      BY <1>2, <1>3, <2>1, <2>7 DEF NoneOverlooked, LetsWait, Awaited
  <1>6. CASE ReadFails
    BY <1>6 DEF ReadFails, NoneOverlooked, Coming
  <1> QED
    BY <1>4, <1>5, <1>6

\* The steps of a tool overlook none: one that looks and finds no stop has the
\* stop still ahead of it.
LEMMA ToolOverlooksNone ==
  ASSUME BridgeTypes, Subscribed, CacheFollows, OneReply, NoneOverlooked,
         (\E kind \in Kinds : CallTool(kind)) \/ Steps \/ Deadline
  PROVE  NoneOverlooked'
  <1>1. /\ channel \in Seq(Msgs) /\ tool \in Kinds /\ inbox \in Seq(Msgs) /\ Len(inbox) <= 1
    BY DEF BridgeTypes, ReaderTypes, ToolTypes
  <1>2. UNCHANGED <<program, decomp, wire, up>>
    BY DEF CallTool, Steps, Watch, Look, Call, Replied, TakeRun, TakeWait, TakeDecomp, Taking,
           Gone, Write, Deadline, server
  <1>3. ASSUME pc' # "waiting", pc' # "replying" \/ inbox' = <<>>, \A i \in 1..Len(wire) : wire[i].event
        PROVE  NoneOverlooked'
    <2>1. (\A i \in 1..Len(wire) : LetsWait(wire[i]) /\ Due /\ up =>
              \E j \in 1..Len(wire) : j > i /\ Awaited(wire[j]))'
      BY <1>2, <1>3 DEF LetsWait
    <2>2. inbox' = <<>> => \A i \in 1..Len(inbox') : FALSE
      OBVIOUS
    <2>3. (pc = "replying" /\ (\E i \in 1..Len(inbox) : LetsWait(inbox[i])) /\ Due => Coming)'
      BY <1>3, <2>2
    <2> QED
      BY <1>3, <2>1, <2>3 DEF NoneOverlooked
  <1>4. ASSUME pc' = "waiting", (Due => Coming)', \A i \in 1..Len(wire) : wire[i].event
        PROVE  NoneOverlooked'
    <2>1. (\A i \in 1..Len(wire) : LetsWait(wire[i]) /\ Due /\ up =>
              \E j \in 1..Len(wire) : j > i /\ Awaited(wire[j]))'
      BY <1>2, <1>4 DEF LetsWait
    <2> QED
      BY <1>4, <2>1 DEF NoneOverlooked
  <1>5. pc # "replying" \/ inbox # <<>> => \A i \in 1..Len(wire) : wire[i].event
    BY DEF OneReply
  <1>6. dead => \A i \in 1..Len(wire) : wire[i].event
    <2>1. dead => wire = <<>>
      BY DEF OneReply
    <2>2. wire = <<>> => \A i \in 1..Len(wire) : wire[i].event
      OBVIOUS
    <2> QED
      BY <2>1, <2>2
  <1>7. ASSUME NEW how, NEW seq, Answer(how, seq), \A i \in 1..Len(wire) : wire[i].event
        PROVE  NoneOverlooked'
    BY <1>3, <1>7 DEF Answer
  <1>8. CASE \E kind \in Kinds : CallTool(kind)
    <2>1. pc = "idle" /\ pc' \notin {"waiting", "replying"}
      BY <1>8 DEF CallTool
    <2> QED
      BY <1>3, <1>5, <2>1
  <1>9. CASE Watch
    BY <1>3, <1>5, <1>9 DEF Watch
  <1>10. CASE Look
    <2>1. pc = "look" /\ tool = "wait"
      BY <1>10 DEF Look, Subscribed
    <2>2. \A i \in 1..Len(wire) : wire[i].event
      BY <1>5, <2>1
    <2>3. CASE cache.state \notin Ends /\ Goes("waiting")
      <3>1. Due => Coming
        <4> SUFFICES ASSUME program.state \in Ends, up PROVE Coming
          BY <2>1 DEF Due, Coming
        <4>1. \E i \in 1..Len(wire) : wire[i].kind \in Ends
          BY <2>3 DEF CacheFollows
        <4> QED
          BY <2>1, <4>1 DEF Coming, Awaited
      <3>2. (Due => Coming)'
        BY <1>2, <2>3, <3>1 DEF Goes, Due, Coming, Awaited
      <3> QED
        BY <1>4, <2>2, <2>3, <3>2 DEF Goes
    <2>4. CASE Answer(cache.state, cache.seq)
      BY <1>7, <2>2, <2>4
    <2> QED
      BY <1>10, <2>3, <2>4 DEF Look, Ends
  <1>11. CASE Call
    <2>1. \A i \in 1..Len(wire) : wire[i].event
      BY <1>5, <1>11 DEF Call
    <2>2. inbox' = <<>> /\ pc' # "waiting"
      BY <1>11 DEF Call, Goes, Answer
    <2> QED
      BY <1>3, <2>1, <2>2
  <1>12. CASE Replied
    <2>1. \A i \in 1..Len(wire) : wire[i].event
      BY <1>5, <1>6, <1>12 DEF Replied
    <2>2. CASE \E how \in {"error", "passed", "status", "gone"} : Answer(how, 0)
      BY <1>7, <2>1, <2>2
    <2>3. CASE /\ inbox # <<>> /\ inbox[1].ok /\ tool # "pass" /\ inbox[1].state \notin {"ready", "failed"}
               /\ Goes("waiting")
      <3>1. 1 \in 1..Len(inbox)
        BY <1>1, <2>3
      <3>2. LetsWait(inbox[1])
        BY <2>3, <3>1 DEF LetsWait, OneReply
      <3>3. Due => Coming
        BY <1>12, <3>1, <3>2 DEF Replied, NoneOverlooked
      <3>4. (Due => Coming)'
        BY <1>2, <2>3, <3>3 DEF Goes, Due, Coming, Awaited
      <3> QED
        BY <1>4, <2>1, <2>3, <3>4 DEF Goes
    <2> QED
      BY <1>12, <2>2, <2>3 DEF Replied
  <1>13. CASE TakeRun \/ TakeWait \/ TakeDecomp
    <2>1. pc = "waiting" /\ channel # <<>>
      BY <1>13 DEF TakeRun, TakeWait, TakeDecomp, Taking
    <2>2. \A i \in 1..Len(wire) : wire[i].event
      BY <1>5, <2>1
    <2>3. /\ Len(channel) \in Nat \ {0} /\ Head(channel) = channel[1]
          /\ Len(Tail(channel)) = Len(channel) - 1
          /\ \A i \in 1..Len(Tail(channel)) : Tail(channel)[i] = channel[i + 1]
      BY <1>1, <2>1, TailFacts
    <2>4. ASSUME Drops("waiting"), ~Awaited(Head(channel)) PROVE NoneOverlooked'
      <3>1. channel' = Tail(channel) /\ UNCHANGED <<hand, dropped, tool>> /\ pc' = "waiting"
        BY <2>4 DEF Drops
      <3>2. \A i \in 1..Len(channel) : Awaited(channel[i]) =>
               i - 1 \in 1..Len(channel') /\ channel'[i - 1] = channel[i]
        <4> SUFFICES ASSUME NEW i \in 1..Len(channel), Awaited(channel[i])
                     PROVE  i - 1 \in 1..Len(channel') /\ channel'[i - 1] = channel[i]
          OBVIOUS
        <4>1. i # 1
          BY <2>3, <2>4
        <4> QED
          BY <2>3, <3>1, <4>1
      <3>3. (Due => Coming)'
        <4>1. Due' = Due
          BY <1>2, <3>1 DEF Due
        <4>2. Coming => Coming'
          <5>1. ASSUME NEW i \in 1..Len(channel), Awaited(channel[i]) PROVE Coming'
            <6>1. i - 1 \in 1..Len(channel') /\ channel'[i - 1] = channel[i]
              BY <3>2, <5>1
            <6> QED
              BY <3>1, <5>1, <6>1 DEF Coming, Awaited
          <5>2. Coming /\ ~(\E i \in 1..Len(channel) : Awaited(channel[i])) => Coming'
            BY <1>2, <3>1 DEF Coming, Awaited
          <5> QED
            BY <5>1, <5>2
        <4> QED
          BY <2>1, <4>1, <4>2 DEF NoneOverlooked
      <3> QED
        BY <1>4, <2>2, <3>1, <3>3
    <2>5. CASE TakeRun
      <3>1. CASE Head(channel).kind \notin {"stopped", "exited", "gdbDead"} /\ Drops("waiting")
        <4>1. ~Awaited(Head(channel))
          BY <2>5, <3>1 DEF TakeRun, Taking, RunTools, Awaited, Ends
        <4> QED
          BY <2>4, <3>1, <4>1
      <3> QED
        BY <1>7, <2>2, <2>5, <3>1 DEF TakeRun
    <2>6. CASE TakeWait
      <3>1. CASE Head(channel).kind \notin {"stopped", "exited"} /\ Drops("waiting")
        <4>1. ~Awaited(Head(channel))
          BY <2>6, <3>1 DEF TakeWait, Taking, Awaited, Ends
        <4> QED
          BY <2>4, <3>1, <4>1
      <3> QED
        BY <1>7, <2>2, <2>6, <3>1 DEF TakeWait
    <2>7. CASE TakeDecomp
      <3>1. CASE Head(channel).kind # "decompChanged"
        <4>1. ~Awaited(Head(channel)) /\ Drops("waiting")
          BY <2>7, <3>1 DEF TakeDecomp, Taking, Awaited
        <4> QED
          BY <2>4, <4>1
      <3>2. CASE Head(channel).kind = "decompChanged"
        <4>1. pc' = "call"
          BY <2>7, <3>2 DEF TakeDecomp, Drops
        <4> QED
          BY <1>3, <2>2, <4>1
      <3> QED
        BY <3>1, <3>2
    <2> QED
      BY <1>13, <2>5, <2>6, <2>7
  <1>14. CASE Deadline \/ Gone
    <2>1. pc = "waiting"
      BY <1>14 DEF Deadline, Gone
    <2> QED
      BY <1>5, <1>7, <1>14, <2>1 DEF Deadline, Gone
  <1>15. CASE Write
    BY <1>3, <1>5, <1>15 DEF Write
  <1> QED
    BY <1>8, <1>9, <1>10, <1>11, <1>12, <1>13, <1>14, <1>15 DEF Steps

-----------------------------------------------------------------------------
(* The theorems.                                                           *)

\* The bridge begins with nothing on its way.
LEMMA InitInv == Init => BridgeInv
  <1> SUFFICES ASSUME Init PROVE BridgeInv
    OBVIOUS
  <1>1. BridgeTypes
    BY InitTypes
  <1>2. /\ wire = <<>> /\ hand = <<>> /\ channel = <<>> /\ inbox = <<>>
        /\ watching = FALSE /\ pc = "idle" /\ told = 0 /\ asked = "none" /\ dead = FALSE /\ cache = program
    BY DEF Init
  <1>3. cache.seq = 0 /\ program.seq = 0
    BY DEF Init
  <1>4. /\ \A i \in 1..Len(wire) : FALSE
        /\ \A i \in 1..Len(hand) : FALSE
        /\ \A i \in 1..Len(channel) : FALSE
        /\ \A i \in 1..Len(inbox) : FALSE
    BY <1>2
  <1>5. Subscribed
    BY <1>2, <1>4 DEF Subscribed
  <1>6. StopsAscend
    BY <1>2, <1>3, <1>4 DEF StopsAscend
  <1>7. CacheFollows
    BY <1>2, <1>4 DEF CacheFollows
  <1>8. OneReply
    BY <1>2, <1>4 DEF OneReply
  <1>9. NoneOverlooked
    BY <1>2, <1>4 DEF NoneOverlooked
  <1> QED
    BY <1>1, <1>5, <1>6, <1>7, <1>8, <1>9 DEF BridgeInv

\* Every step keeps the invariant.
LEMMA NextInv ==
  ASSUME BridgeInv, [Next]_vars
  PROVE  BridgeInv'
  <1>1. BridgeTypes /\ Subscribed /\ StopsAscend /\ CacheFollows /\ OneReply /\ NoneOverlooked
    BY DEF BridgeInv
  <1>2. BridgeTypes'
    BY <1>1, NextTypes
  <1>3. Subscribed' /\ StopsAscend' /\ CacheFollows' /\ OneReply'
    BY <1>1, <1>2, NextSubscribed, NextOrder, NextFollows, NextOneReply
  <1>4. NoneOverlooked'
    <2>1. CASE Next
      BY <1>1, <1>2, <2>1, ServerOverlooksNone, ReaderOverlooksNone, ToolOverlooksNone DEF Next
    <2>2. CASE UNCHANGED vars
      BY <1>1, <2>2 DEF NoneOverlooked, Due, Awaited, Coming, LetsWait, vars, server, reader, watcher, serving
    <2> QED
      BY <2>1, <2>2
  <1> QED
    BY <1>2, <1>3, <1>4 DEF BridgeInv

\* The invariant holds for any tools, settings and capacities: every variable
\* keeps its type, a subscription lasts as long as the tool that asked for it,
\* stops arrive in the order they happened, and each request has one reply.
THEOREM BridgeInvHolds == Spec => []BridgeInv
  <1>1. Init => BridgeInv
    BY InitInv
  <1>2. BridgeInv /\ [Next]_vars => BridgeInv'
    BY NextInv
  <1> QED
    BY <1>1, <1>2, PTL DEF Spec

\* No tool waits for what has happened: waitForStop and waitForDecompiler
\* subscribe before they look or ask, and the reader sets the cache before it
\* copies the watchers, so a tool that waits has the event still ahead of it,
\* whoever drives the program meanwhile.
THEOREM NothingOverlookedHolds == Spec => []NothingOverlooked
  <1>1. BridgeInv => NothingOverlooked
    <2> SUFFICES ASSUME BridgeInv, pc = "waiting", Heard
                 PROVE  /\ tool \in {"exec", "wait"} => program.state \notin {"stopped", "exited"}
                        /\ tool = "decomp" => decomp = "starting"
      BY DEF NothingOverlooked
    <2>1. up /\ ~dropped
      BY DEF Heard
    <2>2. wire = <<>> /\ hand = <<>> /\ channel = <<>>
      BY DEF Heard
    <2>3. /\ \A i \in 1..Len(wire) : FALSE
          /\ \A i \in 1..Len(hand) : FALSE
          /\ \A i \in 1..Len(channel) : FALSE
      BY <2>2
    <2>4. ~Coming
      BY <2>1, <2>3 DEF Coming
    <2>5. ~Due
      BY <2>4 DEF BridgeInv, NoneOverlooked
    <2> QED
      BY <2>5 DEF Due, Ends
  <1>2. Spec => []BridgeInv
    BY BridgeInvHolds
  <1> QED
    BY <1>1, <1>2, PTL

\* run, continue, step, finish and pause answer with a stop that came after
\* their request, never with the one the agent knew when it asked (runToStop
\* takes the next stop of its own subscription, not the cached one).
THEOREM NewerStopHolds == Spec => NewerStop
  <1>1. ASSUME BridgeInv, Next, answer' # answer, answer'.how = "stopped", tool \in RunTools
        PROVE  answer'.seq > told
    <2>1. /\ hand \in Seq([ev : Msgs, to : BOOLEAN]) /\ Len(hand) <= 1 /\ channel \in Seq(Msgs)
      BY <1>1 DEF BridgeInv, BridgeTypes, ReaderTypes
    <2>2. ASSUME NEW how, NEW seq, Answer(how, seq) PROVE answer'.how = how /\ answer'.seq = seq
      BY <2>2 DEF Answer
    <2>3. tool # "wait" /\ pc # "look"
      BY <1>1 DEF BridgeInv, Subscribed, RunTools
    <2>4. ~(Stops \/ Resumes \/ Unloads \/ Chatters \/ Answers \/ Disconnects \/ Read \/ Push \/ ReadFails)
      BY <1>1 DEF Stops, Resumes, Unloads, Chatters, Answers, Disconnects, Read, Push, ReadFails, serving
    <2>5. ~(Watch \/ Look \/ TakeWait \/ TakeDecomp)
      BY <1>1, <2>3 DEF Watch, Look, TakeWait, TakeDecomp, Taking, Drops, RunTools
    <2>6. ~(\E kind \in Kinds : CallTool(kind))
      BY <1>1 DEF CallTool, Nothing
    <2>7. ~Call
      BY <1>1, <2>2 DEF Call, Goes
    <2>8. ~Replied
      BY <1>1, <2>2 DEF Replied, Goes
    <2>9. ~(Deadline \/ Gone)
      <3>1. answer'.how = "stopped"
        BY <1>1
      <3>2. Deadline => Answer("status", 0) \/ Answer("running", 0)
        BY DEF Deadline
      <3>3. Gone => Answer("gone", 0)
        BY DEF Gone
      <3>4. ~Answer("status", 0) /\ ~Answer("running", 0) /\ ~Answer("gone", 0)
        BY <3>1 DEF Answer
      <3> QED
        BY <3>2, <3>3, <3>4
    <2>10. ~Write
      <3>1. Write => answer' = Nothing
        BY DEF Write
      <3>2. Nothing.how = ""
        BY DEF Nothing
      <3>3. answer'.how = "stopped"
        BY <1>1
      <3> QED
        BY <3>1, <3>2, <3>3
    <2>11. TakeRun
      BY <1>1, <2>4, <2>5, <2>6, <2>7, <2>8, <2>9, <2>10 DEF Next, Steps
    <2>12. Head(channel).kind = "stopped" /\ answer'.seq = Head(channel).seq
      BY <1>1, <2>2, <2>11 DEF TakeRun, Drops
    <2>13. Head(channel) = channel[1] /\ 1 \in 1..Len(channel)
      BY <2>1, <2>11, TailFacts DEF TakeRun, Taking
    <2> QED
      BY <1>1, <2>12, <2>13 DEF BridgeInv, StopsAscend
  <1>2. BridgeInv /\ [Next]_vars
        => [answer' # answer /\ answer'.how = "stopped" /\ tool \in RunTools => answer'.seq > told]_vars
    BY <1>1
  <1>3. Spec => []BridgeInv
    BY BridgeInvHolds
  <1> QED
    BY <1>2, <1>3, PTL DEF Spec, NewerStop

-----------------------------------------------------------------------------
(* Links: the invariant.                                                   *)

Places == {"idle", "no server", "stale", "found", "refused", "linked", "in", "turned away"}

LoginTypes ==
    /\ host \in [gen : Nat, up : BOOLEAN]
    /\ boot \in [id : Nat, used : BOOLEAN, old : BOOLEAN] /\ boot.id <= MaxLinks
    /\ at \in [People -> Places]
    /\ held \in [People -> Nat]
    /\ opened \in [Links -> Nat]
    /\ expired \subseteq Links

\* The newest link counts as used from its cookie on, and as too old from its
\* end on; the links to come have given none.
BootTells ==
    /\ \A l \in Links : l > boot.id => opened[l] = 0
    /\ boot.id \in Links => (boot.used <=> opened[boot.id] > 0)
    /\ boot.old => boot.id \in expired

OneCookie == \A l \in Links : opened[l] <= 1

\* Who holds a link holds one that was minted.
HoldsMinted ==
    \A p \in People : at[p] \in {"linked", "in", "turned away"} => held[p] \in 1..boot.id

\* A link that is worth nothing and will not be worth anything again.
Spent(l) == opened[l] > 0 \/ l \in expired \/ l < boot.id \/ ~host.up

RightlyTurnedAway == \A p \in People : at[p] = "turned away" => Spent(held[p])

LoginInv == LoginTypes /\ BootTells /\ OneCookie /\ HoldsMinted /\ RightlyTurnedAway

-----------------------------------------------------------------------------
(* Links: its parts, step by step.                                         *)

\* Every variable begins with its type, and no link is minted.
LEMMA LoginInitInv == LoginInit => LoginInv
  <1> SUFFICES ASSUME LoginInit PROVE LoginInv
    OBVIOUS
  <1> USE DEF LoginInit
  <1>1. LoginTypes
    <2>1. 0 <= MaxLinks
      BY LinkBoundsAssumption
    <2> QED
      BY <2>1 DEF LoginTypes, Places
  <1>2. BootTells /\ OneCookie /\ HoldsMinted /\ RightlyTurnedAway
    BY DEF BootTells, OneCookie, HoldsMinted, RightlyTurnedAway, Links
  <1> QED
    BY <1>1, <1>2 DEF LoginInv

\* What a mint does: one more link, good, that nobody has opened.
LEMMA IssueFacts ==
  ASSUME LoginInv, Issue, UNCHANGED <<opened, expired>>
  PROVE  /\ boot' \in [id : Nat, used : BOOLEAN, old : BOOLEAN]
         /\ boot'.id = boot.id + 1 /\ boot'.id <= MaxLinks
         /\ boot.id \in Nat
         /\ BootTells' /\ OneCookie'
  <1>1. boot.id \in Nat /\ MaxLinks \in Nat /\ boot.id < MaxLinks
    BY LinkBoundsAssumption DEF LoginInv, LoginTypes, Issue
  <1>2. boot' = [id |-> boot.id + 1, used |-> FALSE, old |-> FALSE]
    BY DEF Issue
  <1>3. boot'.id = boot.id + 1 /\ boot'.used = FALSE /\ boot'.old = FALSE
    BY <1>2
  <1>4. boot' \in [id : Nat, used : BOOLEAN, old : BOOLEAN] /\ boot'.id <= MaxLinks
    BY <1>1, <1>2
  <1>5. \A l \in Links : l > boot.id => opened[l] = 0
    BY DEF LoginInv, BootTells
  <1>6. \A l \in Links : l > boot'.id => opened[l] = 0
    BY <1>1, <1>3, <1>5 DEF Links
  <1>7. boot'.id \in Links => opened[boot'.id] = 0
    BY <1>1, <1>3, <1>5
  <1>8. BootTells'
    BY <1>3, <1>6, <1>7 DEF BootTells
  <1>9. OneCookie'
    BY DEF LoginInv, OneCookie
  <1> QED
    BY <1>1, <1>3, <1>4, <1>8, <1>9

\* The links from before a mint are minted still, and replaced.
LEMMA IssueReplaces ==
  ASSUME LoginInv, Issue, UNCHANGED <<opened, expired>>
  PROVE  /\ boot'.id \in 1..boot'.id
         /\ \A l \in 1..boot.id : l \in 1..boot'.id /\ l < boot'.id
  <1>1. boot'.id = boot.id + 1 /\ boot.id \in Nat
    BY IssueFacts
  <1> QED
    BY <1>1

\* Where one process goes, the others stay.
LEMMA OneMoves ==
  ASSUME LoginTypes, NEW p \in People, NEW to \in Places, NEW what \in Nat, Moves(p, to, what)
  PROVE  /\ at' \in [People -> Places] /\ held' \in [People -> Nat]
         /\ at'[p] = to /\ held'[p] = what
         /\ \A q \in People : q # p => at'[q] = at[q] /\ held'[q] = held[q]
  BY DEF LoginTypes, Moves

\* The steps of the server keep the invariant.
LEMMA ServerKeeps ==
  ASSUME LoginInv, Start \/ WriteEntry \/ Stop \/ Expire
  PROVE  LoginInv'
  <1>1. LoginTypes /\ BootTells /\ OneCookie /\ HoldsMinted /\ RightlyTurnedAway
    BY DEF LoginInv
  <1>2. CASE Start
    <2>1. Issue /\ UNCHANGED <<opened, expired>>
      BY <1>2 DEF Start
    <2>2. /\ boot' \in [id : Nat, used : BOOLEAN, old : BOOLEAN]
          /\ boot'.id = boot.id + 1 /\ boot'.id <= MaxLinks /\ boot.id \in Nat
          /\ BootTells' /\ OneCookie'
      BY <2>1, IssueFacts
    <2>3. Moves(Owner, "linked", boot'.id) /\ Owner \in People
      BY <1>2 DEF Start, Moves, People
    <2>4. /\ at' \in [People -> Places] /\ held' \in [People -> Nat]
          /\ at'[Owner] = "linked" /\ held'[Owner] = boot'.id
          /\ \A q \in People : q # Owner => at'[q] = at[q] /\ held'[q] = held[q]
      BY <1>1, <2>2, <2>3, OneMoves DEF Places
    <2>5. host' \in [gen : Nat, up : BOOLEAN]
      BY <1>1, <1>2 DEF LoginTypes, Start
    <2>6. LoginTypes'
      BY <1>1, <2>1, <2>2, <2>4, <2>5 DEF LoginTypes
    <2>9. /\ boot'.id \in 1..boot'.id
          /\ \A l \in 1..boot.id : l \in 1..boot'.id /\ l < boot'.id
      BY <2>1, IssueReplaces
    <2>7. HoldsMinted'
      <3> SUFFICES ASSUME NEW q \in People, at'[q] \in {"linked", "in", "turned away"}
                   PROVE  held'[q] \in 1..boot'.id
        BY DEF HoldsMinted
      <3>1. CASE q = Owner
        BY <2>4, <2>9, <3>1
      <3>2. CASE q # Owner
        <4>1. held[q] \in 1..boot.id /\ held'[q] = held[q]
          BY <1>1, <2>4, <3>2 DEF HoldsMinted
        <4> QED
          BY <2>9, <4>1
      <3> QED
        BY <3>1, <3>2
    <2>8. RightlyTurnedAway'
      <3> SUFFICES ASSUME NEW q \in People, at'[q] = "turned away" PROVE Spent(held[q])'
        BY DEF RightlyTurnedAway
      <3>1. q # Owner /\ at[q] = "turned away" /\ held'[q] = held[q]
        BY <2>4
      <3>2. held[q] \in 1..boot.id
        BY <1>1, <3>1 DEF HoldsMinted
      <3>3. held'[q] < boot'.id
        BY <2>9, <3>1, <3>2
      <3> QED
        BY <3>3 DEF Spent
    <2> QED
      BY <2>2, <2>6, <2>7, <2>8 DEF LoginInv
  <1>3. CASE WriteEntry
    BY <1>1, <1>3 DEF WriteEntry, LoginInv, LoginTypes, BootTells, OneCookie, HoldsMinted,
                      RightlyTurnedAway, Spent
  <1>4. CASE Stop
    <2>1. UNCHANGED <<boot, at, held, opened, expired>> /\ ~host'.up
      BY <1>1, <1>4 DEF Stop, LoginTypes
    <2>2. host' \in [gen : Nat, up : BOOLEAN]
      BY <1>1, <1>4 DEF Stop, LoginTypes
    <2>3. LoginTypes' /\ BootTells' /\ OneCookie' /\ HoldsMinted'
      BY <1>1, <2>1, <2>2 DEF LoginTypes, BootTells, OneCookie, HoldsMinted
    <2>4. RightlyTurnedAway'
      BY <2>1 DEF RightlyTurnedAway, Spent
    <2> QED
      BY <2>3, <2>4 DEF LoginInv
  <1>5. CASE Expire
    <2>1. UNCHANGED <<host, at, held, opened>> /\ expired' = expired \cup {boot.id} /\ boot.id > 0
      BY <1>5 DEF Expire
    <2>2. /\ boot' \in [id : Nat, used : BOOLEAN, old : BOOLEAN]
          /\ boot'.id = boot.id /\ boot'.used = boot.used /\ boot.id \in Nat
      BY <1>1, <1>5 DEF Expire, LoginTypes
    <2>3. boot.id \in Links
      BY <1>1, <2>1, <2>2, LinkBoundsAssumption DEF LoginTypes, Links
    <2>4. LoginTypes'
      BY <1>1, <2>1, <2>2, <2>3 DEF LoginTypes
    <2>5. BootTells'
      BY <1>1, <2>1, <2>2 DEF BootTells
    <2>6. OneCookie' /\ HoldsMinted' /\ RightlyTurnedAway'
      BY <1>1, <2>1, <2>2 DEF OneCookie, HoldsMinted, RightlyTurnedAway, Spent
    <2> QED
      BY <2>4, <2>5, <2>6 DEF LoginInv
  <1> QED
    BY <1>2, <1>3, <1>4, <1>5

\* The steps of a joiner on its way to a link keep the invariant.
LEMMA JoinerKeeps ==
  ASSUME LoginInv, NEW j \in Joiners, Find(j) \/ RemoveStale(j) \/ Mint(j) \/ MintFails(j) \/ Again(j)
  PROVE  LoginInv'
  <1>1. LoginTypes /\ BootTells /\ OneCookie /\ HoldsMinted /\ RightlyTurnedAway /\ j \in People
    BY DEF LoginInv, People
  <1>2. UNCHANGED <<host, opened, expired>>
    BY DEF Find, RemoveStale, Mint, MintFails, Again
  <1>3. ASSUME NEW to \in Places, NEW what \in Nat, Moves(j, to, what), UNCHANGED boot,
               to \notin {"linked", "in", "turned away"}
        PROVE  LoginInv'
    <2>1. /\ at' \in [People -> Places] /\ held' \in [People -> Nat]
          /\ at'[j] = to
          /\ \A q \in People : q # j => at'[q] = at[q] /\ held'[q] = held[q]
      BY <1>1, <1>3, OneMoves
    <2>2. LoginTypes' /\ BootTells' /\ OneCookie'
      BY <1>1, <1>2, <1>3, <2>1 DEF LoginTypes, BootTells, OneCookie
    <2>3. \A q \in People : at'[q] \in {"linked", "in", "turned away"} => at'[q] = at[q] /\ held'[q] = held[q]
      BY <1>3, <2>1
    <2>4. HoldsMinted' /\ RightlyTurnedAway'
      BY <1>1, <1>2, <1>3, <2>3 DEF HoldsMinted, RightlyTurnedAway, Spent
    <2> QED
      BY <2>2, <2>4 DEF LoginInv
  <1>4. ASSUME NEW to \in Places, NEW what \in Nat, Moves(j, to, what), Issue,
               to # "linked" \/ what = boot'.id, to \notin {"in", "turned away"}
        PROVE  LoginInv'
    <2>1. /\ at' \in [People -> Places] /\ held' \in [People -> Nat]
          /\ at'[j] = to /\ held'[j] = what
          /\ \A q \in People : q # j => at'[q] = at[q] /\ held'[q] = held[q]
      BY <1>1, <1>4, OneMoves
    <2>2. /\ boot' \in [id : Nat, used : BOOLEAN, old : BOOLEAN]
          /\ boot'.id = boot.id + 1 /\ boot'.id <= MaxLinks /\ boot.id \in Nat
          /\ BootTells' /\ OneCookie'
      BY <1>2, <1>4, IssueFacts
    <2>3. LoginTypes'
      BY <1>1, <1>2, <2>1, <2>2 DEF LoginTypes
    <2>6. /\ boot'.id \in 1..boot'.id
          /\ \A l \in 1..boot.id : l \in 1..boot'.id /\ l < boot'.id
      BY <1>2, <1>4, IssueReplaces
    <2>4. HoldsMinted'
      <3> SUFFICES ASSUME NEW q \in People, at'[q] \in {"linked", "in", "turned away"}
                   PROVE  held'[q] \in 1..boot'.id
        BY DEF HoldsMinted
      <3>1. CASE q = j
        <4>1. at'[q] = to /\ held'[q] = what
          BY <2>1, <3>1
        <4>2. what = boot'.id
          BY <1>4, <4>1
        <4> QED
          BY <2>6, <4>1, <4>2
      <3>2. CASE q # j
        <4>1. held[q] \in 1..boot.id /\ held'[q] = held[q]
          BY <1>1, <2>1, <3>2 DEF HoldsMinted
        <4> QED
          BY <2>6, <4>1
      <3> QED
        BY <3>1, <3>2
    <2>5. RightlyTurnedAway'
      <3> SUFFICES ASSUME NEW q \in People, at'[q] = "turned away" PROVE Spent(held[q])'
        BY DEF RightlyTurnedAway
      <3>1. q # j
        BY <1>4, <2>1
      <3>2. held'[q] \in 1..boot.id
        BY <1>1, <2>1, <3>1 DEF HoldsMinted
      <3>3. held'[q] < boot'.id
        BY <2>6, <3>2
      <3> QED
        BY <3>3 DEF Spent
    <2> QED
      BY <2>2, <2>3, <2>4, <2>5 DEF LoginInv
  <1>5. CASE Find(j)
    <2>1. UNCHANGED boot /\ \/ Moves(j, "no server", 0)
                            \/ Moves(j, "stale", 0)
                            \/ file.of = host.gen /\ Moves(j, "found", file.of)
      BY <1>5 DEF Find
    <2>2. host.gen \in Nat
      BY <1>1 DEF LoginTypes
    <2> QED
      BY <1>3, <2>1, <2>2 DEF Places
  <1>6. CASE RemoveStale(j)
    BY <1>3, <1>6 DEF RemoveStale, Places
  <1>7. CASE Mint(j)
    <2>1. CASE Issue /\ Moves(j, "linked", boot'.id)
      <3>1. boot'.id \in Nat
        BY <1>2, <2>1, IssueFacts
      <3> QED
        BY <1>4, <2>1, <3>1 DEF Places
    <2>2. CASE UNCHANGED boot /\ Moves(j, "refused", 0)
      BY <1>3, <2>2 DEF Places
    <2> QED
      BY <1>7, <2>1, <2>2 DEF Mint
  <1>8. CASE MintFails(j)
    <2>1. Moves(j, "no server", 0) /\ (UNCHANGED boot \/ Issue)
      BY <1>8 DEF MintFails
    <2> QED
      BY <1>3, <1>4, <2>1 DEF Places
  <1>9. CASE Again(j)
    BY <1>3, <1>9 DEF Again, Places
  <1> QED
    BY <1>5, <1>6, <1>7, <1>8, <1>9

\* Opening a link keeps the invariant.
LEMMA OpenKeeps ==
  ASSUME LoginInv, NEW p \in People, Open(p)
  PROVE  LoginInv'
  <1>1. LoginTypes /\ BootTells /\ OneCookie /\ HoldsMinted /\ RightlyTurnedAway
    BY DEF LoginInv
  <1>2. UNCHANGED <<host, held, expired>> /\ at[p] \in {"linked", "in"}
    BY DEF Open
  <1>3. held[p] \in 1..boot.id /\ boot.id \in Nat /\ MaxLinks \in Nat /\ boot.id <= MaxLinks
    BY <1>1, <1>2, LinkBoundsAssumption DEF HoldsMinted, LoginTypes
  <1>4. held[p] \in Links
    BY <1>3 DEF Links
  <1>7. \A l \in 1..boot.id : l \in Links
    <2>1. boot.id \in Nat /\ MaxLinks \in Nat /\ boot.id <= MaxLinks
      BY <1>3
    <2> QED
      BY <2>1 DEF Links
  <1>5. CASE Redeems(held[p])
    <2>1. held[p] = boot.id /\ boot.used = FALSE
      BY <1>1, <1>5 DEF Redeems, LoginTypes
    <2>2. /\ boot' \in [id : Nat, used : BOOLEAN, old : BOOLEAN]
          /\ boot'.id = boot.id /\ boot'.used = TRUE /\ boot'.old = boot.old
      BY <1>1, <1>5 DEF Open, LoginTypes
    <2>3. opened[boot.id] = 0
      BY <1>1, <1>4, <2>1 DEF BootTells, LoginTypes
    <2>4. /\ opened' \in [Links -> Nat] /\ opened'[boot.id] = 1
          /\ \A l \in Links : l # boot.id => opened'[l] = opened[l]
      BY <1>1, <1>4, <1>5, <2>1, <2>3 DEF Open, LoginTypes
    <2>5. at' = [at EXCEPT ![p] = "in"]
      BY <1>5 DEF Open
    <2>6. LoginTypes'
      BY <1>1, <1>2, <2>2, <2>4, <2>5 DEF LoginTypes, Places
    <2>7. BootTells'
      BY <1>1, <1>2, <1>3, <2>2, <2>4 DEF BootTells
    <2>8. OneCookie'
      BY <1>1, <2>4 DEF OneCookie
    <2>9. HoldsMinted'
      BY <1>1, <1>2, <2>2, <2>5 DEF HoldsMinted, LoginTypes
    <2>11. opened'[boot.id] > 0
      BY <2>4
    <2>10. RightlyTurnedAway'
      <3> SUFFICES ASSUME NEW q \in People, at'[q] = "turned away" PROVE Spent(held[q])'
        BY DEF RightlyTurnedAway
      <3>1. q # p /\ at[q] = "turned away"
        BY <1>1, <2>5 DEF LoginTypes
      <3>2. Spent(held[q]) /\ held[q] \in 1..boot.id
        BY <1>1, <3>1 DEF RightlyTurnedAway, HoldsMinted
      <3>3. held[q] \in Links
        BY <1>7, <3>2
      <3>4. opened[held[q]] > 0 => opened'[held[q]] > 0
        <4>1. held[q] = boot.id => opened'[held[q]] > 0
          BY <2>11, Zenon
        <4>2. held[q] # boot.id => opened'[held[q]] = opened[held[q]]
          BY <2>4, <3>3
        <4> QED
          BY <4>1, <4>2
      <3> QED
        BY <1>2, <2>2, <3>2, <3>4 DEF Spent
    <2> QED
      BY <2>6, <2>7, <2>8, <2>9, <2>10 DEF LoginInv
  <1>6. CASE ~Redeems(held[p])
    <2>1. /\ UNCHANGED <<boot, opened>>
          /\ at' = [at EXCEPT ![p] = IF @ = "in" THEN @ ELSE "turned away"]
      BY <1>6 DEF Open
    <2>2. \A q \in People : q # p => at'[q] = at[q]
      BY <1>1, <2>1 DEF LoginTypes
    <2>3. LoginTypes' /\ BootTells' /\ OneCookie'
      BY <1>1, <1>2, <2>1 DEF LoginTypes, BootTells, OneCookie, Places
    <2>4. HoldsMinted'
      BY <1>1, <1>2, <1>3, <2>1, <2>2 DEF HoldsMinted
    <2>5. Spent(held[p])
      BY <1>1, <1>3, <1>4, <1>6 DEF Redeems, Spent, BootTells
    <2>6. RightlyTurnedAway'
      BY <1>1, <1>2, <2>1, <2>2, <2>5 DEF RightlyTurnedAway, Spent
    <2> QED
      BY <2>3, <2>4, <2>6 DEF LoginInv
  <1> QED
    BY <1>5, <1>6

-----------------------------------------------------------------------------
(* Links: the theorem.                                                     *)

\* A link is good once, and good until then, whatever servers come and go on
\* the address and whoever mints and opens (auth.go: redeemBootstrap and
\* newBootstrap under one lock): a link gives one cookie, and who is turned
\* away holds one that was used, became too old or was replaced, or whose
\* server is gone.
THEOREM LinkGoodOnceHolds == LoginSpec => []LinkGoodOnce
  <1>1. LoginInit => LoginInv
    BY LoginInitInv
  <1>2. LoginInv /\ [LoginNext]_loginVars => LoginInv'
    <2>1. ASSUME LoginInv, LoginNext PROVE LoginInv'
      BY <2>1, ServerKeeps, JoinerKeeps, OpenKeeps DEF LoginNext
    <2>2. ASSUME LoginInv, UNCHANGED loginVars PROVE LoginInv'
      BY <2>2 DEF LoginInv, LoginTypes, BootTells, OneCookie, HoldsMinted, RightlyTurnedAway, Spent, loginVars
    <2> QED
      BY <2>1, <2>2
  <1>3. LoginInv => LinkGoodOnce
    BY DEF LoginInv, OneCookie, RightlyTurnedAway, Spent, LinkGoodOnce
  <1> QED
    BY <1>1, <1>2, <1>3, PTL DEF LoginSpec
===============================================================================
