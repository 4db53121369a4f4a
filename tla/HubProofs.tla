------------------------------ MODULE HubProofs ------------------------------
(***************************************************************************)
(* Theorems about the event hub for any connections, any pumps and any     *)
(* queue size: why the newest event cannot pass a connection by.           *)
(***************************************************************************)
EXTENDS Hub, TLAPS

-----------------------------------------------------------------------------
(* The invariant.                                                          *)

Messages == [kind : {"none", "hello", "state", "output", "reply"}, version : Nat]

CastTypes ==
    cast \in [Producers -> [stage : {"idle", "called", "numbered", "sending", "closing"},
                            msg : Messages, todo : SUBSET Conns]]

ConnTypes ==
    /\ phase \in [Conns -> {"off", "accepted", "added", "greeting", "open"}]
    /\ hello \in [Conns -> Messages]
    /\ joined \in [Conns -> Nat]
    /\ dropped \in [Conns -> BOOLEAN]
    /\ tab \in [Conns -> [view : Nat, event : Nat]]

QueueTypes ==
    /\ out \in [Conns -> Seq(Messages)]
    /\ \A c \in Conns : Len(out[c]) <= QueueSize
    /\ inbox \in [Conns -> Seq({"pause", "other"})]
    /\ waiting \subseteq Conns

\* Every variable keeps its type, and no queue of a connection its capacity.
HubTypes ==
    /\ version \in Nat /\ seq \in Nat /\ outputs \in Nat /\ closed \in BOOLEAN
    /\ CastTypes /\ ConnTypes /\ QueueTypes

\* Only the actor broadcasts states, and the one it broadcasts is the newest:
\* it publishes the next one when it is done with this one.
OneAuthor ==
    /\ cast[Actor].stage # "closing"
    /\ cast[Actor].stage \in {"numbered", "sending"} => cast[Actor].msg = Message("state", version)
    /\ \A p \in Producers \ {Actor} : cast[p].msg.kind # "state"
    /\ \A c \in Conns : hello[c].kind # "state"

\* A browser that was brought to state event and will be sent the messages of q
\* is brought to state v in the end.
Brings(event, q, v) ==
    \/ /\ event = v
       /\ \A i \in 1..Len(q) : q[i].kind # "state"
    \/ \E i \in 1..Len(q) :
          /\ q[i] = Message("state", v)
          /\ \A j \in 1..Len(q) : j > i => q[j].kind # "state"

\* The actor's broadcast has still to get to c.
Coming(c) ==
    \/ cast[Actor].stage \in {"called", "numbered"}
    \/ cast[Actor].stage = "sending" /\ c \in cast[Actor].todo

\* A connection is not missed: it joined knowing the newest state, is being
\* closed for being slow, or has the newest state ahead of it or behind it.
NoneMissed ==
    \A c \in Registered :
        joined[c] = version \/ dropped[c] \/ Coming(c) \/ Brings(tab[c].event, out[c], version)

HubInv == HubTypes /\ OneAuthor /\ NoneMissed

-----------------------------------------------------------------------------
(* Queues.                                                                 *)

\* Messages are what their name says.
LEMMA MessageTypes ==
  \A kind \in {"none", "hello", "state", "output", "reply"}, v \in Nat :
      /\ Message(kind, v) \in Messages
      /\ Message(kind, v).kind = kind
      /\ Message(kind, v).version = v
  BY DEF Message, Messages

\* One more at the end.
LEMMA AppendFacts ==
  ASSUME NEW S, NEW s \in Seq(S), NEW e \in S
  PROVE  /\ Append(s, e) \in Seq(S)
         /\ Len(Append(s, e)) = Len(s) + 1
         /\ Len(s) \in Nat
         /\ \A i \in 1..Len(s) : Append(s, e)[i] = s[i]
         /\ Append(s, e)[Len(s) + 1] = e
  OBVIOUS

\* One less at the front.
LEMMA TailFacts ==
  ASSUME NEW S, NEW s \in Seq(S), s # <<>>
  PROVE  /\ Tail(s) \in Seq(S)
         /\ Len(s) \in Nat \ {0}
         /\ Head(s) = s[1] /\ s[1] \in S
         /\ Len(Tail(s)) = Len(s) - 1
         /\ \A i \in 1..Len(Tail(s)) : Tail(s)[i] = s[i + 1]
  OBVIOUS

\* A message of another kind changes nothing, the newest state settles it.
LEMMA AppendBrings ==
  ASSUME NEW q \in Seq(Messages), NEW msg \in Messages, NEW event \in Nat, NEW v \in Nat,
         \/ msg.kind # "state" /\ Brings(event, q, v)
         \/ msg = Message("state", v)
  PROVE  Brings(event, Append(q, msg), v)
  <1>1. /\ Len(Append(q, msg)) = Len(q) + 1 /\ Len(q) \in Nat
        /\ \A i \in 1..Len(q) : Append(q, msg)[i] = q[i]
        /\ Append(q, msg)[Len(q) + 1] = msg
    BY AppendFacts
  <1>2. CASE msg.kind # "state" /\ event = v /\ \A i \in 1..Len(q) : q[i].kind # "state"
    BY <1>1, <1>2 DEF Brings
  <1>3. CASE /\ msg.kind # "state"
             /\ \E i \in 1..Len(q) : /\ q[i] = Message("state", v)
                                     /\ \A j \in 1..Len(q) : j > i => q[j].kind # "state"
    BY <1>1, <1>3 DEF Brings
  <1>4. CASE msg = Message("state", v)
    BY <1>1, <1>4 DEF Brings
  <1> QED
    BY <1>2, <1>3, <1>4 DEF Brings

\* What the pump writes is what the browser is brought to.
LEMMA TailBrings ==
  ASSUME NEW q \in Seq(Messages), q # <<>>, NEW t \in [view : Nat, event : Nat], NEW v \in Nat,
         Brings(t.event, q, v)
  PROVE  Brings(Applied(t, Head(q)).event, Tail(q), v)
  <1>1. /\ Len(Tail(q)) = Len(q) - 1 /\ Len(q) \in Nat \ {0} /\ Head(q) = q[1]
        /\ \A i \in 1..Len(Tail(q)) : Tail(q)[i] = q[i + 1]
    BY TailFacts
  <1>2. Applied(t, Head(q)).event = IF q[1].kind = "state" THEN q[1].version ELSE t.event
    BY <1>1 DEF Applied
  <1>3. CASE t.event = v /\ \A i \in 1..Len(q) : q[i].kind # "state"
    BY <1>1, <1>2, <1>3 DEF Brings
  <1>4. ASSUME NEW i \in 1..Len(q), q[i] = Message("state", v),
               \A j \in 1..Len(q) : j > i => q[j].kind # "state"
        PROVE  Brings(Applied(t, Head(q)).event, Tail(q), v)
    <2>1. CASE i = 1
      <3>1. Applied(t, Head(q)).event = v
        BY <1>2, <1>4, <2>1 DEF Message
      <3>2. \A j \in 1..Len(Tail(q)) : Tail(q)[j].kind # "state"
        BY <1>1, <1>4, <2>1
      <3> QED
        BY <3>1, <3>2 DEF Brings
    <2>2. CASE i > 1
      <3>1. i - 1 \in 1..Len(Tail(q)) /\ Tail(q)[i - 1] = Message("state", v)
        BY <1>1, <1>4, <2>2
      <3>2. \A j \in 1..Len(Tail(q)) : j > i - 1 => Tail(q)[j].kind # "state"
        BY <1>1, <1>4
      <3> QED
        BY <3>1, <3>2 DEF Brings
    <2> QED
      BY <2>1, <2>2
  <1> QED
    BY <1>3, <1>4 DEF Brings

\* What sendTo does: the message is queued, or the connection is as good as gone.
LEMMA SendToStep ==
  ASSUME HubTypes, NEW c \in Conns, NEW msg \in Messages, SendTo(c, msg)
  PROVE  /\ out' \in [Conns -> Seq(Messages)]
         /\ \A d \in Conns : Len(out'[d]) <= QueueSize
         /\ dropped' \in [Conns -> BOOLEAN]
         /\ \A d \in Conns \ {c} : out'[d] = out[d] /\ dropped'[d] = dropped[d]
         /\ dropped'[c] \/ (out'[c] = Append(out[c], msg) /\ dropped'[c] = dropped[c])
         /\ dropped[c] => dropped'[c]
  <1> USE DEF HubTypes, ConnTypes, QueueTypes
  <1>1. CASE Len(out[c]) < QueueSize
    <2>1. out[c] \in Seq(Messages)
      OBVIOUS
    <2>2. Append(out[c], msg) \in Seq(Messages) /\ Len(Append(out[c], msg)) = Len(out[c]) + 1
          /\ Len(out[c]) \in Nat
      BY <2>1, AppendFacts
    <2>3. out' = [out EXCEPT ![c] = Append(out[c], msg)] /\ dropped' = dropped
      BY <1>1 DEF SendTo
    <2> QED
      BY <1>1, <2>2, <2>3, BoundsAssumption
  <1>2. CASE ~(Len(out[c]) < QueueSize)
    BY <1>2 DEF SendTo
  <1> QED
    BY <1>1, <1>2

-----------------------------------------------------------------------------
(* The steps of a broadcast.                                               *)

\* Nobody is connected at first.
LEMMA InitHub == Init => HubInv
  <1> SUFFICES ASSUME Init PROVE HubInv
    OBVIOUS
  <1> USE DEF Init, Idle, NoMessage, Message, Messages, NewTab
  <1>1. HubTypes
    <2>1. CastTypes
      BY DEF CastTypes
    <2>2. ConnTypes
      BY DEF ConnTypes
    <2>3. QueueTypes
      BY BoundsAssumption DEF QueueTypes
    <2> QED
      BY <2>1, <2>2, <2>3 DEF HubTypes
  <1>2. OneAuthor
    BY DEF OneAuthor, Producers
  <1>3. NoneMissed
    BY DEF NoneMissed, Registered
  <1> QED
    BY <1>1, <1>2, <1>3 DEF HubInv

\* The actor and the main goroutine are two.
LEMMA ActorProduces == Actor \in Producers /\ Main \in Producers /\ Main # Actor
  BY GoroutinesAssumption DEF Producers

\* Whoever starts a broadcast: the actor with a newer state, the others with none.
LEMMA StartStep ==
  ASSUME HubInv, Publish \/ (\E p \in Pumps : Output(p)) \/ Shutdown
  PROVE  HubInv'
  <1> USE DEF HubInv
  <1>1. UNCHANGED <<seq, serving, sending, tab, reading>>
    BY DEF Publish, Output, Shutdown
  <1>2. ConnTypes' /\ QueueTypes' /\ Registered' = Registered
    BY <1>1 DEF HubTypes, ConnTypes, QueueTypes, serving, sending, reading, Registered
  <1>3. CASE Publish
    <2>1. /\ cast' = [cast EXCEPT ![Actor].stage = "called"]
          /\ version' = version + 1 /\ UNCHANGED <<outputs, closed>>
      BY <1>3 DEF Publish
    <2>2. /\ cast'[Actor].stage = "called" /\ CastTypes'
          /\ \A p \in Producers \ {Actor} : cast'[p] = cast[p]
      BY <2>1, ActorProduces DEF HubTypes, CastTypes
    <2>3. HubTypes'
      BY <1>1, <1>2, <2>1, <2>2 DEF HubTypes
    <2>4. OneAuthor'
      BY <1>1, <2>2 DEF OneAuthor, serving
    <2>5. NoneMissed'
      BY <2>2 DEF NoneMissed, Coming
    <2> QED
      BY <2>3, <2>4, <2>5
  <1>4. ASSUME NEW p \in Producers \ {Actor}, Output(p) \/ (p = Main /\ Shutdown)
        PROVE  HubInv'
    <2>1. /\ cast' = [cast EXCEPT ![p].stage = "called"]
          /\ outputs' \in Nat /\ closed' \in BOOLEAN /\ version' = version
      <3>1. CASE Output(p)
        BY <3>1 DEF Output, HubTypes
      <3>2. CASE p = Main /\ Shutdown
        BY <3>2 DEF Shutdown, HubTypes
      <3> QED
        BY <1>4, <3>1, <3>2
    <2>2. /\ CastTypes' /\ cast'[Actor] = cast[Actor]
          /\ \A r \in Producers : cast'[r].msg = cast[r].msg
      BY <2>1, ActorProduces DEF HubTypes, CastTypes
    <2>3. HubTypes'
      BY <1>1, <1>2, <2>1, <2>2 DEF HubTypes
    <2>4. OneAuthor'
      BY <1>1, <2>1, <2>2, ActorProduces DEF OneAuthor, serving
    <2>5. NoneMissed'
      BY <1>1, <1>2, <2>1, <2>2 DEF NoneMissed, Coming, serving, sending
    <2> QED
      BY <2>3, <2>4, <2>5
  <1> QED
    BY <1>3, <1>4, ActorProduces, GoroutinesAssumption DEF Producers

\* A broadcast goes on: what was coming still comes, and what is done is done.
LEMMA CastStep ==
  ASSUME HubInv, NEW p \in Producers, Number(p) \/ CopyConns(p) \/ BroadcastReturns(p)
  PROVE  HubInv'
  <1> USE DEF HubInv
  <1>1. UNCHANGED <<version, outputs, closed, serving, sending, tab, reading>>
    BY DEF Number, CopyConns, BroadcastReturns
  <1>2. ConnTypes' /\ QueueTypes' /\ Registered' = Registered /\ Registered \subseteq Conns
    BY <1>1 DEF HubTypes, ConnTypes, QueueTypes, serving, sending, reading, Registered
  <1>3. CastTypes' /\ seq' \in Nat
    <2>1. CASE Number(p)
      <3>1. Message("state", version) \in Messages /\ Message("output", 0) \in Messages
        BY MessageTypes DEF HubTypes
      <3>2. PICK msg \in Messages :
               cast' = [cast EXCEPT ![p].stage = "numbered", ![p].msg = msg]
        BY <2>1, <3>1 DEF Number
      <3>3. CastTypes'
        BY <3>2 DEF HubTypes, CastTypes
      <3> QED
        BY <2>1, <3>3 DEF Number, HubTypes
    <2>2. CASE CopyConns(p)
      BY <1>2, <2>2 DEF CopyConns, HubTypes, CastTypes
    <2>3. CASE BroadcastReturns(p)
      <3>1. NoMessage \in Messages
        BY MessageTypes DEF NoMessage
      <3> QED
        BY <1>2, <2>3, <3>1 DEF BroadcastReturns, HubTypes, CastTypes, Idle
    <2> QED
      BY <2>1, <2>2, <2>3
  <1>4. HubTypes'
    BY <1>1, <1>2, <1>3 DEF HubTypes
  <1>5. CASE p # Actor
    <2>1. cast'[Actor] = cast[Actor]
      BY <1>5, ActorProduces DEF Number, CopyConns, BroadcastReturns, HubTypes, CastTypes
    <2>2. \A r \in Producers \ {Actor} : cast'[r].msg.kind # "state"
      <3>1. \A r \in Producers \ {Actor, p} : cast'[r] = cast[r]
        BY DEF Number, CopyConns, BroadcastReturns, HubTypes, CastTypes
      <3>2. cast'[p].msg \in {cast[p].msg, Message("output", 0), NoMessage}
        <4>1. CASE Number(p)
          BY <1>5, <4>1 DEF Number, HubTypes, CastTypes
        <4>2. CASE CopyConns(p)
          BY <4>2 DEF CopyConns, HubTypes, CastTypes
        <4>3. CASE BroadcastReturns(p)
          BY <4>3 DEF BroadcastReturns, HubTypes, CastTypes, Idle
        <4> QED
          BY <4>1, <4>2, <4>3
      <3>3. Message("output", 0).kind # "state" /\ NoMessage.kind # "state"
        BY DEF Message, NoMessage
      <3> QED
        BY <1>5, <3>1, <3>2, <3>3 DEF OneAuthor
    <2>3. OneAuthor'
      BY <1>1, <2>1, <2>2 DEF OneAuthor, serving
    <2>4. NoneMissed'
      BY <1>1, <1>2, <2>1 DEF NoneMissed, Coming, serving, sending
    <2> QED
      BY <1>4, <2>3, <2>4
  <1>6. CASE p = Actor
    <2>1. \A r \in Producers \ {Actor} : cast'[r] = cast[r]
      BY <1>6 DEF Number, CopyConns, BroadcastReturns, HubTypes, CastTypes
    <2>2. CASE Number(p)
      <3>1. cast'[Actor].stage = "numbered" /\ cast'[Actor].msg = Message("state", version)
        BY <1>6, <2>2, ActorProduces DEF Number, HubTypes, CastTypes
      <3>2. OneAuthor'
        BY <1>1, <2>1, <3>1 DEF OneAuthor, serving
      <3>3. NoneMissed'
        BY <3>1 DEF NoneMissed, Coming
      <3> QED
        BY <1>4, <3>2, <3>3
    <2>3. CASE CopyConns(p)
      <3>1. /\ cast'[Actor].stage = "sending" /\ cast'[Actor].msg = cast[Actor].msg
            /\ cast'[Actor].todo = Registered /\ cast[Actor].stage = "numbered"
        BY <1>6, <2>3, ActorProduces DEF CopyConns, HubTypes, CastTypes
      <3>2. OneAuthor'
        BY <1>1, <2>1, <3>1 DEF OneAuthor, serving
      <3>3. NoneMissed'
        BY <1>2, <3>1 DEF NoneMissed, Coming
      <3> QED
        BY <1>4, <3>2, <3>3
    <2>4. CASE BroadcastReturns(p)
      <3>1. /\ cast'[Actor] = Idle /\ cast[Actor].stage = "sending" /\ cast[Actor].todo = {}
        BY <1>6, <2>4, ActorProduces DEF BroadcastReturns, HubTypes, CastTypes
      <3>2. OneAuthor'
        BY <1>1, <2>1, <3>1 DEF OneAuthor, serving, Idle
      <3>3. NoneMissed'
        BY <1>1, <1>2, <3>1 DEF NoneMissed, Coming, serving, sending, Idle
      <3> QED
        BY <1>4, <3>2, <3>3
    <2> QED
      BY <2>2, <2>3, <2>4
  <1> QED
    BY <1>5, <1>6

\* The broadcast reaches a connection, and the actor's brings it the newest state.
LEMMA SendOneStep ==
  ASSUME HubInv, NEW p \in Producers, NEW c \in Conns, SendOne(p, c)
  PROVE  HubInv'
  <1> USE DEF HubInv
  <1>1. /\ UNCHANGED <<version, seq, outputs, closed, serving, tab, reading>>
        /\ cast[p].stage = "sending" /\ c \in cast[p].todo
        /\ cast' = [cast EXCEPT ![p].todo = @ \ {c}]
        /\ SendTo(c, cast[p].msg)
    BY DEF SendOne
  <1>2. cast[p].msg \in Messages
    BY DEF HubTypes, CastTypes
  <1>3. /\ CastTypes'
        /\ \A r \in Producers : cast'[r].stage = cast[r].stage /\ cast'[r].msg = cast[r].msg
        /\ \A r \in Producers \ {p} : cast'[r].todo = cast[r].todo
        /\ cast'[p].todo = cast[p].todo \ {c}
    BY <1>1 DEF HubTypes, CastTypes
  <1>4. HubTypes'
    BY <1>1, <1>2, <1>3, SendToStep DEF HubTypes, ConnTypes, QueueTypes, serving, reading
  <1>5. OneAuthor'
    BY <1>1, <1>3, ActorProduces DEF OneAuthor, serving
  <1>6. NoneMissed'
    <2> SUFFICES ASSUME NEW d \in Registered'
                 PROVE  \/ joined'[d] = version' \/ dropped'[d] \/ Coming(d)'
                        \/ Brings(tab'[d].event, out'[d], version')
      BY DEF NoneMissed
    <2>1. d \in Registered /\ d \in Conns
      BY <1>1 DEF Registered, serving
    <2>2. CASE d # c
      <3>1. out'[d] = out[d] /\ dropped'[d] = dropped[d] /\ Coming(d)' = Coming(d)
        BY <1>1, <1>2, <1>3, <2>1, <2>2, SendToStep, ActorProduces DEF Coming
      <3> QED
        BY <1>1, <2>1, <3>1 DEF NoneMissed, serving
    <2>3. CASE d = c /\ p = Actor
      <3>1. cast[p].msg = Message("state", version)
        BY <1>1, <2>3 DEF OneAuthor
      <3>2. dropped'[c] \/ out'[c] = Append(out[c], Message("state", version))
        BY <1>1, <1>2, <3>1, SendToStep
      <3>3. Message("state", version) \in Messages /\ out[c] \in Seq(Messages)
            /\ tab[c].event \in Nat /\ version \in Nat
        BY MessageTypes DEF HubTypes, ConnTypes, QueueTypes
      <3>4. Brings(tab[c].event, Append(out[c], Message("state", version)), version)
        BY <3>3, AppendBrings
      <3> QED
        BY <1>1, <2>3, <3>2, <3>4
    <2>4. CASE d = c /\ p # Actor
      <3>1. cast[p].msg.kind # "state" /\ Coming(d)' = Coming(d)
        BY <1>3, <2>4, ActorProduces DEF OneAuthor, Coming
      <3>2. dropped'[c] \/ (out'[c] = Append(out[c], cast[p].msg) /\ dropped'[c] = dropped[c])
        BY <1>1, <1>2, SendToStep
      <3>3. out[c] \in Seq(Messages) /\ tab[c].event \in Nat /\ version \in Nat
        BY DEF HubTypes, ConnTypes, QueueTypes
      <3>4. Brings(tab[c].event, out[c], version)
               => Brings(tab[c].event, Append(out[c], cast[p].msg), version)
        BY <1>2, <3>1, <3>3, AppendBrings
      <3> QED
        BY <1>1, <2>1, <2>4, <3>1, <3>2, <3>4 DEF NoneMissed, serving
    <2> QED
      BY <2>2, <2>3, <2>4
  <1> QED
    BY <1>4, <1>5, <1>6

-----------------------------------------------------------------------------
(* The steps of a connection.                                              *)

\* A reply or a hello is queued, and a broadcast goes on as it was.
LEMMA ReplyStep ==
  ASSUME HubInv, NEW c \in Conns, NEW msg \in Messages, msg.kind # "state", SendTo(c, msg),
         UNCHANGED <<version, cast, joined, tab>>, Registered' = Registered
  PROVE  NoneMissed'
  <1> USE DEF HubInv
  <1> SUFFICES ASSUME NEW d \in Registered'
               PROVE  \/ joined'[d] = version' \/ dropped'[d] \/ Coming(d)'
                      \/ Brings(tab'[d].event, out'[d], version')
    BY DEF NoneMissed
  <1>1. d \in Registered /\ d \in Conns /\ Coming(d)' = Coming(d)
    BY DEF Registered, Coming
  <1>2. CASE d # c
    <2>1. out'[d] = out[d] /\ dropped'[d] = dropped[d]
      BY <1>1, <1>2, SendToStep
    <2> QED
      BY <1>1, <2>1 DEF NoneMissed
  <1>3. CASE d = c
    <2>1. dropped'[c] \/ (out'[c] = Append(out[c], msg) /\ dropped'[c] = dropped[c])
      BY SendToStep
    <2>2. out[c] \in Seq(Messages) /\ tab[c].event \in Nat /\ version \in Nat
      BY DEF HubTypes, ConnTypes, QueueTypes
    <2>3. Brings(tab[c].event, out[c], version) => Brings(tab[c].event, Append(out[c], msg), version)
      BY <2>2, AppendBrings
    <2> QED
      BY <1>1, <1>3, <2>1, <2>3 DEF NoneMissed
  <1> QED
    BY <1>2, <1>3

\* A connection is added; it knows the state it joined with.
LEMMA GreetStep ==
  ASSUME HubInv, NEW c \in Conns, Accept(c) \/ Add(c) \/ HelloEvent(c)
  PROVE  HubInv'
  <1> USE DEF HubInv
  <1>1. UNCHANGED <<version, outputs, cast, closed, sending, tab, reading>>
    BY DEF Accept, Add, HelloEvent, producing
  <1>2. CastTypes' /\ QueueTypes'
    BY <1>1 DEF HubTypes, CastTypes, QueueTypes, sending, reading
  <1>3. ConnTypes' /\ seq' \in Nat /\ \A d \in Conns : hello'[d].kind # "state"
    <2>1. CASE Accept(c)
      BY <1>1, <2>1 DEF Accept, HubTypes, ConnTypes, OneAuthor, sending, producing
    <2>2. CASE Add(c)
      BY <1>1, <2>2 DEF Add, HubTypes, ConnTypes, OneAuthor, sending, producing
    <2>3. CASE HelloEvent(c)
      <3>1. Message("hello", version) \in Messages /\ Message("hello", version).kind # "state"
        BY MessageTypes DEF HubTypes
      <3> QED
        BY <1>1, <2>3, <3>1 DEF HelloEvent, HubTypes, ConnTypes, OneAuthor, sending
    <2> QED
      BY <2>1, <2>2, <2>3
  <1>4. HubTypes' /\ OneAuthor'
    BY <1>1, <1>2, <1>3 DEF HubTypes, OneAuthor
  <1>5. NoneMissed'
    <2> SUFFICES ASSUME NEW d \in Registered'
                 PROVE  \/ joined'[d] = version' \/ dropped'[d] \/ Coming(d)'
                        \/ Brings(tab'[d].event, out'[d], version')
      BY DEF NoneMissed
    <2>1. CASE Add(c) /\ d = c
      BY <1>1, <2>1 DEF Add, HubTypes, ConnTypes
    <2>2. CASE ~(Add(c) /\ d = c)
      <3>1. d \in Registered /\ joined'[d] = joined[d]
        BY <2>2 DEF Accept, Add, HelloEvent, Registered, HubTypes, ConnTypes
      <3>2. Coming(d)' = Coming(d)
        BY <1>1 DEF Coming
      <3> QED
        BY <1>1, <3>1, <3>2 DEF NoneMissed, sending
    <2> QED
      BY <2>1, <2>2
  <1> QED
    BY <1>4, <1>5

\* The hello is queued between events.
LEMMA HelloStep ==
  ASSUME HubInv, NEW c \in Conns, SendHello(c)
  PROVE  HubInv'
  <1> USE DEF HubInv
  <1>1. /\ UNCHANGED <<producing, hello, joined, tab, reading>>
        /\ SendTo(c, hello[c]) /\ phase[c] = "greeting" /\ phase' = [phase EXCEPT ![c] = "open"]
    BY DEF SendHello
  <1>2. hello[c] \in Messages /\ hello[c].kind # "state"
    BY DEF HubTypes, ConnTypes, OneAuthor
  <1>3. HubTypes'
    <2>1. ConnTypes' /\ QueueTypes'
      BY <1>1, <1>2, SendToStep DEF HubTypes, ConnTypes, QueueTypes, reading
    <2> QED
      BY <1>1, <2>1 DEF HubTypes, CastTypes, producing
  <1>4. OneAuthor'
    BY <1>1 DEF OneAuthor, producing
  <1>5. Registered' = Registered
    BY <1>1 DEF Registered, HubTypes, ConnTypes
  <1>6. NoneMissed'
    BY <1>1, <1>2, <1>5, ReplyStep DEF producing
  <1> QED
    BY <1>3, <1>4, <1>6

\* A browser gets what is first in its queue.
LEMMA WritePumpStep ==
  ASSUME HubInv, NEW c \in Conns, WritePump(c)
  PROVE  HubInv'
  <1> USE DEF HubInv
  <1>1. /\ UNCHANGED <<producing, serving, dropped, reading>>
        /\ out[c] # <<>>
        /\ tab' = [tab EXCEPT ![c] = Applied(tab[c], Head(out[c]))]
        /\ out' = [out EXCEPT ![c] = Tail(out[c])]
    BY DEF WritePump
  <1>2. /\ out[c] \in Seq(Messages) /\ tab[c] \in [view : Nat, event : Nat]
        /\ Len(out[c]) <= QueueSize /\ version \in Nat
    BY DEF HubTypes, ConnTypes, QueueTypes
  <1>3. /\ Tail(out[c]) \in Seq(Messages) /\ Head(out[c]) \in Messages
        /\ Len(Tail(out[c])) <= QueueSize
    BY <1>1, <1>2, TailFacts, BoundsAssumption
  <1>4. Applied(tab[c], Head(out[c])) \in [view : Nat, event : Nat]
    <2>1. Head(out[c]).version \in Nat
      BY <1>3 DEF Messages
    <2> QED
      BY <1>2, <2>1 DEF Applied
  <1>5. HubTypes'
    <2>1. ConnTypes'
      BY <1>1, <1>4 DEF HubTypes, ConnTypes, serving
    <2>2. QueueTypes'
      BY <1>1, <1>3 DEF HubTypes, QueueTypes, reading
    <2> QED
      BY <1>1, <2>1, <2>2 DEF HubTypes, CastTypes, producing
  <1>6. OneAuthor'
    BY <1>1 DEF OneAuthor, producing, serving
  <1>7. NoneMissed'
    <2> SUFFICES ASSUME NEW d \in Registered'
                 PROVE  \/ joined'[d] = version' \/ dropped'[d] \/ Coming(d)'
                        \/ Brings(tab'[d].event, out'[d], version')
      BY DEF NoneMissed
    <2>1. d \in Registered /\ d \in Conns /\ Coming(d)' = Coming(d)
      BY <1>1 DEF Registered, Coming, serving, producing
    <2>2. CASE d # c
      <3>1. out'[d] = out[d] /\ tab'[d] = tab[d]
        BY <1>1, <2>1, <2>2 DEF HubTypes, ConnTypes, QueueTypes
      <3> QED
        BY <1>1, <2>1, <3>1 DEF NoneMissed, serving, producing
    <2>3. CASE d = c
      <3>1. out'[c] = Tail(out[c]) /\ tab'[c] = Applied(tab[c], Head(out[c]))
        BY <1>1 DEF HubTypes, ConnTypes, QueueTypes
      <3>2. Brings(tab[c].event, out[c], version) => Brings(tab'[c].event, out'[c], version)
        BY <1>1, <1>2, <3>1, TailBrings
      <3> QED
        BY <1>1, <2>1, <2>3, <3>2 DEF NoneMissed, serving, producing
    <2> QED
      BY <2>2, <2>3
  <1> QED
    BY <1>5, <1>6, <1>7

\* A connection goes, and with it all that concerns it.
LEMMA RemoveStep ==
  ASSUME HubInv, NEW c \in Conns, Remove(c)
  PROVE  HubInv'
  <1> USE DEF HubInv
  <1>1. /\ CastTypes'
        /\ \A p \in Producers : /\ cast'[p].stage = cast[p].stage /\ cast'[p].msg = cast[p].msg
                                 /\ cast'[p].todo = cast[p].todo \ {c}
    BY DEF Remove, HubTypes, CastTypes
  <1>2. /\ ConnTypes' /\ hello' = [hello EXCEPT ![c] = NoMessage]
        /\ NoMessage.kind # "state"
    <2>1. NoMessage \in Messages /\ NoMessage.kind # "state"
      BY MessageTypes DEF NoMessage
    <2> QED
      BY <2>1 DEF Remove, HubTypes, ConnTypes, NewTab
  <1>3. QueueTypes'
    BY BoundsAssumption DEF Remove, HubTypes, QueueTypes
  <1>4. HubTypes'
    BY <1>1, <1>2, <1>3 DEF Remove, HubTypes
  <1>5. OneAuthor'
    <2>1. \A d \in Conns : hello'[d].kind # "state"
      BY <1>2 DEF OneAuthor, HubTypes, ConnTypes
    <2> QED
      BY <1>1, <2>1, ActorProduces DEF OneAuthor, Remove
  <1>6. NoneMissed'
    <2> SUFFICES ASSUME NEW d \in Registered'
                 PROVE  \/ joined'[d] = version' \/ dropped'[d] \/ Coming(d)'
                        \/ Brings(tab'[d].event, out'[d], version')
      BY DEF NoneMissed
    <2>1. d \in Registered /\ d # c /\ d \in Conns
      BY DEF Remove, Registered, HubTypes, ConnTypes
    <2>2. Coming(d)' = Coming(d)
      BY <1>1, <2>1, ActorProduces DEF Coming
    <2>3. /\ joined'[d] = joined[d] /\ dropped'[d] = dropped[d] /\ tab'[d] = tab[d]
          /\ out'[d] = out[d] /\ version' = version
      BY <2>1 DEF Remove, HubTypes, ConnTypes, QueueTypes
    <2> QED
      BY <2>1, <2>2, <2>3 DEF NoneMissed
  <1> QED
    BY <1>4, <1>5, <1>6

\* Requests and their replies.
LEMMA RequestStep ==
  ASSUME HubInv, NEW c \in Conns,
         (\E what \in {"pause", "other"} : Asks(c, what)) \/ ReadPump(c) \/ ActorReplies(c)
  PROVE  HubInv'
  <1> USE DEF HubInv
  <1>1. UNCHANGED <<producing, serving, tab>> /\ Registered' = Registered
    BY DEF Asks, ReadPump, ActorReplies, serving, Registered
  <1>2. Message("reply", 0) \in Messages /\ Message("reply", 0).kind # "state"
    BY MessageTypes
  <1>3. inbox' \in [Conns -> Seq({"pause", "other"})] /\ waiting' \subseteq Conns
    <2>1. CASE \E what \in {"pause", "other"} : Asks(c, what)
      <3>1. PICK what \in {"pause", "other"} : Asks(c, what)
        BY <2>1
      <3>2. Append(inbox[c], what) \in Seq({"pause", "other"})
        BY DEF HubTypes, QueueTypes
      <3> QED
        BY <3>1, <3>2 DEF Asks, HubTypes, QueueTypes
    <2>2. CASE ReadPump(c)
      <3>1. inbox[c] \in Seq({"pause", "other"}) /\ inbox[c] # <<>>
        BY <2>2 DEF ReadPump, HubTypes, QueueTypes
      <3>2. Tail(inbox[c]) \in Seq({"pause", "other"})
        BY <3>1, TailFacts
      <3> QED
        BY <2>2, <3>2 DEF ReadPump, HubTypes, QueueTypes
    <2>3. CASE ActorReplies(c)
      BY <2>3 DEF ActorReplies, HubTypes, QueueTypes
    <2> QED
      BY <2>1, <2>2, <2>3
  <1>4. OneAuthor'
    BY <1>1 DEF OneAuthor, producing, serving
  <1>5. CASE SendTo(c, Message("reply", 0))
    <2>1. ConnTypes' /\ QueueTypes'
      BY <1>1, <1>2, <1>3, <1>5, SendToStep DEF HubTypes, ConnTypes, QueueTypes, serving
    <2>2. HubTypes'
      BY <1>1, <2>1 DEF HubTypes, CastTypes, producing
    <2>3. NoneMissed'
      BY <1>1, <1>2, <1>5, ReplyStep DEF producing, serving
    <2> QED
      BY <1>4, <2>2, <2>3
  <1>6. CASE UNCHANGED sending
    <2>1. ConnTypes' /\ QueueTypes'
      BY <1>1, <1>3, <1>6 DEF HubTypes, ConnTypes, QueueTypes, serving, sending
    <2>2. HubTypes'
      BY <1>1, <2>1 DEF HubTypes, CastTypes, producing
    <2>3. NoneMissed'
      BY <1>1, <1>6 DEF NoneMissed, Coming, producing, serving, sending
    <2> QED
      BY <1>4, <2>2, <2>3
  <1> QED
    BY <1>5, <1>6 DEF Asks, ReadPump, ActorReplies

\* Every step.
LEMMA NextHub == HubInv /\ [Next]_vars => HubInv'
  <1> SUFFICES ASSUME HubInv, [Next]_vars PROVE HubInv'
    OBVIOUS
  <1>1. CASE UNCHANGED vars
    <2>1. HubTypes'
      BY <1>1 DEF HubInv, HubTypes, CastTypes, ConnTypes, QueueTypes, vars, producing, serving,
                  sending, reading
    <2>2. OneAuthor'
      BY <1>1 DEF HubInv, OneAuthor, vars, producing, serving
    <2>3. NoneMissed'
      BY <1>1 DEF HubInv, NoneMissed, Coming, Registered, vars, producing, serving, sending
    <2> QED
      BY <2>1, <2>2, <2>3 DEF HubInv
  <1>2. CASE Publish \/ (\E p \in Pumps : Output(p)) \/ Shutdown
    BY <1>2, StartStep
  <1>3. ASSUME NEW p \in Producers,
               \/ Number(p) \/ CopyConns(p) \/ BroadcastReturns(p)
               \/ \E c \in Conns : SendOne(p, c)
        PROVE  HubInv'
    BY <1>3, CastStep, SendOneStep
  <1>4. ASSUME NEW c \in Conns,
               \/ Accept(c) \/ Add(c) \/ HelloEvent(c) \/ SendHello(c) \/ WritePump(c)
               \/ Leave(c) \/ CloseOne(c)
               \/ \E what \in {"pause", "other"} : Asks(c, what)
               \/ ReadPump(c) \/ ActorReplies(c)
        PROVE  HubInv'
    <2>1. Leave(c) \/ CloseOne(c) => Remove(c)
      BY DEF Leave, CloseOne
    <2> QED
      BY <1>4, <2>1, GreetStep, HelloStep, WritePumpStep, RemoveStep, RequestStep
  <1> QED
    BY <1>1, <1>2, <1>3, <1>4 DEF Next

-----------------------------------------------------------------------------
(* Results.                                                                *)

\* The invariant: types, who may broadcast a state, and that nobody is missed.
THEOREM HubInvHolds == Spec => []HubInv
  BY InitHub, NextHub, PTL DEF Spec

\* A browser that is neither about to be closed for being slow nor waiting for
\* anything has been sent the newest state, for any connections coming and
\* going during any broadcasts and any size of their queues (emit, Broadcast,
\* sendTo, serve, writePump).
THEOREM EveryEventArrivesHolds == Spec => []EveryEventArrives
  <1>1. HubInv => EveryEventArrives
    <2> SUFFICES ASSUME HubInv, NEW c \in Conns, Quiet(c), ~dropped[c]
                 PROVE  joined[c] = version \/ tab[c].event = version
      BY DEF EveryEventArrives
    <2>1. c \in Registered /\ ~Coming(c)
      BY ActorProduces DEF Quiet, Registered, Coming
    <2>2. Brings(tab[c].event, out[c], version) => tab[c].event = version
      BY DEF Brings, Quiet
    <2> QED
      BY <2>1, <2>2 DEF HubInv, NoneMissed
  <1> QED
    BY <1>1, HubInvHolds, PTL
=============================================================================
