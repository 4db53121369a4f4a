--------------------------- MODULE MIClientProofs ---------------------------
(***************************************************************************)
(* Theorems about the GDB/MI client for any callers, any number of calls,  *)
(* any queue and pipe size and any number of tombstones.                   *)
(***************************************************************************)
EXTENDS MIClient, SequenceTheorems, TLAPS

-----------------------------------------------------------------------------
(* The inductive invariant: why a token names its command.                 *)

\* Callers whose token is on its way to gdb or whose reply is on its way back.
InFlight == {c \in Callers : pc[c] \in {"write", "wait"}}

\* A record r that carries a caller's current token answers its current call.
Owned(r) ==
    r.tok # 0 => \A c \in InFlight : r.tok = tok[c] => r.by = c /\ r.n = calls[c]

WasExecuted(r) ==
    r.tok # 0 => \E i \in 1..Len(executed) : executed[i] = [by |-> r.by, n |-> r.n]

\* Every token in use has been issued, and no two calls in flight share one.
TokensIssued ==
    /\ \A c \in InFlight : tok[c] \in 1..nextTok
    /\ \A c, d \in InFlight : tok[c] = tok[d] => c = d
    /\ pending \subseteq 1..nextTok
    /\ \A i \in 1..Len(stdin) : stdin[i].tok \in 1..nextTok
    /\ \A i \in 1..Len(stdout) : stdout[i].tok \in 0..nextTok
    /\ \A r \in inbox : r.tok \in 1..nextTok

TokensOwned ==
    /\ \A i \in 1..Len(stdin) : Owned(stdin[i])
    /\ \A i \in 1..Len(stdout) : Owned(stdout[i]) /\ WasExecuted(stdout[i])
    /\ \A r \in inbox : Owned(r) /\ WasExecuted(r)

\* The command has been issued, and it is not the call its caller is preparing.
Issued(cmd) ==
    /\ cmd.n \in 1..calls[cmd.by]
    /\ pc[cmd.by] \in {"sem", "check", "register", "write"} => cmd.n # calls[cmd.by]

\* The commands of one caller reach gdb in the order of its calls.
IssueOrder ==
    /\ \A i \in 1..Len(stdin) : Issued(stdin[i])
    /\ \A i \in 1..Len(executed) : Issued(executed[i])
    /\ \A i, j \in 1..Len(stdin) :
          (i < j /\ stdin[i].by = stdin[j].by) => stdin[i].n < stdin[j].n
    /\ \A i \in 1..Len(executed), j \in 1..Len(stdin) :
          executed[i].by = stdin[j].by => executed[i].n < stdin[j].n
    /\ \A c \in Callers : pc[c] # "idle" => calls[c] > 0

IInv == TypeOK /\ TokensIssued /\ TokensOwned /\ IssueOrder /\ OwnReply

-----------------------------------------------------------------------------
(* Types.                                                                  *)

\* A group of variables that stays as it is keeps its types.
LEMMA SameSend == SendTypes /\ UNCHANGED sendVars => SendTypes'
  BY DEF SendTypes, sendVars
LEMMA SameTable == TableTypes /\ UNCHANGED tableVars => TableTypes'
  BY DEF TableTypes, tableVars
LEMMA SameGdb == GdbTypes /\ UNCHANGED gdbVars => GdbTypes'
  BY DEF GdbTypes, gdbVars
LEMMA SameQueue == QueueTypes /\ UNCHANGED queueVars => QueueTypes'
  BY DEF QueueTypes, queueVars
LEMMA SameDeath == DeathTypes /\ UNCHANGED deathVars => DeathTypes'
  BY DEF DeathTypes, deathVars

LEMMA FailedType == \A why \in {"ctx", "dead", "write"} : Failed(why) \in Outcomes
  BY DEF Failed, Outcomes

LEMMA IdleType == Idle \in Outcomes
  BY DEF Idle, Outcomes

LEMMA InitTypeOK == Init => TypeOK
  <1> SUFFICES ASSUME Init PROVE TypeOK
    OBVIOUS
  <1>1. SendTypes
    BY CallersAssumption, IdleType DEF Init, SendTypes
  <1>2. TableTypes /\ GdbTypes /\ QueueTypes /\ DeathTypes
    BY BoundsAssumption DEF Init, TableTypes, GdbTypes, QueueTypes, DeathTypes
  <1> QED
    BY <1>1, <1>2 DEF TypeOK

\* Entering and leaving a call keeps the types of the callers.
LEMMA BeginTypes ==
  ASSUME SendTypes, NEW c \in Callers, Begin(c)
  PROVE  SendTypes'
  BY IdleType DEF SendTypes, Begin

LEMMA ReturnTypes ==
  ASSUME SendTypes, NEW c \in Callers, NEW o \in Outcomes, Return(c, o)
  PROVE  SendTypes'
  BY DEF SendTypes, Return

LEMMA ForgetTypes ==
  ASSUME TableTypes, NEW t \in Nat, NEW b \in BOOLEAN, Forget(t, b)
  PROVE  TableTypes'
  <1> DEFINE order == Append(tombOrder, t)
  <1>1. order \in Seq(Nat) /\ Len(order) > 0
    BY DEF TableTypes
  <1>2. Tail(order) \in Seq(Nat)
    BY <1>1
  <1> QED
    BY <1>1, <1>2 DEF TableTypes, Forget

\* The steps of a call.
LEMMA CallTypeOK ==
  ASSUME TypeOK, NEW c \in Callers, Call(c) \/ CallStep(c) \/ Deadline(c)
  PROVE  TypeOK'
  <1> USE DEF TypeOK
  <1>1. CASE Call(c)
    BY <1>1, BeginTypes, SameTable, SameGdb, SameQueue, SameDeath DEF Call
  <1>2. CASE AcquireSem(c)
    <2>1. SendTypes'
      BY <1>2 DEF AcquireSem, SendTypes
    <2> QED
      BY <1>2, <2>1, SameTable, SameGdb, SameQueue, SameDeath DEF AcquireSem
  <1>3. CASE DeadAtSem(c) \/ AbandonSem(c)
    BY <1>3, FailedType, ReturnTypes, SameTable, SameGdb, SameQueue, SameDeath
       DEF DeadAtSem, AbandonSem
  <1>4. CASE CheckDead(c)
    <2>1. SendTypes'
      BY <1>4, FailedType, ReturnTypes DEF CheckDead, SendTypes
    <2> QED
      BY <1>4, <2>1, SameTable, SameGdb, SameQueue, SameDeath DEF CheckDead
  <1>5. CASE Register(c)
    <2>1. SendTypes' /\ TableTypes'
      BY <1>5 DEF Register, SendTypes, TableTypes
    <2> QED
      BY <1>5, <2>1, SameGdb, SameQueue, SameDeath DEF Register
  <1>6. CASE WriteLine(c)
    <2>1. tok[c] \in Nat /\ calls[c] \in Nat
      BY DEF SendTypes
    <2>2. CASE stdinOpen /\ gdbUp
      <3>1. SendTypes'
        BY <1>6, <2>2 DEF WriteLine, SendTypes
      <3>2. [tok |-> tok[c], by |-> c, n |-> calls[c]] \in Lines
        BY <2>1 DEF Lines
      <3>3. GdbTypes'
        <4>1. stdin' = Append(stdin, [tok |-> tok[c], by |-> c, n |-> calls[c]])
          BY <1>6, <2>2 DEF WriteLine
        <4>2. UNCHANGED <<stdinOpen, stdout, gdbUp, asyncs, executed>>
          BY <1>6 DEF WriteLine
        <4> QED
          BY <4>1, <4>2, <3>2 DEF GdbTypes
      <3> QED
        BY <1>6, <2>2, <3>1, <3>3, SameTable, SameQueue, SameDeath DEF WriteLine
    <2>3. CASE ~(stdinOpen /\ gdbUp)
      <3>1. SendTypes' /\ TableTypes'
        BY <1>6, <2>1, <2>3, FailedType, ReturnTypes, ForgetTypes DEF WriteLine
      <3>2. GdbTypes'
        BY <1>6, <2>3 DEF WriteLine, GdbTypes
      <3> QED
        BY <1>6, <3>1, <3>2, SameQueue, SameDeath DEF WriteLine
    <2> QED
      BY <2>2, <2>3
  <1>7. CASE TakeReply(c)
    <2>1. PICK r \in inbox :
             inbox' = inbox \ {r} /\ Return(c, [how |-> "reply", by |-> r.by, n |-> r.n])
      BY <1>7 DEF TakeReply
    <2>2. [how |-> "reply", by |-> r.by, n |-> r.n] \in Outcomes
      BY DEF TableTypes, Records, Outcomes
    <2>3. SendTypes'
      BY <2>1, <2>2, ReturnTypes
    <2>4. TableTypes'
      BY <1>7, <2>1 DEF TakeReply, TableTypes
    <2> QED
      BY <1>7, <2>3, <2>4, SameGdb, SameQueue, SameDeath DEF TakeReply
  <1>8. CASE TakeHangup(c)
    <2>1. SendTypes'
      BY <1>8, FailedType, ReturnTypes DEF TakeHangup
    <2>2. TableTypes'
      BY <1>8 DEF TakeHangup, TableTypes
    <2> QED
      BY <1>8, <2>1, <2>2, SameGdb, SameQueue, SameDeath DEF TakeHangup
  <1>9. CASE GiveUp(c) \/ NoticeDead(c)
    <2>1. tok[c] \in Nat
      BY DEF SendTypes
    <2>2. SendTypes' /\ TableTypes'
      BY <1>9, <2>1, FailedType, ReturnTypes, ForgetTypes DEF GiveUp, NoticeDead
    <2> QED
      BY <1>9, <2>2, SameGdb, SameQueue, SameDeath DEF GiveUp, NoticeDead
  <1> QED
    BY <1>1, <1>2, <1>3, <1>4, <1>5, <1>6, <1>7, <1>8, <1>9 DEF CallStep, Deadline

\* A record in the queues is gdb's; what the loops leave alone keeps its type.
LEMMA LoopTypes ==
  ASSUME TypeOK, CallersWait
  PROVE  /\ SendTypes' /\ DeathTypes'
         /\ stdout' \in Seq(Records) => GdbTypes'
  BY SameSend, SameDeath DEF TypeOK, CallersWait, GdbTypes

\* The steps of gdb.
LEMMA GdbTypeOK ==
  ASSUME TypeOK, GdbAnswer \/ GdbSpeaks \/ GdbExit
  PROVE  TypeOK'
  <1> USE DEF TypeOK
  <1>1. UNCHANGED <<sendVars, tableVars, queueVars, deathVars>>
    BY DEF GdbAnswer, GdbSpeaks, GdbExit
  <1>2. CASE GdbAnswer
    <2>1. Head(stdin) \in Lines /\ Tail(stdin) \in Seq(Lines)
      BY <1>2 DEF GdbAnswer, GdbTypes
    <2>2. /\ Head(stdin) \in Records
          /\ [by |-> Head(stdin).by, n |-> Head(stdin).n] \in Commands
      BY <2>1 DEF Lines, Records, Commands
    <2> QED
      BY <1>1, <1>2, <2>1, <2>2, SameSend, SameTable, SameQueue, SameDeath
         DEF GdbAnswer, GdbTypes
  <1>3. CASE GdbSpeaks
    <2>1. asyncs' \in Nat /\ [tok |-> 0, by |-> Gdb, n |-> asyncs'] \in Records
      BY <1>3 DEF GdbSpeaks, GdbTypes, Records
    <2> QED
      BY <1>1, <1>3, <2>1, SameSend, SameTable, SameQueue, SameDeath DEF GdbSpeaks, GdbTypes
  <1>4. CASE GdbExit
    <2>1. GdbTypes'
      <3>1. stdin' \in Seq(Lines)
        BY <1>4 DEF GdbExit
      <3>2. gdbUp' \in BOOLEAN
        BY <1>4 DEF GdbExit
      <3>3. UNCHANGED <<stdinOpen, stdout, asyncs, executed>>
        BY <1>4 DEF GdbExit
      <3> QED
        BY <3>1, <3>2, <3>3 DEF GdbTypes
    <2> QED
      BY <1>1, <2>1, SameSend, SameTable, SameQueue, SameDeath
  <1> QED
    BY <1>2, <1>3, <1>4

\* The steps of the two loops and of the actor's drain.
LEMMA LoopTypeOK ==
  ASSUME TypeOK, Reading \/ Dispatching \/ Drain
  PROVE  TypeOK'
  <1> USE DEF TypeOK
  <1>1. stdout # <<>> => Head(stdout) \in Records /\ Tail(stdout) \in Seq(Records)
    BY DEF GdbTypes
  <1>2. CASE RouteToCaller \/ RouteToTombstone
    <2>1. stdout' \in Seq(Records) /\ CallersWait /\ TableTypes' /\ UNCHANGED queueVars
      BY <1>1, <1>2 DEF RouteToCaller, RouteToTombstone, TableTypes
    <2> QED
      BY <2>1, LoopTypes, SameQueue
  <1>3. CASE RouteToEvents
    <2>1. stdout' \in Seq(Records) /\ CallersWait /\ UNCHANGED tableVars
      BY <1>1, <1>3 DEF RouteToEvents
    <2>2. hand' \in Seq(Records) /\ Len(hand') = 1
      BY <1>1, <1>3 DEF RouteToEvents
    <2>3. QueueTypes'
      BY <1>3, <2>2 DEF RouteToEvents, QueueTypes
    <2> QED
      BY <2>1, <2>3, LoopTypes, SameTable
  <1>4. CASE Emit
    <2>1. hand[1] \in Records
      <3>1. hand \in Seq(Records) /\ Len(hand) = 1
        BY <1>4 DEF Emit, QueueTypes
      <3> QED
        BY <3>1
    <2>2. QueueTypes'
      BY <1>4, <2>1, BoundsAssumption DEF Emit, QueueTypes
    <2> QED
      BY <1>4, <2>2, LoopTypes, SameTable DEF Emit, GdbTypes
  <1>5. CASE ReadError
    <2>1. stdout' \in Seq(Records) /\ CallersWait /\ UNCHANGED tableVars
      BY <1>5 DEF ReadError
    <2>2. QueueTypes'
      BY <1>5 DEF ReadError, QueueTypes
    <2> QED
      BY <2>1, <2>2, LoopTypes, SameTable
  <1>6. CASE ReaderEnd
    <2>1. QueueTypes'
      BY <1>6 DEF ReaderEnd, QueueTypes
    <2> QED
      BY <1>6, <2>1, SameSend, SameTable, SameGdb, SameDeath DEF ReaderEnd
  <1>7. CASE Dispatch \/ DispatchEnd
    <2>1. events # <<>> =>
             Head(events) \in Records /\ Tail(events) \in Seq(Records)
             /\ Len(Tail(events)) <= QueueSize
      BY BoundsAssumption DEF QueueTypes
    <2>2. QueueTypes'
      <3>1. CASE Dispatch
        BY <1>7, <2>1, <3>1 DEF Dispatch, QueueTypes
      <3>2. CASE DispatchEnd
        BY <3>2 DEF DispatchEnd, QueueTypes
      <3> QED
        BY <1>7, <3>1, <3>2
    <2> QED
      BY <1>7, <2>2, LoopTypes, SameTable DEF Dispatch, DispatchEnd, GdbTypes
  <1>8. CASE Drain
    <2>1. Head(intake) \in Records /\ Tail(intake) \in Seq(Records)
      BY <1>8 DEF Drain, QueueTypes
    <2>2. QueueTypes'
      BY <1>8, <2>1 DEF Drain, QueueTypes, Records
    <2> QED
      BY <1>8, <2>2, LoopTypes, SameTable DEF Drain, GdbTypes
  <1> QED
    BY <1>2, <1>3, <1>4, <1>5, <1>6, <1>7, <1>8 DEF Reading, Dispatching

\* The steps of markDead and doClose.
LEMMA EndTypeOK ==
  ASSUME TypeOK, Dying \/ CloseStart \/ Closing
  PROVE  TypeOK'
  <1> USE DEF TypeOK
  <1>1. CASE MarkDead \/ CloseChannel
    <2>1. TableTypes' /\ DeathTypes'
      BY <1>1 DEF MarkDead, SwapPending, CloseChannel, TableTypes, DeathTypes
    <2> QED
      BY <1>1, <2>1, SameSend, SameGdb, SameQueue DEF MarkDead, CloseChannel
  <1>2. CASE CloseDead \/ CloseStart \/ CloseWait \/ CloseMarked \/ CloseJoin
    <2>1. DeathTypes'
      BY <1>2 DEF CloseDead, CloseStart, CloseWait, CloseMarked, CloseJoin, DeathTypes
    <2> QED
      BY <1>2, <2>1, SameSend, SameTable, SameGdb, SameQueue
         DEF CloseDead, CloseStart, CloseWait, CloseMarked, CloseJoin
  <1>3. CASE CloseStep
    <2>1. DeathTypes'
      BY <1>3 DEF CloseStep, DeathTypes
    <2> QED
      BY <1>3, <2>1, BeginTypes, CallersAssumption, SameTable, SameGdb, SameQueue DEF CloseStep
  <1>4. CASE CloseStdin
    <2>1. DeathTypes' /\ GdbTypes'
      BY <1>4 DEF CloseStdin, DeathTypes, GdbTypes
    <2> QED
      BY <1>4, <2>1, SameSend, SameTable, SameQueue DEF CloseStdin
  <1> QED
    BY <1>1, <1>2, <1>3, <1>4 DEF Dying, Closing

LEMMA NextTypeOK == TypeOK /\ [Next]_vars => TypeOK'
  <1> SUFFICES ASSUME TypeOK, [Next]_vars PROVE TypeOK'
    OBVIOUS
  <1>1. CASE UNCHANGED vars
    BY <1>1, SameSend, SameTable, SameGdb, SameQueue, SameDeath DEF TypeOK, vars
  <1> QED
    BY <1>1, CallTypeOK, GdbTypeOK, LoopTypeOK, EndTypeOK DEF Next, Environment, KillGroup

\* Every variable keeps its type and the event queue its capacity.
THEOREM TypeCorrect == Spec => []TypeOK
  BY InitTypeOK, NextTypeOK, PTL DEF Spec

-----------------------------------------------------------------------------
(* What a step does to the invariant.                                      *)

LEMMA AppendFacts ==
  ASSUME NEW S, NEW s \in Seq(S), NEW e \in S
  PROVE  /\ Append(s, e) \in Seq(S)
         /\ Len(Append(s, e)) = Len(s) + 1
         /\ \A i \in 1..Len(s) : Append(s, e)[i] = s[i]
         /\ Append(s, e)[Len(s) + 1] = e
  OBVIOUS

LEMMA TailFacts ==
  ASSUME NEW S, NEW s \in Seq(S), s # <<>>
  PROVE  /\ Tail(s) \in Seq(S)
         /\ Len(s) \in Nat \ {0}
         /\ Head(s) = s[1]
         /\ Len(Tail(s)) = Len(s) - 1
         /\ \A i \in 1..Len(Tail(s)) : Tail(s)[i] = s[i + 1] /\ i + 1 \in 1..Len(s)
  OBVIOUS

\* What the four parts of the invariant speak of.
coreVars == <<pc, calls, tok, answer, nextTok, pending, inbox, stdin, stdout, executed>>

\* A step that only takes records away or moves one into a caller's channel.
Loses ==
    /\ UNCHANGED <<pc, calls, tok, answer, nextTok, executed>>
    /\ pending' \subseteq pending
    /\ stdin' = stdin \/ stdin' = <<>>
    /\ \A i \in 1..Len(stdout') : \E j \in 1..Len(stdout) : stdout'[i] = stdout[j]
    /\ \A r \in inbox' : \/ r \in inbox
                         \/ r.tok \in pending /\ \E j \in 1..Len(stdout) : r = stdout[j]

\* A call that ends without a success.
Fails(c) ==
    /\ pc[c] # "idle"
    /\ pc' = [pc EXCEPT ![c] = "idle"]
    /\ \E why \in {"ctx", "dead", "write"} : answer' = [answer EXCEPT ![c] = Failed(why)]
    /\ UNCHANGED <<calls, tok, nextTok, stdin, stdout, executed>>
    /\ pending' \subseteq pending
    /\ inbox' \subseteq inbox

\* A call on its way to write.
Prepares(c) ==
    /\ \/ pc[c] = "sem" /\ pc' = [pc EXCEPT ![c] = "check"]
       \/ pc[c] = "check" /\ pc' = [pc EXCEPT ![c] = "register"]
    /\ UNCHANGED <<calls, tok, answer, nextTok, pending, inbox, stdin, stdout, executed>>

Begins(c) ==
    /\ Begin(c)
    /\ UNCHANGED <<nextTok, pending, inbox, stdin, stdout, executed>>

Writes(c) ==
    /\ pc[c] = "write"
    /\ pc' = [pc EXCEPT ![c] = "wait"]
    /\ stdin' = Append(stdin, [tok |-> tok[c], by |-> c, n |-> calls[c]])
    /\ UNCHANGED <<calls, tok, answer, nextTok, pending, inbox, stdout, executed>>

\* Every step is one of these, as far as coreVars go.
CoreStep ==
    \/ \E c \in Callers : \/ Begins(c) \/ Prepares(c) \/ Fails(c) \/ Register(c)
                          \/ Writes(c) \/ TakeReply(c)
    \/ GdbAnswer \/ GdbSpeaks \/ Loses

LEMMA SameCoreLoses == UNCHANGED coreVars => Loses
  BY DEF Loses, coreVars

LEMMA CallCoreStep ==
  ASSUME TypeOK, NEW c \in Callers, Call(c) \/ CallStep(c) \/ Deadline(c)
  PROVE  CoreStep
  <1> USE DEF tableVars, gdbVars
  <1>1. CASE Call(c)
    BY <1>1 DEF Call, Begins, CoreStep
  <1>2. CASE AcquireSem(c)
    BY <1>2 DEF AcquireSem, Prepares, CoreStep
  <1>3. CASE DeadAtSem(c) \/ AbandonSem(c)
    <2>1. Fails(c)
      BY <1>3 DEF DeadAtSem, AbandonSem, Return, Fails
    <2> QED
      BY <2>1 DEF CoreStep
  <1>4. CASE CheckDead(c)
    <2>1. Fails(c) \/ Prepares(c)
      BY <1>4 DEF CheckDead, Return, Fails, Prepares
    <2> QED
      BY <2>1 DEF CoreStep
  <1>5. CASE Register(c) \/ TakeReply(c)
    BY <1>5 DEF CoreStep
  <1>6. CASE WriteLine(c)
    <2>1. CASE stdinOpen /\ gdbUp
      BY <1>6, <2>1 DEF WriteLine, Writes, CoreStep
    <2>2. CASE ~(stdinOpen /\ gdbUp)
      <3>1. Fails(c)
        BY <1>6, <2>2 DEF WriteLine, Forget, Return, Fails
      <3> QED
        BY <3>1 DEF CoreStep
    <2> QED
      BY <2>1, <2>2
  <1>7. CASE TakeHangup(c) \/ GiveUp(c) \/ NoticeDead(c)
    <2>1. Fails(c)
      BY <1>7 DEF TakeHangup, GiveUp, NoticeDead, Forget, Return, Fails
    <2> QED
      BY <2>1 DEF CoreStep
  <1> QED
    BY <1>1, <1>2, <1>3, <1>4, <1>5, <1>6, <1>7 DEF CallStep, Deadline

LEMMA OtherCoreStep ==
  ASSUME TypeOK, Environment \/ Reading \/ Dispatching \/ Drain \/ Dying
                 \/ CloseStart \/ Closing
  PROVE  CoreStep
  <1> USE DEF sendVars, tableVars, gdbVars, coreVars
  <1>1. CASE GdbAnswer \/ GdbSpeaks
    BY <1>1 DEF CoreStep
  <1>2. CASE GdbExit
    BY <1>2 DEF GdbExit, Loses, CoreStep
  <1>3. CASE RouteToCaller \/ RouteToTombstone \/ RouteToEvents
    <2>1. stdout \in Seq(Records) /\ stdout # <<>> /\ stdout' = Tail(stdout)
      BY <1>3 DEF RouteToCaller, RouteToTombstone, RouteToEvents, TypeOK, GdbTypes
    <2>2. \A i \in 1..Len(stdout') : \E j \in 1..Len(stdout) : stdout'[i] = stdout[j]
      BY <2>1, TailFacts
    <2>3. Head(stdout) = stdout[1] /\ 1 \in 1..Len(stdout)
      BY <2>1, TailFacts
    <2>4. \A r \in inbox' : r \in inbox \/ (r.tok \in pending /\ r = stdout[1])
      BY <1>3, <2>3 DEF RouteToCaller, RouteToTombstone, RouteToEvents
    <2>5. /\ UNCHANGED <<pc, calls, tok, answer, nextTok, executed, stdin>>
          /\ pending' \subseteq pending
      BY <1>3 DEF RouteToCaller, RouteToTombstone, RouteToEvents, CallersWait
    <2>6. Loses
      BY <2>2, <2>3, <2>4, <2>5 DEF Loses
    <2> QED
      BY <2>6 DEF CoreStep
  <1>4. CASE ReadError
    BY <1>4 DEF ReadError, CallersWait, Loses, CoreStep
  <1>5. CASE Emit \/ ReaderEnd \/ Dispatching \/ Drain
    <2>1. UNCHANGED coreVars
      BY <1>5 DEF Emit, ReaderEnd, Dispatching, Dispatch, DispatchEnd, Drain, CallersWait
    <2> QED
      BY <2>1, SameCoreLoses DEF CoreStep
  <1>6. CASE MarkDead
    BY <1>6 DEF MarkDead, SwapPending, Loses, CoreStep
  <1>7. CASE CloseStep
    BY <1>7, CallersAssumption DEF CloseStep, Begins, CoreStep
  <1>8. CASE CloseDead \/ CloseChannel \/ CloseStart \/ CloseStdin \/ CloseWait
             \/ CloseMarked \/ CloseJoin
    <2>1. UNCHANGED coreVars
      BY <1>8 DEF CloseDead, CloseChannel, CloseStart, CloseStdin, CloseWait, CloseMarked, CloseJoin
    <2> QED
      BY <2>1, SameCoreLoses DEF CoreStep
  <1> QED
    BY <1>1, <1>2, <1>3, <1>4, <1>5, <1>6, <1>7, <1>8 DEF Environment, Reading, Dying, Closing

LEMMA NextCoreStep == TypeOK /\ [Next]_vars => CoreStep
  <1> SUFFICES ASSUME TypeOK, [Next]_vars PROVE CoreStep
    OBVIOUS
  <1>1. CASE UNCHANGED vars
    <2>1. UNCHANGED coreVars
      BY <1>1 DEF vars, sendVars, tableVars, gdbVars, coreVars
    <2> QED
      BY <2>1, SameCoreLoses DEF CoreStep
  <1>2. KillGroup => Environment
    BY DEF KillGroup, Environment
  <1> QED
    BY <1>1, <1>2, CallCoreStep, OtherCoreStep DEF Next

LEMMA InitIInv == Init => IInv
  <1> SUFFICES ASSUME Init PROVE IInv
    OBVIOUS
  <1>1. InFlight = {}
    BY DEF Init, InFlight
  <1> QED
    BY <1>1, InitTypeOK
       DEF Init, IInv, TokensIssued, TokensOwned, IssueOrder, OwnReply, Idle

\* What a step does to the calls in flight.
LEMMA FlightStep ==
  ASSUME TypeOK, CoreStep
  PROVE  /\ ~(\E c \in Callers : Register(c)) =>
              /\ InFlight' \subseteq InFlight
              /\ \A c \in InFlight' : tok'[c] = tok[c] /\ calls'[c] = calls[c]
              /\ nextTok' = nextTok
         /\ \A c \in Callers : Register(c) =>
              /\ InFlight' = InFlight \cup {c}
              /\ nextTok' = nextTok + 1
              /\ tok' = [tok EXCEPT ![c] = nextTok + 1]
              /\ UNCHANGED <<calls, answer, inbox, stdin, stdout, executed>>
              /\ pending' = pending \cup {nextTok + 1}
  <1> USE DEF TypeOK, SendTypes
  <1>1. ASSUME NEW c \in Callers, Register(c)
        PROVE  /\ InFlight' = InFlight \cup {c}
               /\ nextTok' = nextTok + 1
               /\ tok' = [tok EXCEPT ![c] = nextTok + 1]
               /\ UNCHANGED <<calls, answer, inbox, stdin, stdout, executed>>
               /\ pending' = pending \cup {nextTok + 1}
    BY <1>1 DEF Register, InFlight, gdbVars
  <1>2. ASSUME NEW c \in Callers, Begins(c) \/ Prepares(c) \/ Fails(c) \/ Writes(c) \/ TakeReply(c)
        PROVE  /\ InFlight' \subseteq InFlight
               /\ \A d \in InFlight' : tok'[d] = tok[d] /\ calls'[d] = calls[d]
               /\ nextTok' = nextTok
    <2>1. CASE Begins(c)
      BY <1>2, <2>1 DEF Begins, Begin, InFlight
    <2>2. CASE Prepares(c) \/ Fails(c) \/ Writes(c) \/ TakeReply(c)
      BY <1>2, <2>2 DEF Prepares, Fails, Writes, TakeReply, Return, InFlight
    <2> QED
      BY <1>2, <2>1, <2>2
  <1>3. CASE GdbAnswer \/ GdbSpeaks \/ Loses
    <2>1. UNCHANGED <<pc, calls, tok, nextTok>>
      BY <1>3 DEF GdbAnswer, GdbSpeaks, Loses, sendVars, tableVars
    <2>2. \A c \in Callers : ~Register(c)
      BY <2>1 DEF Register, TableTypes
    <2> QED
      BY <2>1, <2>2 DEF InFlight
  <1> QED
    BY <1>1, <1>2, <1>3 DEF CoreStep

\* Where the lines and records of the next state come from.
LEMMA RecordStep ==
  ASSUME TypeOK, CoreStep
  PROVE  /\ \A i \in 1..Len(stdin') :
              \/ i \in 1..Len(stdin) /\ stdin'[i] = stdin[i]
              \/ i + 1 \in 1..Len(stdin) /\ stdin'[i] = stdin[i + 1]
              \/ \E c \in Callers :
                    Writes(c) /\ stdin'[i] = [tok |-> tok[c], by |-> c, n |-> calls[c]]
         /\ \A i \in 1..Len(stdout') :
              \/ \E j \in 1..Len(stdout) : stdout'[i] = stdout[j]
              \/ GdbAnswer /\ 1 \in 1..Len(stdin) /\ stdout'[i] = stdin[1]
              \/ stdout'[i].tok = 0
         /\ \A r \in inbox' :
              \/ r \in inbox
              \/ r.tok \in pending /\ \E j \in 1..Len(stdout) : r = stdout[j]
         /\ pending' \subseteq pending \/ \E c \in Callers : Register(c)
  <1> USE DEF TypeOK
  <1>1. ASSUME NEW c \in Callers, Writes(c)
        PROVE  \A i \in 1..Len(stdin') :
                  \/ i \in 1..Len(stdin) /\ stdin'[i] = stdin[i]
                  \/ stdin'[i] = [tok |-> tok[c], by |-> c, n |-> calls[c]]
    <2>1. [tok |-> tok[c], by |-> c, n |-> calls[c]] \in Lines
      BY DEF SendTypes, Lines
    <2>2. stdin' = Append(stdin, [tok |-> tok[c], by |-> c, n |-> calls[c]])
      BY <1>1 DEF Writes
    <2>3. stdin \in Seq(Lines)
      BY DEF GdbTypes
    <2> QED
      BY <2>1, <2>2, <2>3, AppendFacts
  <1>2. ASSUME GdbAnswer
        PROVE  /\ \A i \in 1..Len(stdin') : i + 1 \in 1..Len(stdin) /\ stdin'[i] = stdin[i + 1]
               /\ 1 \in 1..Len(stdin)
               /\ \A i \in 1..Len(stdout') :
                     \/ i \in 1..Len(stdout) /\ stdout'[i] = stdout[i]
                     \/ stdout'[i] = stdin[1]
               /\ UNCHANGED <<inbox, pending>>
    <2>1. stdin \in Seq(Lines) /\ stdin # <<>> /\ stdin' = Tail(stdin)
      BY <1>2 DEF GdbAnswer, GdbTypes
    <2>2. stdout \in Seq(Records) /\ stdout' = Append(stdout, Head(stdin))
      BY <1>2 DEF GdbAnswer, GdbTypes
    <2>3. Head(stdin) = stdin[1] /\ Head(stdin) \in Lines /\ 1 \in 1..Len(stdin)
      BY <2>1
    <2>4. Head(stdin) \in Records
      BY <2>3 DEF Lines, Records
    <2>5. UNCHANGED <<inbox, pending>>
      BY <1>2 DEF GdbAnswer, tableVars
    <2> QED
      BY <2>1, <2>2, <2>3, <2>4, <2>5, TailFacts, AppendFacts
  <1>3. ASSUME GdbSpeaks
        PROVE  /\ \A i \in 1..Len(stdout') :
                     \/ i \in 1..Len(stdout) /\ stdout'[i] = stdout[i]
                     \/ stdout'[i].tok = 0
               /\ UNCHANGED <<inbox, pending, stdin>>
    <2>1. [tok |-> 0, by |-> Gdb, n |-> asyncs'] \in Records
      BY <1>3 DEF GdbSpeaks, GdbTypes, Records
    <2>2. stdout \in Seq(Records) /\ stdout' = Append(stdout, [tok |-> 0, by |-> Gdb, n |-> asyncs'])
      BY <1>3 DEF GdbSpeaks, GdbTypes
    <2>3. UNCHANGED <<inbox, pending, stdin>>
      BY <1>3 DEF GdbSpeaks, tableVars
    <2> QED
      BY <2>1, <2>2, <2>3, AppendFacts
  <1>4. CASE \E c \in Callers : \/ Begins(c) \/ Prepares(c) \/ Fails(c) \/ Register(c)
                                \/ TakeReply(c)
    <2>1. UNCHANGED <<stdin, stdout>> /\ inbox' \subseteq inbox
      BY <1>4 DEF Begins, Prepares, Fails, Register, TakeReply, gdbVars
    <2>2. pending' \subseteq pending \/ \E c \in Callers : Register(c)
      BY <1>4 DEF Begins, Prepares, Fails, TakeReply
    <2> QED
      BY <2>1, <2>2
  <1>5. CASE \E c \in Callers : Writes(c)
    BY <1>1, <1>5 DEF Writes
  <1>6. CASE Loses
    BY <1>6 DEF Loses
  <1>7. CASE GdbAnswer
    BY <1>7, <1>2
  <1>8. CASE GdbSpeaks
    BY <1>8, <1>3
  <1> QED
    BY <1>4, <1>5, <1>6, <1>7, <1>8 DEF CoreStep

LEMMA TokensIssuedStep ==
  ASSUME TypeOK, TokensIssued, CoreStep
  PROVE  TokensIssued'
  <1>1. nextTok \in Nat /\ nextTok' \in Nat /\ nextTok <= nextTok'
    BY FlightStep DEF TypeOK, TableTypes
  <1>2. \A c \in InFlight' : tok'[c] \in 1..nextTok'
    <2>1. CASE \E c \in Callers : Register(c)
      BY <1>1, <2>1, FlightStep DEF TypeOK, SendTypes, TokensIssued, InFlight
    <2>2. CASE ~\E c \in Callers : Register(c)
      BY <2>2, FlightStep DEF TokensIssued
    <2> QED
      BY <2>1, <2>2
  <1>3. \A c, d \in InFlight' : tok'[c] = tok'[d] => c = d
    <2>1. CASE \E c \in Callers : Register(c)
      BY <1>1, <2>1, FlightStep DEF TypeOK, SendTypes, TokensIssued, InFlight
    <2>2. CASE ~\E c \in Callers : Register(c)
      BY <2>2, FlightStep DEF TokensIssued
    <2> QED
      BY <2>1, <2>2
  <1>4. pending' \subseteq 1..nextTok'
    <2>1. CASE \E c \in Callers : Register(c)
      <3>1. pending' = pending \cup {nextTok + 1} /\ nextTok' = nextTok + 1
        BY <2>1, FlightStep
      <3>2. pending \subseteq 1..nextTok
        BY DEF TokensIssued
      <3> QED
        BY <1>1, <3>1, <3>2
    <2>2. CASE pending' \subseteq pending
      BY <1>1, <2>2 DEF TokensIssued
    <2> QED
      BY <2>1, <2>2, RecordStep
  <1>5. \A i \in 1..Len(stdin') : stdin'[i].tok \in 1..nextTok'
    <2>1. \A c \in Callers : Writes(c) => tok[c] \in 1..nextTok
      BY DEF Writes, TokensIssued, InFlight
    <2>2. \A i \in 1..Len(stdin') :
             \/ \E j \in 1..Len(stdin) : stdin'[i] = stdin[j]
             \/ \E c \in Callers :
                   Writes(c) /\ stdin'[i] = [tok |-> tok[c], by |-> c, n |-> calls[c]]
      BY RecordStep
    <2>3. \A i \in 1..Len(stdin') : stdin'[i].tok \in 1..nextTok
      <3>1. SUFFICES ASSUME NEW i \in 1..Len(stdin') PROVE stdin'[i].tok \in 1..nextTok
        OBVIOUS
      <3>2. CASE \E j \in 1..Len(stdin) : stdin'[i] = stdin[j]
        BY <3>2 DEF TokensIssued
      <3>3. CASE \E c \in Callers :
                    Writes(c) /\ stdin'[i] = [tok |-> tok[c], by |-> c, n |-> calls[c]]
        <4>1. PICK c \in Callers :
                 Writes(c) /\ stdin'[i] = [tok |-> tok[c], by |-> c, n |-> calls[c]]
          BY <3>3
        <4>2. stdin'[i].tok = tok[c]
          BY <4>1
        <4> QED
          BY <2>1, <4>1, <4>2
      <3> QED
        BY <2>2, <3>2, <3>3
    <2> QED
      BY <1>1, <2>3
  <1>6. \A i \in 1..Len(stdout') : stdout'[i].tok \in 0..nextTok'
    <2>1. \A i \in 1..Len(stdout') : stdout'[i].tok \in 0..nextTok
      BY <1>1, RecordStep DEF TokensIssued
    <2> QED
      BY <1>1, <2>1
  <1>7. \A r \in inbox' : r.tok \in 1..nextTok'
    <2>1. \A r \in inbox' : r.tok \in 1..nextTok
      BY RecordStep DEF TokensIssued
    <2> QED
      BY <1>1, <2>1
  <1> QED
    BY <1>2, <1>3, <1>4, <1>5, <1>6, <1>7 DEF TokensIssued

\* Owned and WasExecuted of the next state, for a record of either state.
OwnedNext(r) ==
    r.tok # 0 => \A c \in InFlight' : r.tok = tok'[c] => r.by = c /\ r.n = calls'[c]

WasExecutedNext(r) ==
    r.tok # 0 => \E i \in 1..Len(executed') : executed'[i] = [by |-> r.by, n |-> r.n]

\* A record that was owned, or executed, stays so; a fresh token owns nothing.
LEMMA OwnedStep ==
  ASSUME TypeOK, TokensIssued, CoreStep
  PROVE  \A r : (r.tok \in 0..nextTok /\ Owned(r)) => OwnedNext(r)
  <1> SUFFICES ASSUME NEW r, r.tok \in 0..nextTok, Owned(r) PROVE OwnedNext(r)
    OBVIOUS
  <1>1. CASE \E c \in Callers : Register(c)
    <2>1. PICK c \in Callers : Register(c)
      BY <1>1
    <2>2. r.tok # nextTok + 1
      BY DEF TypeOK, TableTypes
    <2> QED
      BY <2>1, <2>2, FlightStep DEF Owned, OwnedNext, InFlight, TypeOK, SendTypes
  <1>2. CASE ~\E c \in Callers : Register(c)
    BY <1>2, FlightStep DEF Owned, OwnedNext
  <1> QED
    BY <1>1, <1>2

\* gdb's history only grows.
LEMMA ExecutedStep ==
  ASSUME TypeOK, CoreStep
  PROVE  /\ ~GdbAnswer => executed' = executed
         /\ GdbAnswer =>
              /\ Len(executed') = Len(executed) + 1
              /\ executed'[Len(executed) + 1] = [by |-> stdin[1].by, n |-> stdin[1].n]
              /\ Len(executed) \in Nat
              /\ 1 \in 1..Len(stdin)
         /\ \A i \in 1..Len(executed) : i \in 1..Len(executed') /\ executed'[i] = executed[i]
  <1>1. ~GdbAnswer => executed' = executed
    BY DEF CoreStep, Begins, Prepares, Fails, Register, Writes, TakeReply, GdbSpeaks, Loses, gdbVars
  <1>2. ASSUME GdbAnswer
        PROVE  /\ Len(executed') = Len(executed) + 1
               /\ executed'[Len(executed) + 1] = [by |-> stdin[1].by, n |-> stdin[1].n]
               /\ Len(executed) \in Nat
               /\ 1 \in 1..Len(stdin)
               /\ \A i \in 1..Len(executed) : i \in 1..Len(executed') /\ executed'[i] = executed[i]
    <2> DEFINE cmd == [by |-> Head(stdin).by, n |-> Head(stdin).n]
    <2>1. stdin \in Seq(Lines) /\ stdin # <<>>
      BY <1>2 DEF GdbAnswer, TypeOK, GdbTypes
    <2>2. Head(stdin) = stdin[1] /\ Head(stdin) \in Lines /\ 1 \in 1..Len(stdin)
      BY <2>1
    <2>3. cmd \in Commands
      BY <2>2 DEF Lines, Commands
    <2>4. executed \in Seq(Commands) /\ executed' = Append(executed, cmd)
      BY <1>2 DEF GdbAnswer, TypeOK, GdbTypes
    <2> HIDE DEF cmd
    <2>5. /\ Len(executed') = Len(executed) + 1
          /\ executed'[Len(executed) + 1] = cmd
          /\ Len(executed) \in Nat
          /\ \A i \in 1..Len(executed) : i \in 1..Len(executed') /\ executed'[i] = executed[i]
      BY <2>3, <2>4, AppendFacts
    <2> QED
      BY <2>2, <2>5 DEF cmd
  <1> QED
    BY <1>1, <1>2

LEMMA TokensOwnedStep ==
  ASSUME TypeOK, TokensIssued, TokensOwned, CoreStep
  PROVE  TokensOwned'
  <1>1. \A r : WasExecuted(r) => WasExecutedNext(r)
    BY ExecutedStep DEF WasExecuted, WasExecutedNext
  <1>2. nextTok \in Nat
    BY DEF TypeOK, TableTypes
  <1>3. \A i \in 1..Len(stdin') : OwnedNext(stdin'[i])
    <2>1. SUFFICES ASSUME NEW i \in 1..Len(stdin') PROVE OwnedNext(stdin'[i])
      OBVIOUS
    <2>2. CASE \E j \in 1..Len(stdin) : stdin'[i] = stdin[j]
      BY <1>2, <2>2, OwnedStep DEF TokensIssued, TokensOwned
    <2>3. CASE \E c \in Callers :
                  Writes(c) /\ stdin'[i] = [tok |-> tok[c], by |-> c, n |-> calls[c]]
      <3>1. PICK c \in Callers :
               Writes(c) /\ stdin'[i] = [tok |-> tok[c], by |-> c, n |-> calls[c]]
        BY <2>3
      <3>2. c \in InFlight /\ UNCHANGED <<tok, calls>> /\ InFlight' = InFlight
        BY <3>1 DEF Writes, InFlight, TypeOK, SendTypes
      <3> QED
        BY <3>1, <3>2 DEF OwnedNext, TokensIssued
    <2> QED
      BY <2>2, <2>3, RecordStep
  <1>4. \A i \in 1..Len(stdout') : OwnedNext(stdout'[i]) /\ WasExecutedNext(stdout'[i])
    <2>1. SUFFICES ASSUME NEW i \in 1..Len(stdout')
                   PROVE  OwnedNext(stdout'[i]) /\ WasExecutedNext(stdout'[i])
      OBVIOUS
    <2>2. CASE \E j \in 1..Len(stdout) : stdout'[i] = stdout[j]
      BY <1>1, <1>2, <2>2, OwnedStep DEF TokensIssued, TokensOwned
    <2>3. CASE GdbAnswer /\ 1 \in 1..Len(stdin) /\ stdout'[i] = stdin[1]
      <3>1. OwnedNext(stdout'[i])
        BY <1>2, <2>3, OwnedStep DEF TokensIssued, TokensOwned
      <3>2. WasExecutedNext(stdout'[i])
        BY <2>3, ExecutedStep DEF WasExecutedNext
      <3> QED
        BY <3>1, <3>2
    <2>4. CASE stdout'[i].tok = 0
      BY <2>4 DEF OwnedNext, WasExecutedNext
    <2> QED
      BY <2>2, <2>3, <2>4, RecordStep
  <1>5. \A r \in inbox' : OwnedNext(r) /\ WasExecutedNext(r)
    <2>1. SUFFICES ASSUME NEW r \in inbox' PROVE OwnedNext(r) /\ WasExecutedNext(r)
      OBVIOUS
    <2>2. Owned(r) /\ WasExecuted(r) /\ r.tok \in 0..nextTok
      BY <1>2, RecordStep DEF TokensIssued, TokensOwned
    <2> QED
      BY <1>1, <2>2, OwnedStep
  <1> QED
    BY <1>3, <1>4, <1>5 DEF TokensOwned, Owned, OwnedNext, WasExecuted, WasExecutedNext

LEMMA OwnReplyStep ==
  ASSUME TypeOK, TokensOwned, TokensIssued, OwnReply, CoreStep
  PROVE  OwnReply'
  <1> USE DEF TypeOK, SendTypes
  <1>1. SUFFICES ASSUME NEW d \in Callers, answer'[d].how = "reply"
                 PROVE  /\ answer'[d].by = d
                        /\ answer'[d].n = calls'[d]
                        /\ \E i \in 1..Len(executed') : executed'[i] = [by |-> d, n |-> calls'[d]]
    BY DEF OwnReply
  <1>2. CASE answer'[d] = answer[d] /\ calls'[d] = calls[d]
    <2>1. answer[d].how = "reply"
      BY <1>1, <1>2
    <2>2. PICK i \in 1..Len(executed) : executed[i] = [by |-> d, n |-> calls[d]]
      BY <2>1 DEF OwnReply
    <2>3. answer[d].by = d /\ answer[d].n = calls[d]
      BY <2>1 DEF OwnReply
    <2> QED
      BY <1>2, <2>2, <2>3, ExecutedStep
  <1>3. CASE TakeReply(d)
    <2>1. PICK r \in inbox :
             r.tok = tok[d] /\ Return(d, [how |-> "reply", by |-> r.by, n |-> r.n])
      BY <1>3 DEF TakeReply
    <2>2. r.tok # 0 /\ Owned(r) /\ WasExecuted(r)
      BY DEF TokensOwned, TokensIssued
    <2>3. d \in InFlight
      BY <1>3 DEF TakeReply, InFlight
    <2>4. r.by = d /\ r.n = calls[d]
      BY <2>1, <2>2, <2>3 DEF Owned
    <2>5. \E i \in 1..Len(executed) : executed[i] = [by |-> d, n |-> calls[d]]
      BY <2>2, <2>4 DEF WasExecuted
    <2>6. answer'[d].by = d /\ answer'[d].n = calls'[d] /\ calls' = calls
      BY <2>1, <2>4 DEF Return
    <2> QED
      BY <2>5, <2>6, ExecutedStep
  <1>4. CASE Begins(d) \/ Fails(d)
    <2>1. answer'[d].how # "reply"
      BY <1>4 DEF Begins, Begin, Fails, Idle, Failed
    <2> QED
      BY <1>1, <2>1
  <1>5. CASE \E c \in Callers \ {d} : Begins(c) \/ Fails(c) \/ TakeReply(c)
    <2>1. answer'[d] = answer[d] /\ calls'[d] = calls[d]
      BY <1>5 DEF Begins, Begin, Fails, TakeReply, Return
    <2> QED
      BY <1>2, <2>1
  <1>6. CASE \E c \in Callers : Prepares(c) \/ Register(c) \/ Writes(c)
    BY <1>2, <1>6 DEF Prepares, Register, Writes
  <1>7. CASE GdbAnswer \/ GdbSpeaks \/ Loses
    BY <1>2, <1>7 DEF GdbAnswer, GdbSpeaks, Loses, sendVars
  <1> QED
    BY <1>3, <1>4, <1>5, <1>6, <1>7 DEF CoreStep

\* A command that was issued stays issued.
LEMMA IssuedStep ==
  ASSUME TypeOK, IssueOrder, CoreStep, NEW c \in Callers
  PROVE  /\ calls'[c] >= calls[c] /\ calls'[c] \in Nat /\ calls[c] \in Nat
         /\ pc'[c] \in {"sem", "check", "register", "write"} =>
               \/ pc[c] \in {"sem", "check", "register", "write"} /\ calls'[c] = calls[c]
               \/ calls'[c] = calls[c] + 1
         /\ pc'[c] # "idle" => calls'[c] > 0
  <1> USE DEF TypeOK, SendTypes
  <1>1. CASE \E d \in Callers : Begins(d)
    BY <1>1 DEF Begins, Begin, IssueOrder
  <1>2. CASE \E d \in Callers : Prepares(d) \/ Fails(d) \/ Register(d) \/ Writes(d) \/ TakeReply(d)
    BY <1>2 DEF Prepares, Fails, Register, Writes, TakeReply, Return, IssueOrder
  <1>3. CASE GdbAnswer \/ GdbSpeaks \/ Loses
    <2>1. UNCHANGED <<pc, calls>>
      BY <1>3 DEF GdbAnswer, GdbSpeaks, Loses, sendVars
    <2> QED
      BY <2>1 DEF IssueOrder
  <1> QED
    BY <1>1, <1>2, <1>3 DEF CoreStep

\* Issued in the next state.
IssuedNext(cmd) ==
    /\ cmd.n \in 1..calls'[cmd.by]
    /\ pc'[cmd.by] \in {"sem", "check", "register", "write"} => cmd.n # calls'[cmd.by]

LEMMA IssuedStays ==
  ASSUME TypeOK, IssueOrder, CoreStep
  PROVE  \A cmd : (cmd.by \in Callers /\ Issued(cmd)) => IssuedNext(cmd)
  BY IssuedStep DEF Issued, IssuedNext

LEMMA IssueOrderStep ==
  ASSUME TypeOK, IssueOrder, CoreStep
  PROVE  IssueOrder'
  <1>1. /\ \A i \in 1..Len(stdin) : stdin[i] \in Lines
        /\ \A i \in 1..Len(executed) : executed[i] \in Commands
        /\ Len(stdin) \in Nat
    BY DEF TypeOK, GdbTypes
  <1>2. \A c \in Callers : pc'[c] # "idle" => calls'[c] > 0
    BY IssuedStep
  <1>3. \A i \in 1..Len(stdin) : IssuedNext(stdin[i])
    BY <1>1, IssuedStays DEF IssueOrder, Lines
  <1>4. \A i \in 1..Len(executed) : IssuedNext(executed[i])
    BY <1>1, IssuedStays DEF IssueOrder, Commands
  <1>5. CASE GdbAnswer
    <2>1. stdin \in Seq(Lines) /\ stdin # <<>> /\ stdin' = Tail(stdin)
      BY <1>5 DEF GdbAnswer, TypeOK, GdbTypes
    <2>2. \A i \in 1..Len(stdin') :
             stdin'[i] = stdin[i + 1] /\ i + 1 \in 1..Len(stdin) /\ i \in Nat
      BY <2>1, TailFacts
    <2>3. \A i \in 1..Len(executed') :
             \/ i \in 1..Len(executed) /\ executed'[i] = executed[i]
             \/ executed'[i] = [by |-> stdin[1].by, n |-> stdin[1].n]
      BY <1>5, ExecutedStep
    <2>4. 1 \in 1..Len(stdin)
      BY <1>5, ExecutedStep
    <2>5. \A i \in 1..Len(stdin') : IssuedNext(stdin'[i])
      BY <1>3, <2>2
    <2>6. \A i \in 1..Len(executed') : IssuedNext(executed'[i])
      BY <1>3, <1>4, <2>3, <2>4 DEF IssuedNext
    <2>7. \A i, j \in 1..Len(stdin') :
             (i < j /\ stdin'[i].by = stdin'[j].by) => stdin'[i].n < stdin'[j].n
      BY <2>2 DEF IssueOrder
    <2>8. \A i \in 1..Len(executed'), j \in 1..Len(stdin') :
             executed'[i].by = stdin'[j].by => executed'[i].n < stdin'[j].n
      <3>1. SUFFICES ASSUME NEW i \in 1..Len(executed'), NEW j \in 1..Len(stdin'),
                            executed'[i].by = stdin'[j].by
                     PROVE  executed'[i].n < stdin'[j].n
        OBVIOUS
      <3>2. stdin'[j] = stdin[j + 1] /\ j + 1 \in 1..Len(stdin) /\ 1 < j + 1
        BY <2>2
      <3>3. CASE i \in 1..Len(executed) /\ executed'[i] = executed[i]
        BY <3>1, <3>2, <3>3 DEF IssueOrder
      <3>4. CASE executed'[i] = [by |-> stdin[1].by, n |-> stdin[1].n]
        BY <2>4, <3>1, <3>2, <3>4 DEF IssueOrder
      <3> QED
        BY <2>3, <3>3, <3>4
    <2> QED
      BY <1>2, <2>5, <2>6, <2>7, <2>8 DEF IssueOrder, Issued, IssuedNext
  <1>6. CASE \E c \in Callers : Writes(c)
    <2>1. PICK c \in Callers : Writes(c)
      BY <1>6
    <2> DEFINE line == [tok |-> tok[c], by |-> c, n |-> calls[c]]
    <2>2. stdin \in Seq(Lines) /\ line \in Lines /\ stdin' = Append(stdin, line)
      BY <2>1 DEF Writes, TypeOK, GdbTypes, SendTypes, Lines
    <2>3. line.by = c /\ line.n = calls[c]
      OBVIOUS
    <2> HIDE DEF line
    <2>4. /\ Len(stdin') = Len(stdin) + 1
          /\ \A i \in 1..Len(stdin) : stdin'[i] = stdin[i]
          /\ stdin'[Len(stdin) + 1] = line
      BY <2>2, AppendFacts
    <2>5. /\ UNCHANGED <<calls, executed>>
          /\ pc[c] = "write" /\ pc'[c] = "wait"
          /\ calls[c] \in Nat /\ calls[c] > 0
      BY <2>1 DEF Writes, TypeOK, SendTypes, IssueOrder
    <2>6. IssuedNext(line)
      BY <2>3, <2>5 DEF IssuedNext
    <2>7. \A i \in 1..Len(stdin) : stdin[i].by = c => stdin[i].n < calls[c]
      BY <1>1, <2>5 DEF IssueOrder, Issued
    <2>8. \A i \in 1..Len(executed) : executed[i].by = c => executed[i].n < calls[c]
      BY <1>1, <2>5 DEF IssueOrder, Issued
    <2>9. \A i \in 1..Len(stdin') : IssuedNext(stdin'[i])
      BY <1>1, <1>3, <2>4, <2>6
    <2>10. \A i, j \in 1..Len(stdin') :
             (i < j /\ stdin'[i].by = stdin'[j].by) => stdin'[i].n < stdin'[j].n
      BY <1>1, <2>3, <2>4, <2>7 DEF IssueOrder
    <2>11. \A i \in 1..Len(executed'), j \in 1..Len(stdin') :
             executed'[i].by = stdin'[j].by => executed'[i].n < stdin'[j].n
      <3>1. SUFFICES ASSUME NEW i \in 1..Len(executed), NEW j \in 1..Len(stdin'),
                            executed[i].by = stdin'[j].by
                     PROVE  executed[i].n < stdin'[j].n
        BY <2>5
      <3>2. CASE j \in 1..Len(stdin)
        BY <2>4, <3>1, <3>2 DEF IssueOrder
      <3>3. CASE j = Len(stdin) + 1
        BY <2>3, <2>4, <2>8, <3>1, <3>3
      <3> QED
        BY <1>1, <2>4, <3>2, <3>3
    <2> QED
      BY <1>2, <1>4, <2>5, <2>9, <2>10, <2>11 DEF IssueOrder, Issued, IssuedNext
  <1>7. CASE (stdin' = stdin \/ stdin' = <<>>) /\ executed' = executed
    BY <1>2, <1>3, <1>4, <1>7 DEF IssueOrder, Issued, IssuedNext
  <1>8. GdbAnswer \/ (\E c \in Callers : Writes(c))
        \/ ((stdin' = stdin \/ stdin' = <<>>) /\ executed' = executed)
    BY DEF CoreStep, Begins, Prepares, Fails, Register, TakeReply, GdbSpeaks, Loses, gdbVars
  <1> QED
    BY <1>5, <1>6, <1>7, <1>8

LEMMA NextIInv == IInv /\ [Next]_vars => IInv'
  BY NextTypeOK, NextCoreStep, TokensIssuedStep, TokensOwnedStep, IssueOrderStep, OwnReplyStep
     DEF IInv

THEOREM IInvHolds == Spec => []IInv
  BY InitIInv, NextIInv, PTL DEF Spec

\* A call that succeeds returns the reply gdb gave to that very command,
\* whatever was abandoned before it and however replies and death race (send).
THEOREM OwnReplyCorrect == Spec => []OwnReply
  <1>1. IInv => OwnReply
    BY DEF IInv
  <1> QED
    BY <1>1, IInvHolds, PTL

-----------------------------------------------------------------------------
(* The client implements plain calls.                                      *)

\* Initial states map to initial states of MICalls.
LEMMA InitAbstract == Init => Abstract!Init
  <1> SUFFICES ASSUME Init PROVE Abstract!Init
    OBVIOUS
  <1>1. [c \in Callers |-> pc[c] # "idle"] = [c \in Callers |-> FALSE]
    BY DEF Init
  <1>2. Outcome = [c \in Callers |-> "none"]
    BY DEF Init, Outcome, Idle
  <1> QED
    BY <1>1, <1>2 DEF Init, Abstract!Init

LEMMA FailedHow == \A why \in {"ctx", "dead", "write"} : Failed(why).how = why
  BY DEF Failed

\* Every step maps to a step of MICalls or to a stutter.
LEMMA NextAbstract ==
  ASSUME IInv, IInv', CoreStep
  PROVE  [Abstract!Next]_Abstract!vars
  <1> USE DEF IInv, TypeOK, SendTypes
  <1>1. ASSUME NEW c \in Callers, Begins(c)
        PROVE  Abstract!Begin(c)
    BY <1>1 DEF Begins, Begin, Abstract!Begin, Outcome, Idle
  <1>2. ASSUME NEW c \in Callers, Fails(c)
        PROVE  Abstract!Fail(c)
    BY <1>2, FailedHow DEF Fails, Abstract!Fail, Outcome
  <1>3. ASSUME NEW c \in Callers, TakeReply(c)
        PROVE  Abstract!Succeed(c)
    <2>1. PICK r \in inbox : Return(c, [how |-> "reply", by |-> r.by, n |-> r.n])
      BY <1>3 DEF TakeReply
    <2>2. answer'[c].how = "reply" /\ calls' = calls /\ executed' = executed /\ pc[c] = "wait"
      BY <1>3, <2>1 DEF TakeReply, Return, gdbVars
    <2>3. Abstract!Executed(c, calls[c])
      BY <2>2 DEF OwnReply, Abstract!Executed
    <2> QED
      BY <2>1, <2>2, <2>3 DEF Return, Abstract!Succeed, Outcome
  <1>4. CASE GdbAnswer
    <2>1. stdin \in Seq(Lines) /\ stdin # <<>>
      BY <1>4 DEF GdbAnswer, GdbTypes
    <2>2. Head(stdin) = stdin[1] /\ stdin[1] \in Lines /\ 1 \in 1..Len(stdin)
      BY <2>1
    <2> DEFINE c == stdin[1].by
               n == stdin[1].n
    <2>3. c \in Callers /\ n \in 1..calls[c]
      BY <2>2 DEF IssueOrder, Issued, Lines
    <2>4. \A i \in 1..Len(executed) : executed[i].by = c => executed[i].n < n
      BY <2>2 DEF IssueOrder
    <2>5. executed' = Append(executed, [by |-> c, n |-> n]) /\ UNCHANGED <<pc, calls, answer>>
      BY <1>4, <2>2 DEF GdbAnswer, sendVars
    <2>6. Abstract!Execute(c, n)
      BY <2>3, <2>4, <2>5 DEF Abstract!Execute, Outcome
    <2> QED
      BY <2>3, <2>6 DEF Abstract!Next
  <1>5. CASE (\E c \in Callers : Prepares(c) \/ Register(c) \/ Writes(c)) \/ GdbSpeaks \/ Loses
    <2>1. /\ UNCHANGED <<calls, answer, executed>>
          /\ \A d \in Callers : (pc'[d] # "idle") = (pc[d] # "idle")
      BY <1>5 DEF Prepares, Register, Writes, GdbSpeaks, Loses, sendVars, gdbVars
    <2> QED
      BY <2>1 DEF Abstract!vars, Outcome
  <1> QED
    BY <1>1, <1>2, <1>3, <1>4, <1>5 DEF CoreStep, Abstract!Next

\* mi.Client implements plain remote calls: whatever happens to tokens, queues
\* and gdb, a command is executed at most once, a caller's commands in the
\* order of its calls, and a success means the command was executed.
THEOREM CallsImplemented == Spec => ImplementsCalls
  <1>1. IInv /\ IInv' /\ [Next]_vars => [Abstract!Next]_Abstract!vars
    BY NextCoreStep, NextAbstract DEF IInv
  <1>2. Spec => [][Next]_vars
    BY PTL DEF Spec
  <1> QED
    BY <1>1, <1>2, InitAbstract, IInvHolds, PTL DEF Spec, Abstract!Spec, ImplementsCalls

-----------------------------------------------------------------------------
(* Sequences put together.                                                 *)

\* The first element of two sequences put together is that of the first.
LEMMA ConcatTail ==
  ASSUME NEW S, NEW s \in Seq(S), NEW t \in Seq(S), s # <<>>
  PROVE  /\ s \o t # <<>>
         /\ Head(s \o t) = Head(s)
         /\ Tail(s \o t) = Tail(s) \o t
  <1>1. /\ s \o t \in Seq(S)
        /\ Len(s \o t) = Len(s) + Len(t)
        /\ Len(s) \in Nat \ {0} /\ Len(t) \in Nat
        /\ \A i \in 1..Len(s) + Len(t) :
              (s \o t)[i] = IF i <= Len(s) THEN s[i] ELSE t[i - Len(s)]
    BY ConcatProperties
  <1>2. /\ Tail(s) \in Seq(S)
        /\ Len(Tail(s)) = Len(s) - 1
        /\ \A i \in 1..Len(Tail(s)) : Tail(s)[i] = s[i + 1]
    BY HeadTailProperties
  <1>3. s \o t # <<>> /\ Head(s \o t) = Head(s)
    BY <1>1
  <1>4. /\ Tail(s \o t) \in Seq(S)
        /\ Len(Tail(s \o t)) = Len(s) + Len(t) - 1
        /\ \A i \in 1..Len(Tail(s \o t)) : Tail(s \o t)[i] = (s \o t)[i + 1]
    BY <1>1, <1>3, HeadTailProperties
  <1>5. /\ Tail(s) \o t \in Seq(S)
        /\ Len(Tail(s) \o t) = Len(s) - 1 + Len(t)
        /\ \A i \in 1..Len(s) - 1 + Len(t) :
              (Tail(s) \o t)[i] = IF i <= Len(s) - 1 THEN Tail(s)[i] ELSE t[i - (Len(s) - 1)]
    BY <1>2, ConcatProperties
  <1>6. \A i \in 1..Len(Tail(s \o t)) : Tail(s \o t)[i] = (Tail(s) \o t)[i]
    BY <1>1, <1>2, <1>4, <1>5
  <1>7. Tail(s \o t) = Tail(s) \o t
    BY <1>1, <1>4, <1>5, <1>6, SeqEqual
  <1> QED
    BY <1>3, <1>7

\* One more element at the end of either.
LEMMA ConcatAppend ==
  ASSUME NEW S, NEW s \in Seq(S), NEW t \in Seq(S), NEW e \in S
  PROVE  /\ s \o Append(t, e) = Append(s \o t, e)
         /\ Append(s, e) \o t = s \o (<<e>> \o t)
  <1>1. <<e>> \in Seq(S) /\ Append(t, e) = t \o <<e>> /\ Append(s, e) = s \o <<e>>
    BY AppendIsConcat
  <1>2. s \o t \in Seq(S) /\ Append(s \o t, e) = (s \o t) \o <<e>>
    BY ConcatProperties, AppendIsConcat
  <1> QED
    BY <1>1, <1>2, ConcatAssociative

\* A sequence is its first element and the rest.
LEMMA HeadThenTail ==
  ASSUME NEW S, NEW s \in Seq(S), s # <<>>
  PROVE  <<Head(s)>> \o Tail(s) = s
  OBVIOUS

-----------------------------------------------------------------------------
(* What is on its way to the actor.                                        *)

\* The record numbered k is in the sequence p.
Holds(p, k) == \E i \in 1..Len(p) : p[i].tok = 0 /\ p[i].n = k

\* The unsolicited records of p are numbered after, after + 1, ... in order;
\* replies to callers who went may stand between them.
Consecutive(p, after) ==
    /\ \A i, j \in 1..Len(p) :
          (i < j /\ p[i].tok = 0 /\ p[j].tok = 0) => p[i].n < p[j].n
    /\ \A i \in 1..Len(p) :
          p[i].tok = 0 => p[i].n > after /\ \A k \in (after + 1)..p[i].n : Holds(p, k)

\* A record carries numbers.
LEMMA RecordNumbers ==
  ASSUME NEW p \in Seq(Records)
  PROVE  \A i \in 1..Len(p) : p[i].n \in Nat /\ p[i].tok \in Nat
  <1> SUFFICES ASSUME NEW i \in 1..Len(p) PROVE p[i].n \in Nat /\ p[i].tok \in Nat
    OBVIOUS
  <1>1. p[i] \in Records
    OBVIOUS
  <1> QED
    BY <1>1 DEF Records

\* The first record goes, and if it has a number that is the next one.
LEMMA TailConsecutive ==
  ASSUME NEW p \in Seq(Records), p # <<>>, NEW after \in Nat, Consecutive(p, after),
         NEW new, new = IF IsResult(Head(p)) THEN after ELSE Head(p).n
  PROVE  /\ new = after \/ (new = after + 1 /\ Holds(p, new))
         /\ Consecutive(Tail(p), new)
         /\ \A k \in Nat : k > new /\ Holds(p, k) => Holds(Tail(p), k)
         /\ \A k : Holds(Tail(p), k) => Holds(p, k)
  <1>1. /\ Len(p) \in Nat \ {0} /\ Head(p) = p[1] /\ Len(Tail(p)) = Len(p) - 1
        /\ \A i \in 1..Len(Tail(p)) : Tail(p)[i] = p[i + 1] /\ i + 1 \in 1..Len(p)
        /\ \A i \in 1..Len(p) : p[i].n \in Nat
    BY TailFacts, RecordNumbers
  <1>2. new = after \/ (new = after + 1 /\ Holds(p, new))
    <2>1. CASE p[1].tok = 0
      <3>1. p[1].n > after /\ Holds(p, after + 1)
        BY <1>1, <2>1 DEF Consecutive
      <3>2. PICK i \in 1..Len(p) : p[i].tok = 0 /\ p[i].n = after + 1
        BY <3>1 DEF Holds
      <3>3. i # 1 => p[1].n < p[i].n
        BY <1>1, <2>1, <3>2 DEF Consecutive
      <3> QED
        BY <1>1, <2>1, <3>1, <3>2, <3>3 DEF IsResult
    <2>2. CASE p[1].tok # 0
      <3>1. IsResult(Head(p))
        BY <1>1, <2>2 DEF IsResult
      <3> QED
        BY <3>1
    <2> QED
      BY <2>1, <2>2
  <1>3. \A k \in Nat : k > new /\ Holds(p, k) => Holds(Tail(p), k)
    <2>1. SUFFICES ASSUME NEW k \in Nat, k > new, NEW i \in 1..Len(p), p[i].tok = 0, p[i].n = k
                   PROVE  Holds(Tail(p), k)
      BY DEF Holds
    <2>2. i # 1
      BY <1>1, <1>2, <2>1 DEF IsResult
    <2>3. i - 1 \in 1..Len(Tail(p)) /\ Tail(p)[i - 1] = p[i]
      BY <1>1, <2>2
    <2> QED
      BY <2>1, <2>3 DEF Holds
  <1>4. \A i, j \in 1..Len(Tail(p)) :
           (i < j /\ Tail(p)[i].tok = 0 /\ Tail(p)[j].tok = 0) => Tail(p)[i].n < Tail(p)[j].n
    BY <1>1 DEF Consecutive
  <1>5. ASSUME NEW i \in 1..Len(Tail(p)), Tail(p)[i].tok = 0
        PROVE  /\ Tail(p)[i].n > new
               /\ \A k \in (new + 1)..Tail(p)[i].n : Holds(Tail(p), k)
    <2>1. i + 1 \in 1..Len(p) /\ p[i + 1].tok = 0 /\ Tail(p)[i] = p[i + 1] /\ 1 < i + 1
      BY <1>1, <1>5
    <2>2. p[i + 1].n > new
      BY <1>1, <2>1 DEF Consecutive, IsResult
    <2>3. \A k \in (new + 1)..p[i + 1].n : Holds(p, k)
      BY <1>1, <1>2, <2>1 DEF Consecutive
    <2> QED
      BY <1>1, <1>2, <1>3, <2>1, <2>2, <2>3
  <1>6. \A k : Holds(Tail(p), k) => Holds(p, k)
    BY <1>1 DEF Holds
  <1> QED
    BY <1>2, <1>3, <1>4, <1>5, <1>6 DEF Consecutive

\* A reply leaves the sequence for the channel of its caller, or for nowhere.
LEMMA RemoveConsecutive ==
  ASSUME NEW s \in Seq(Records), NEW t \in Seq(Records), t # <<>>, IsResult(Head(t)),
         NEW after \in Nat, Consecutive(s \o t, after)
  PROVE  /\ Consecutive(s \o Tail(t), after)
         /\ \A k : Holds(s \o t, k) <=> Holds(s \o Tail(t), k)
  <1> DEFINE p == s \o t
             q == s \o Tail(t)
             m == Len(s) + 1
  <1>1. /\ Len(s) \in Nat /\ Len(t) \in Nat \ {0} /\ Len(p) = Len(s) + Len(t)
        /\ \A i \in 1..Len(p) : p[i] = IF i <= Len(s) THEN s[i] ELSE t[i - Len(s)]
    BY ConcatProperties
  <1>2. /\ Tail(t) \in Seq(Records) /\ Len(Tail(t)) = Len(t) - 1 /\ Head(t) = t[1]
        /\ \A i \in 1..Len(Tail(t)) : Tail(t)[i] = t[i + 1]
    BY TailFacts
  <1>3. /\ Len(q) = Len(s) + Len(t) - 1
        /\ \A i \in 1..Len(q) : q[i] = IF i <= Len(s) THEN s[i] ELSE Tail(t)[i - Len(s)]
    BY <1>1, <1>2, ConcatProperties
  <1> HIDE DEF p, q
  <1>4. /\ m \in 1..Len(p) /\ p[m].tok # 0 /\ Len(q) = Len(p) - 1
        /\ \A i \in 1..Len(q) : q[i] = IF i < m THEN p[i] ELSE p[i + 1]
    <2>1. m \in 1..Len(p) /\ p[m] = t[1] /\ Len(q) = Len(p) - 1
      <3>1. m \in 1..Len(p) /\ ~(m <= Len(s)) /\ m - Len(s) = 1
        BY <1>1
      <3>2. p[m] = t[m - Len(s)]
        BY <1>1, <3>1
      <3> QED
        BY <1>1, <1>3, <3>1, <3>2
    <2>2. ASSUME NEW i \in 1..Len(q), i < m PROVE q[i] = p[i]
      BY <1>1, <1>3, <2>2
    <2>3. ASSUME NEW i \in 1..Len(q), ~(i < m) PROVE q[i] = p[i + 1]
      <3>1. q[i] = Tail(t)[i - Len(s)] /\ i - Len(s) \in 1..Len(Tail(t))
        BY <1>1, <1>2, <1>3, <2>3
      <3>2. q[i] = t[i - Len(s) + 1]
        BY <1>2, <3>1
      <3>3. p[i + 1] = t[i + 1 - Len(s)] /\ i + 1 - Len(s) = i - Len(s) + 1
        BY <1>1, <1>3, <2>3
      <3> QED
        BY <3>2, <3>3
    <2> QED
      BY <1>2, <2>1, <2>2, <2>3 DEF IsResult
  <1>5. ASSUME NEW i \in 1..Len(p), p[i].tok = 0
        PROVE  \E j \in 1..Len(q) : q[j] = p[i]
    <2>1. CASE i < m
      BY <1>4, <2>1
    <2>2. CASE i > m
      <3>1. i - 1 \in 1..Len(q) /\ q[i - 1] = p[i]
        BY <1>4, <2>2
      <3> QED
        BY <3>1
    <2> QED
      BY <1>4, <1>5, <2>1, <2>2
  <1>6. \A k : Holds(p, k) => Holds(q, k)
    BY <1>5 DEF Holds
  <1>7. \A i \in 1..Len(q) : \E j \in 1..Len(p) : p[j] = q[i]
    <2>1. \A i \in 1..Len(q) : i \in 1..Len(p) /\ i + 1 \in 1..Len(p)
      BY <1>1, <1>4
    <2> QED
      BY <1>4, <2>1
  <1>8. Consecutive(p, after)
    BY DEF p
  <1>9. \A i, j \in 1..Len(q) : (i < j /\ q[i].tok = 0 /\ q[j].tok = 0) => q[i].n < q[j].n
    <2>1. SUFFICES ASSUME NEW i \in 1..Len(q), NEW j \in 1..Len(q),
                          i < j, q[i].tok = 0, q[j].tok = 0
                   PROVE  q[i].n < q[j].n
      OBVIOUS
    <2>2. PICK a \in 1..Len(p), b \in 1..Len(p) : a < b /\ p[a] = q[i] /\ p[b] = q[j]
      <3>1. CASE j < m
        BY <1>1, <1>4, <2>1, <3>1
      <3>2. CASE i < m /\ ~(j < m)
        BY <1>1, <1>4, <2>1, <3>2
      <3>3. CASE ~(i < m)
        BY <1>1, <1>4, <2>1, <3>3
      <3> QED
        BY <1>1, <2>1, <3>1, <3>2, <3>3
    <2> QED
      BY <1>8, <2>1, <2>2 DEF Consecutive
  <1>10. \A k : Holds(q, k) => Holds(p, k)
    BY <1>7 DEF Holds
  <1>11. \A i \in 1..Len(q) : q[i].tok = 0 =>
            q[i].n > after /\ \A k \in (after + 1)..q[i].n : Holds(q, k)
    BY <1>6, <1>7, <1>8 DEF Consecutive
  <1> QED
    BY <1>6, <1>9, <1>10, <1>11 DEF p, q, Consecutive

\* gdb answers, or says something of its own.
LEMMA AppendConsecutive ==
  ASSUME NEW p \in Seq(Records), NEW e \in Records, NEW after \in Nat, Consecutive(p, after),
         NEW last \in Nat, after <= last,
         \A k \in Nat : Holds(p, k) => k <= last,
         \/ IsResult(e)
         \/ e.n = last + 1 /\ \A k \in (after + 1)..last : Holds(p, k)
  PROVE  /\ Consecutive(Append(p, e), after)
         /\ \A k : Holds(Append(p, e), k) <=> Holds(p, k) \/ (~IsResult(e) /\ k = e.n)
  <1> DEFINE q == Append(p, e)
  <1>1. /\ Len(p) \in Nat /\ Len(q) = Len(p) + 1 /\ q[Len(p) + 1] = e
        /\ \A i \in 1..Len(p) : q[i] = p[i] /\ p[i].n \in Nat
    BY AppendFacts, RecordNumbers
  <1> HIDE DEF q
  <1>2. \A k : Holds(p, k) => Holds(q, k)
    BY <1>1 DEF Holds
  <1>3. ~IsResult(e) => Holds(q, e.n)
    BY <1>1 DEF Holds, IsResult
  <1>4. \A i, j \in 1..Len(q) : (i < j /\ q[i].tok = 0 /\ q[j].tok = 0) => q[i].n < q[j].n
    <2>1. SUFFICES ASSUME NEW i \in 1..Len(q), NEW j \in 1..Len(q),
                          i < j, q[i].tok = 0, q[j].tok = 0
                   PROVE  q[i].n < q[j].n
      OBVIOUS
    <2>2. i \in 1..Len(p) /\ (j \in 1..Len(p) \/ j = Len(p) + 1)
      BY <1>1, <2>1
    <2>3. CASE j \in 1..Len(p)
      BY <1>1, <2>1, <2>2, <2>3 DEF Consecutive
    <2>4. CASE j = Len(p) + 1
      <3>1. Holds(p, p[i].n)
        BY <1>1, <2>1, <2>2 DEF Holds
      <3> QED
        BY <1>1, <2>1, <2>2, <2>4, <3>1 DEF IsResult
    <2> QED
      BY <2>2, <2>3, <2>4
  <1>5. ASSUME NEW i \in 1..Len(q), q[i].tok = 0
        PROVE  q[i].n > after /\ \A k \in (after + 1)..q[i].n : Holds(q, k)
    <2>1. CASE i \in 1..Len(p)
      BY <1>1, <1>2, <1>5, <2>1 DEF Consecutive
    <2>2. CASE i = Len(p) + 1
      BY <1>1, <1>2, <1>3, <1>5, <2>2 DEF IsResult
    <2> QED
      BY <1>1, <2>1, <2>2
  <1>6. ASSUME NEW k, Holds(q, k) PROVE Holds(p, k) \/ (~IsResult(e) /\ k = e.n)
    BY <1>1, <1>6 DEF Holds, IsResult
  <1> QED
    BY <1>2, <1>3, <1>4, <1>5, <1>6 DEF Consecutive, q

\* The pipe is closed under the reader.
LEMMA CutConsecutive ==
  ASSUME NEW s \in Seq(Records), NEW t \in Seq(Records), NEW after \in Nat,
         Consecutive(s \o t, after)
  PROVE  /\ Consecutive(s, after)
         /\ \A k : Holds(s, k) => Holds(s \o t, k)
  <1> DEFINE p == s \o t
  <1>1. /\ Len(s) \in Nat /\ Len(t) \in Nat /\ Len(p) = Len(s) + Len(t)
        /\ \A i \in 1..Len(s) : p[i] = s[i] /\ i \in 1..Len(p) /\ s[i].n \in Nat
        /\ \A i \in 1..Len(p) : p[i].n \in Nat
    <2>1. p \in Seq(Records)
      BY ConcatProperties
    <2> QED
      BY <2>1, ConcatProperties, RecordNumbers
  <1>2. Consecutive(p, after)
    OBVIOUS
  <1> HIDE DEF p
  <1>3. ASSUME NEW i \in 1..Len(s), s[i].tok = 0, NEW k \in (after + 1)..s[i].n
        PROVE  Holds(s, k)
    <2>1. PICK j \in 1..Len(p) : p[j].tok = 0 /\ p[j].n = k
      BY <1>1, <1>2, <1>3 DEF Consecutive, Holds
    <2>2. ~(i < j)
      BY <1>1, <1>2, <1>3, <2>1 DEF Consecutive
    <2> QED
      BY <1>1, <1>3, <2>1, <2>2, SMTT(30) DEF Holds
  <1>4. \A k : Holds(s, k) => Holds(p, k)
    BY <1>1 DEF Holds
  <1> QED
    BY <1>1, <1>2, <1>3, <1>4 DEF Consecutive, p

-----------------------------------------------------------------------------
(* The pipe, the reader's hand, the event queue and the landing pad.       *)

\* All records gdb has written and the actor has not seen, in order.
Pipeline == intake \o (events \o (hand \o stdout))

\* The reader holds a record only while it emits it; when it has seen the end
\* gdb is gone and the pipe is empty; the dispatcher ends after it, with an
\* empty queue; the process is gone before Close marks the client dead.
LoopOrder ==
    /\ reader # "emit" => hand = <<>>
    /\ reader \in {"mark", "ended"} => ~gdbUp /\ stdout = <<>>
    /\ ~dispatching => reader = "ended" /\ events = <<>>
    /\ closing \in {"mark", "join", "closed"} => ~gdbUp
    /\ 0 \notin tombs

\* What is on its way is what comes next, and nothing is missing from it
\* unless Close has taken the pipe away from the reader.
Numbered ==
    /\ seen <= asyncs
    /\ Consecutive(Pipeline, seen)
    /\ \A k \in Nat : Holds(Pipeline, k) => k <= asyncs
    /\ closing \notin {"mark", "join", "closed"} =>
          \A k \in (seen + 1)..asyncs : Holds(Pipeline, k)

DeliveryInv == LoopOrder /\ Numbered

\* Everything on the way is a sequence of records.
LEMMA PipelineType ==
  ASSUME TypeOK
  PROVE  /\ intake \in Seq(Records) /\ events \in Seq(Records)
         /\ hand \in Seq(Records) /\ stdout \in Seq(Records)
         /\ hand \o stdout \in Seq(Records)
         /\ events \o (hand \o stdout) \in Seq(Records)
         /\ Pipeline \in Seq(Records)
  BY ConcatProperties DEF TypeOK, QueueTypes, GdbTypes, Pipeline

\* Nothing is on the way at first.
LEMMA InitDelivery == Init => DeliveryInv
  <1> SUFFICES ASSUME Init PROVE DeliveryInv
    OBVIOUS
  <1>1. Pipeline = <<>>
    BY DEF Init, Pipeline
  <1> QED
    BY <1>1 DEF Init, DeliveryInv, LoopOrder, Numbered, Consecutive, Holds

\* The two loops end in order.
LEMMA LoopOrderStep == TypeOK /\ TokensIssued /\ LoopOrder /\ [Next]_vars => LoopOrder'
  <1> SUFFICES ASSUME TypeOK, TokensIssued, LoopOrder, [Next]_vars PROVE LoopOrder'
    OBVIOUS
  <1> USE DEF LoopOrder
  <1>1. ASSUME NEW c \in Callers, Call(c) \/ CallStep(c) \/ Deadline(c)
        PROVE  LoopOrder'
    <2>1. UNCHANGED <<reader, hand, events, dispatching, closing, gdbUp, stdout>>
      BY <1>1 DEF Call, CallStep, Deadline, AcquireSem, DeadAtSem, AbandonSem, CheckDead, Register,
                  WriteLine, TakeReply, TakeHangup, GiveUp, NoticeDead, queueVars, deathVars, gdbVars
    <2>2. tombs' \subseteq tombs \cup {tok[c]} /\ (tombs' # tombs => pc[c] = "wait")
      BY <1>1 DEF Call, CallStep, Deadline, AcquireSem, DeadAtSem, AbandonSem, CheckDead, Register,
                  WriteLine, TakeReply, TakeHangup, GiveUp, NoticeDead, Forget, tableVars
    <2>3. 0 \notin tombs'
      BY <2>2 DEF TokensIssued, InFlight
    <2> QED
      BY <2>1, <2>3
  <1>2. CASE Environment \/ KillGroup
    BY <1>2 DEF Environment, KillGroup, GdbAnswer, GdbSpeaks, GdbExit, queueVars, deathVars, tableVars
  <1>3. CASE Reading
    <2> USE DEF deathVars
    <2>1. CASE RouteToCaller \/ RouteToTombstone
      BY <1>3, <2>1 DEF RouteToCaller, RouteToTombstone, CallersWait, queueVars
    <2>2. CASE RouteToEvents \/ Emit
      BY <2>2 DEF RouteToEvents, Emit, CallersWait, tableVars
    <2>3. CASE ReadError
      BY <2>3 DEF ReadError, CallersWait, tableVars
    <2>4. CASE ReaderEnd
      BY <2>4 DEF ReaderEnd, gdbVars, tableVars
    <2> QED
      BY <1>3, <2>1, <2>2, <2>3, <2>4 DEF Reading
  <1>4. CASE Dispatching \/ Drain
    BY <1>4 DEF Dispatching, Dispatch, DispatchEnd, Drain, CallersWait, deathVars, tableVars
  <1>5. CASE Dying
    BY <1>5 DEF Dying, MarkDead, SwapPending, CloseDead, CloseChannel, gdbVars, queueVars, tableVars
  <1>6. CASE CloseStart \/ Closing
    BY <1>6 DEF CloseStart, Closing, CloseStep, CloseStdin, CloseWait, CloseMarked, CloseJoin,
                gdbVars, queueVars, tableVars
  <1>7. CASE UNCHANGED vars
    BY <1>7 DEF vars, gdbVars, queueVars, tableVars, deathVars
  <1> QED
    BY <1>1, <1>2, <1>3, <1>4, <1>5, <1>6, <1>7 DEF Next

-----------------------------------------------------------------------------
(* What a step does to the pipeline.                                       *)

Stays == UNCHANGED <<Pipeline, seen, asyncs>>

\* The actor takes the first record.
TakesFirst ==
    /\ Pipeline # <<>>
    /\ Pipeline' = Tail(Pipeline)
    /\ seen' = IF IsResult(Head(Pipeline)) THEN seen ELSE Head(Pipeline).n
    /\ UNCHANGED asyncs

\* The reader routes a reply past the queue.
TakesReply ==
    /\ \E s, t \in Seq(Records) :
          /\ t # <<>>
          /\ IsResult(Head(t))
          /\ Pipeline = s \o t
          /\ Pipeline' = s \o Tail(t)
    /\ UNCHANGED <<seen, asyncs>>

\* gdb writes one more.
Grows ==
    /\ closing \notin {"mark", "join", "closed"}
    /\ \E e \in Records :
          /\ Pipeline' = Append(Pipeline, e)
          /\ \/ IsResult(e) /\ asyncs' = asyncs
             \/ ~IsResult(e) /\ e.n = asyncs + 1 /\ asyncs' = asyncs + 1
    /\ UNCHANGED seen

\* Close has taken the pipe away.
IsCut ==
    /\ closing \in {"mark", "join"}
    /\ \E s, t \in Seq(Records) : Pipeline = s \o t /\ Pipeline' = s
    /\ UNCHANGED <<seen, asyncs>>

PipelineStep ==
    /\ Stays \/ TakesFirst \/ TakesReply \/ Grows \/ IsCut
    /\ closing \in {"mark", "join", "closed"} => closing' \in {"mark", "join", "closed"}

\* What gdb writes comes last.
LEMMA GdbPipelineStep ==
  ASSUME TypeOK, TokensIssued, LoopOrder, GdbAnswer \/ GdbSpeaks
  PROVE  Grows
  <1> DEFINE e == IF GdbAnswer THEN Head(stdin) ELSE [tok |-> 0, by |-> Gdb, n |-> asyncs']
  <1>1. /\ stdout' = Append(stdout, e) \/ ~GdbAnswer
        /\ UNCHANGED <<intake, events, hand, seen>>
        /\ closing \notin {"mark", "join", "closed"}
    BY DEF GdbAnswer, GdbSpeaks, queueVars, LoopOrder
  <1>2. ASSUME NEW r \in Records, stdout' = Append(stdout, r)
        PROVE  Pipeline' = Append(Pipeline, r)
    <2> DEFINE late == hand \o stdout
               rest == events \o late
    <2>1. late \in Seq(Records) /\ rest \in Seq(Records) /\ Pipeline = intake \o rest
      BY PipelineType DEF Pipeline
    <2>2. Pipeline' = intake \o (events \o (hand \o stdout'))
      BY <1>1 DEF Pipeline
    <2>3. hand \o stdout' = Append(late, r)
      BY <1>2, PipelineType, ConcatAppend
    <2> HIDE DEF late
    <2>4. events \o Append(late, r) = Append(rest, r)
      BY <2>1, PipelineType, ConcatAppend
    <2> HIDE DEF rest
    <2>5. intake \o Append(rest, r) = Append(intake \o rest, r)
      BY <2>1, PipelineType, ConcatAppend
    <2> QED
      BY <2>1, <2>2, <2>3, <2>4, <2>5
  <1>3. CASE GdbAnswer
    <2>1. stdin \in Seq(Lines) /\ stdin # <<>>
      BY <1>3 DEF GdbAnswer, TypeOK, GdbTypes
    <2>2. Head(stdin) = stdin[1] /\ stdin[1] \in Lines /\ 1 \in 1..Len(stdin)
      BY <2>1
    <2>3. Head(stdin) \in Records /\ IsResult(Head(stdin))
      BY <2>2 DEF Lines, Records, IsResult, TokensIssued
    <2> QED
      BY <1>1, <1>2, <1>3, <2>3 DEF GdbAnswer, Grows
  <1>4. CASE GdbSpeaks
    <2> DEFINE r == [tok |-> 0, by |-> Gdb, n |-> asyncs + 1]
    <2>1. r \in Records /\ ~IsResult(r) /\ r.n = asyncs + 1
      BY DEF Records, TypeOK, GdbTypes, IsResult
    <2>2. stdout' = Append(stdout, r) /\ asyncs' = asyncs + 1
      BY <1>4 DEF GdbSpeaks
    <2> HIDE DEF r
    <2> QED
      BY <1>1, <1>2, <2>1, <2>2 DEF Grows
  <1> QED
    BY <1>3, <1>4

\* Only a reply leaves the line, for its caller or for nowhere.
LEMMA RoutePipelineStep ==
  ASSUME TypeOK, TokensIssued, LoopOrder, RouteToCaller \/ RouteToTombstone
  PROVE  TakesReply
  <1>1. /\ stdout # <<>> /\ stdout' = Tail(stdout) /\ hand = <<>>
        /\ UNCHANGED <<intake, events, hand, seen, asyncs>>
    BY DEF RouteToCaller, RouteToTombstone, queueVars, CallersWait, LoopOrder
  <1>2. IsResult(Head(stdout))
    BY DEF RouteToCaller, RouteToTombstone, IsResult, TokensIssued, LoopOrder
  <1>3. intake \o events \in Seq(Records) /\ stdout' \in Seq(Records)
    BY <1>1, PipelineType, ConcatProperties, TailFacts
  <1>4. Pipeline = (intake \o events) \o stdout
    BY <1>1, PipelineType, ConcatAssociative, ConcatEmptySeq, SMTT(30) DEF Pipeline
  <1>5. Pipeline' = (intake \o events) \o Tail(stdout)
    BY <1>1, <1>3, PipelineType, ConcatAssociative, ConcatEmptySeq, SMTT(30) DEF Pipeline
  <1> QED
    BY <1>1, <1>2, <1>3, <1>4, <1>5, PipelineType DEF TakesReply

\* Handing a record on moves nothing past anything.
LEMMA QueuePipelineStep ==
  ASSUME TypeOK, LoopOrder, RouteToEvents \/ Emit \/ Dispatch
  PROVE  Stays
  <1>1. UNCHANGED <<seen, asyncs>>
    BY DEF RouteToEvents, Emit, Dispatch, CallersWait
  <1>2. CASE RouteToEvents
    <2>1. /\ stdout # <<>> /\ hand = <<>> /\ hand' = <<Head(stdout)>> /\ stdout' = Tail(stdout)
          /\ UNCHANGED <<intake, events>>
      BY <1>2 DEF RouteToEvents, LoopOrder
    <2>2. hand' \o stdout' = hand \o stdout
      BY <2>1, PipelineType, HeadThenTail, ConcatEmptySeq
    <2> QED
      BY <1>1, <2>1, <2>2 DEF Stays, Pipeline
  <1>3. CASE Emit
    <2>1. /\ hand \in Seq(Records) /\ Len(hand) = 1 /\ hand' = <<>>
          /\ events' = Append(events, hand[1])
          /\ UNCHANGED <<intake, stdout>>
      BY <1>3 DEF Emit, TypeOK, QueueTypes
    <2>2. hand[1] \in Records /\ hand = <<hand[1]>>
      <3>1. hand[1] \in Records
        <4>1. hand \in Seq(Records) /\ Len(hand) = 1
          BY <2>1
        <4> QED
          BY <4>1
      <3>2. <<hand[1]>> \in Seq(Records) /\ Len(<<hand[1]>>) = 1
        BY <3>1
      <3>3. \A i \in 1..Len(hand) : hand[i] = <<hand[1]>>[i]
        BY <2>1
      <3> QED
        BY <2>1, <3>1, <3>2, <3>3, SeqEqual
    <2>3. events' \o stdout = events \o (<<hand[1]>> \o stdout)
      BY <2>1, <2>2, PipelineType, ConcatAppend, SMTT(30)
    <2>4. hand' \o stdout' = stdout
      BY <2>1, PipelineType, ConcatEmptySeq
    <2>5. events' \o (hand' \o stdout') = events \o (hand \o stdout)
      BY <2>1, <2>2, <2>3, <2>4
    <2> QED
      BY <1>1, <2>1, <2>5 DEF Stays, Pipeline
  <1>4. CASE Dispatch
    <2>1. /\ events # <<>> /\ events' = Tail(events) /\ intake' = Append(intake, Head(events))
          /\ UNCHANGED <<hand, stdout>>
      BY <1>4 DEF Dispatch, CallersWait
    <2> DEFINE rest == hand \o stdout
    <2>2. rest \in Seq(Records) /\ Head(events) \in Records /\ Tail(events) \in Seq(Records)
      BY <2>1, PipelineType, HeadTailProperties
    <2> HIDE DEF rest
    <2>3. Tail(events) \o rest \in Seq(Records) /\ events \o rest \in Seq(Records)
      BY <2>2, PipelineType, ConcatProperties
    <2>4. /\ events \o rest # <<>>
          /\ Head(events \o rest) = Head(events)
          /\ Tail(events \o rest) = Tail(events) \o rest
      BY <2>1, <2>2, PipelineType, ConcatTail
    <2>5. <<Head(events)>> \o (Tail(events) \o rest) = events \o rest
      BY <2>3, <2>4, HeadThenTail
    <2>6. ASSUME NEW e \in Records, NEW u \in Seq(Records)
          PROVE  Append(intake, e) \o u = intake \o (<<e>> \o u)
      <3>1. intake \in Seq(Records)
        BY PipelineType
      <3> QED
        BY <3>1, ConcatAppend
    <2> QED
      BY <1>1, <2>1, <2>2, <2>3, <2>5, <2>6 DEF Stays, Pipeline, rest
  <1> QED
    BY <1>2, <1>3, <1>4

\* The actor takes from the front.
LEMMA DrainPipelineStep ==
  ASSUME TypeOK, Drain
  PROVE  TakesFirst
  <1>1. /\ intake # <<>> /\ intake' = Tail(intake) /\ UNCHANGED <<events, hand, stdout, asyncs>>
        /\ seen' = IF IsResult(Head(intake)) THEN seen ELSE Head(intake).n
    BY DEF Drain, CallersWait
  <1>2. Pipeline # <<>> /\ Head(Pipeline) = Head(intake) /\ Pipeline' = Tail(Pipeline)
    BY <1>1, PipelineType, ConcatTail DEF Pipeline
  <1> QED
    BY <1>1, <1>2 DEF TakesFirst

\* The reader stops: nothing was left, or Close has cut the line.
LEMMA ErrorPipelineStep ==
  ASSUME TypeOK, LoopOrder, ReadError
  PROVE  Stays \/ IsCut
  <1>1. /\ stdout' = <<>> /\ hand = <<>> /\ UNCHANGED <<intake, events, hand, seen, asyncs>>
        /\ stdout = <<>> \/ closing \in {"mark", "join"}
    BY DEF ReadError, CallersWait, LoopOrder
  <1>2. CASE stdout = <<>>
    BY <1>1, <1>2 DEF Stays, Pipeline
  <1>3. CASE closing \in {"mark", "join"}
    <2>1. intake \o events \in Seq(Records)
      BY PipelineType, ConcatProperties
    <2>2. Pipeline = (intake \o events) \o stdout
      BY <1>1, PipelineType, ConcatAssociative, ConcatEmptySeq DEF Pipeline
    <2>3. Pipeline' = intake \o events
      BY <1>1, PipelineType, ConcatEmptySeq DEF Pipeline
    <2> QED
      BY <1>1, <1>3, <2>1, <2>2, <2>3, PipelineType DEF IsCut
  <1> QED
    BY <1>1, <1>2, <1>3

\* No other step touches the line.
LEMMA NextPipelineStep ==
  ASSUME TypeOK, TokensIssued, LoopOrder, [Next]_vars
  PROVE  PipelineStep
  <1> DEFINE over == closing \in {"mark", "join", "closed"} => closing' \in {"mark", "join", "closed"}
             same == UNCHANGED <<intake, events, hand, stdout, seen, asyncs>>
  <1>1. ASSUME NEW c \in Callers, Call(c) \/ CallStep(c) \/ Deadline(c)
        PROVE  same /\ over
    BY <1>1 DEF Call, CallStep, Deadline, AcquireSem, DeadAtSem, AbandonSem, CheckDead, Register,
                WriteLine, TakeReply, TakeHangup, GiveUp, NoticeDead, queueVars, deathVars, gdbVars
  <1>2. CASE GdbExit \/ KillGroup
    <2>1. same /\ over
      BY <1>2 DEF KillGroup, GdbExit, queueVars, deathVars
    <2> QED
      BY <2>1 DEF PipelineStep, Stays, Pipeline
  <1>3. CASE ReaderEnd \/ DispatchEnd
    <2>1. same /\ over
      BY <1>3 DEF ReaderEnd, DispatchEnd, CallersWait, deathVars, gdbVars
    <2> QED
      BY <2>1 DEF PipelineStep, Stays, Pipeline
  <1>4. CASE Dying \/ CloseStart \/ Closing
    <2>1. same /\ over
      BY <1>4 DEF Dying, MarkDead, SwapPending, CloseDead, CloseChannel, CloseStart, Closing, CloseStep,
                  CloseStdin, CloseWait, CloseMarked, CloseJoin, gdbVars, queueVars
    <2> QED
      BY <2>1 DEF PipelineStep, Stays, Pipeline
  <1>5. CASE UNCHANGED vars
    <2>1. same /\ over
      BY <1>5 DEF vars, gdbVars, queueVars, deathVars
    <2> QED
      BY <2>1 DEF PipelineStep, Stays, Pipeline
  <1>6. CASE \E c \in Callers : Call(c) \/ CallStep(c) \/ Deadline(c)
    <2>1. same /\ over
      BY <1>1, <1>6
    <2> QED
      BY <2>1 DEF PipelineStep, Stays, Pipeline
  <1>7. CASE GdbAnswer \/ GdbSpeaks
    <2>1. closing' = closing
      BY <1>7 DEF GdbAnswer, GdbSpeaks, deathVars
    <2> QED
      BY <1>7, <2>1, GdbPipelineStep DEF PipelineStep
  <1>8. CASE RouteToCaller \/ RouteToTombstone \/ RouteToEvents \/ Emit \/ ReadError \/ Dispatch \/ Drain
    <2>1. closing' = closing
      BY <1>8 DEF RouteToCaller, RouteToTombstone, RouteToEvents, Emit, ReadError, Dispatch, Drain,
                  CallersWait, deathVars
    <2> QED
      BY <1>8, <2>1, RoutePipelineStep, QueuePipelineStep, ErrorPipelineStep, DrainPipelineStep
         DEF PipelineStep
  <1> QED
    BY <1>2, <1>3, <1>4, <1>5, <1>6, <1>7, <1>8 DEF Next, Environment, Reading, Dispatching

\* The numbers stay in order, and the next one handled is the next one written.
LEMMA NumberedStep ==
  ASSUME TypeOK, TypeOK', Numbered, PipelineStep
  PROVE  /\ Numbered'
         /\ seen' # seen => seen' = seen + 1
  <1> DEFINE p == Pipeline
             q == Pipeline'
             over == closing \in {"mark", "join", "closed"}
  <1>1. p \in Seq(Records) /\ q \in Seq(Records) /\ seen \in Nat /\ asyncs \in Nat
    <2>1. Pipeline' \in Seq(Records)
      BY ConcatProperties DEF TypeOK, QueueTypes, GdbTypes, Pipeline
    <2> QED
      BY <2>1, PipelineType DEF TypeOK, QueueTypes, GdbTypes
  <1>2. over => closing' \in {"mark", "join", "closed"}
    BY DEF PipelineStep
  <1>3. CASE Stays
    BY <1>2, <1>3 DEF Stays, Numbered
  <1>4. CASE TakesFirst
    <2>1. /\ seen' = seen \/ (seen' = seen + 1 /\ Holds(p, seen'))
          /\ Consecutive(q, seen')
          /\ \A k \in Nat : k > seen' /\ Holds(p, k) => Holds(q, k)
          /\ \A k : Holds(q, k) => Holds(p, k)
          /\ asyncs' = asyncs
      BY <1>1, <1>4, TailConsecutive DEF TakesFirst, Numbered
    <2>2. seen' <= asyncs' /\ seen' \in Nat
      BY <1>1, <2>1 DEF Numbered
    <2>3. ASSUME ~over, NEW k \in (seen' + 1)..asyncs'
          PROVE  Holds(q, k)
      <3>1. k \in (seen + 1)..asyncs /\ k \in Nat /\ k > seen'
        <4>1. /\ asyncs' = asyncs /\ asyncs \in Nat /\ seen \in Nat
              /\ seen' = seen \/ seen' = seen + 1
          BY <1>1, <2>1
        <4> QED
          BY <2>3, <4>1
      <3>2. Holds(p, k)
        BY <2>3, <3>1 DEF Numbered
      <3> QED
        BY <2>1, <3>1, <3>2
    <2> QED
      BY <1>2, <2>1, <2>2, <2>3 DEF Numbered
  <1>5. CASE TakesReply
    <2>1. PICK s \in Seq(Records), t \in Seq(Records) :
             t # <<>> /\ IsResult(Head(t)) /\ p = s \o t /\ q = s \o Tail(t)
      BY <1>5 DEF TakesReply
    <2>2. Consecutive(q, seen) /\ \A k : Holds(p, k) <=> Holds(q, k)
      BY <1>1, <2>1, RemoveConsecutive DEF Numbered
    <2> QED
      BY <1>2, <1>5, <2>2 DEF TakesReply, Numbered
  <1>6. CASE Grows
    <2>1. PICK e \in Records :
             /\ q = Append(p, e)
             /\ \/ IsResult(e) /\ asyncs' = asyncs
                \/ ~IsResult(e) /\ e.n = asyncs + 1 /\ asyncs' = asyncs + 1
      BY <1>6 DEF Grows
    <2>2. /\ ~over /\ seen' = seen /\ seen <= asyncs /\ Consecutive(p, seen)
          /\ \A k \in Nat : Holds(p, k) => k <= asyncs
          /\ \A k \in (seen + 1)..asyncs : Holds(p, k)
      BY <1>6 DEF Grows, Numbered
    <2>3. /\ Consecutive(q, seen)
          /\ \A k : Holds(q, k) <=> Holds(p, k) \/ (~IsResult(e) /\ k = e.n)
      BY <1>1, <2>1, <2>2, AppendConsecutive
    <2>4. /\ seen' <= asyncs'
          /\ \A k \in Nat : Holds(q, k) => k <= asyncs'
          /\ \A k \in (seen' + 1)..asyncs' : Holds(q, k)
      BY <1>1, <2>1, <2>2, <2>3
    <2> QED
      BY <2>2, <2>3, <2>4 DEF Numbered
  <1>7. CASE IsCut
    <2>1. PICK s \in Seq(Records), t \in Seq(Records) : p = s \o t /\ q = s
      BY <1>7 DEF IsCut
    <2>2. Consecutive(q, seen) /\ \A k : Holds(q, k) => Holds(p, k)
      BY <1>1, <2>1, CutConsecutive DEF Numbered
    <2> QED
      BY <1>2, <1>7, <2>2 DEF IsCut, Numbered
  <1> QED
    BY <1>3, <1>4, <1>5, <1>6, <1>7 DEF PipelineStep, Stays, TakesFirst, TakesReply, Grows, IsCut

\* Both parts together, over a step.
LEMMA NextDelivery ==
  ASSUME IInv, IInv', DeliveryInv, [Next]_vars
  PROVE  DeliveryInv' /\ (seen' # seen => seen' = seen + 1)
  <1>1. TypeOK /\ TypeOK' /\ TokensIssued
    BY DEF IInv
  <1>2. LoopOrder' /\ PipelineStep
    BY <1>1, LoopOrderStep, NextPipelineStep DEF DeliveryInv
  <1> QED
    BY <1>1, <1>2, NumberedStep DEF DeliveryInv

\* The invariant of delivery.
LEMMA DeliveryHolds == Spec => []DeliveryInv
  <1>1. IInv /\ IInv' /\ DeliveryInv /\ [Next]_vars => DeliveryInv'
    BY NextDelivery
  <1> QED
    BY <1>1, InitDelivery, IInvHolds, PTL DEF Spec

\* The actor handles the records gdb wrote of its own accord one by one in the
\* order gdb wrote them: none is skipped, doubled or overtaken on its way
\* through pipe, reader, event queue and landing pad (readLoop, dispatchLoop,
\* recordQueue), whatever calls are made, given up or cut short meanwhile.
THEOREM InOrderHolds == Spec => InOrder
  <1>1. IInv /\ IInv' /\ DeliveryInv /\ [Next]_vars => [seen' # seen => seen' = seen + 1]_vars
    BY NextDelivery
  <1>2. Spec => [][Next]_vars
    BY PTL DEF Spec
  <1> QED
    BY <1>1, <1>2, IInvHolds, DeliveryHolds, PTL DEF InOrder

\* Unless Close is called, all that gdb ever said reaches the actor before both
\* loops are over, however gdb ends: the reader drains the pipe first and the
\* dispatcher the queue (readLoop, dispatchLoop).
THEOREM NothingLostHolds == Spec => []NothingLost
  <1>1. TypeOK /\ DeliveryInv => NothingLost
    <2> SUFFICES ASSUME TypeOK, DeliveryInv, closing = "open", ~dispatching, intake = <<>>
                 PROVE  seen = asyncs
      BY DEF NothingLost
    <2>1. Pipeline = <<>> /\ seen \in Nat /\ asyncs \in Nat /\ seen <= asyncs
      <3>1. events = <<>> /\ hand = <<>> /\ stdout = <<>>
        BY DEF DeliveryInv, LoopOrder
      <3> QED
        BY <3>1 DEF Pipeline, DeliveryInv, Numbered, TypeOK, QueueTypes, GdbTypes
    <2>2. \A k : ~Holds(Pipeline, k)
      BY <2>1 DEF Holds
    <2>3. \A k \in (seen + 1)..asyncs : Holds(Pipeline, k)
      BY DEF DeliveryInv, Numbered
    <2> QED
      BY <2>1, <2>2, <2>3
  <1> QED
    BY <1>1, TypeCorrect, DeliveryHolds, PTL
=============================================================================
