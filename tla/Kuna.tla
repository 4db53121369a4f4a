--------------------------------- MODULE Kuna ---------------------------------
(***************************************************************************)
(* kuna served to the decompiler's client (internal/ghidra/client.go,      *)
(* kuna.go): callers, the client that matches replies with them by id, the *)
(* server that answers each request on a goroutine of its own, and its     *)
(* engine, which asks a page over TCP and connects again, once, when the   *)
(* connection or the page's copy of the binary is gone.                    *)
(*                                                                         *)
(* The page is external: it answers what it is asked in order, or not; it  *)
(* may forget the binary, drop the connection, or refuse one.  The model   *)
(* begins with the greeting: connected, and the binary sent.               *)
(***************************************************************************)
EXTENDS Naturals, Sequences

CONSTANTS
    Callers,        \* goroutines that ask the client
    Functions,      \* functions asked for
    NoFunction,
    Index,          \* what else is asked for: names, functions, data
    MaxCalls,       \* bound: the calls
    MaxFaults       \* bound: what goes wrong with the page

VARIABLES
    call,           \* each caller's last call, and whether it waits
    queue,          \* requests written to the server, unread
    handlers,       \* the server's goroutines: id -> function asked
    wanting,        \* those of them that found nothing in the cache and want run
    cache,          \* the server's: the function whose code is kept for a function
    running,        \* the goroutine that holds run and is in Run
    step,           \* the request whose reply Run reads
    late,           \* Run's deadline has passed
    link,           \* the connection to the page
    has,            \* the page has the binary
    faults,         \* how often the page failed
    ids,            \* nextID
    serving,        \* serve: "reads", "drains", "gone"
    closing,        \* Close: "no", "quit", "killed", "ended"
    outlived        \* history: a request Run repeated was not answered in time

client == <<call, ids>>
server == <<queue, handlers, wanting, cache, serving>>
engine == <<running, step, late, outlived>>
page == <<link, has, faults>>
kunaVars == <<client, server, engine, page, closing>>

NoId == 0
Quit == [id |-> NoId, fn |-> NoFunction]

NoLink == [state |-> "none", owed |-> <<>>, replies |-> <<>>]
\* A connection on which one request was written.
Fresh(request) == [state |-> "up", owed |-> <<request>>, replies |-> <<>>]

LoadOp == [op |-> "load", fn |-> NoFunction]
Upload == [op |-> "upload", fn |-> NoFunction]
Run(f) == [op |-> "run", fn |-> f]

KunaInit ==
    /\ call = [c \in Callers |-> [id |-> NoId, fn |-> NoFunction, got |-> NoFunction, waits |-> FALSE]]
    /\ queue = <<>> /\ handlers = <<>> /\ wanting = {}
    /\ cache = [f \in Functions |-> NoFunction]
    /\ running = NoId /\ step = "idle" /\ late = FALSE
    /\ link = [NoLink EXCEPT !.state = "up"] /\ has = TRUE /\ faults = 0
    /\ ids = 0 /\ serving = "reads" /\ closing = "no" /\ outlived = FALSE

-----------------------------------------------------------------------------
(* The client.                                                             *)

\* readLoop has ended, or Close has called die.
Dead == serving = "gone" \/ closing \in {"killed", "ended"}

\* call, up to the wait.
Ask(c, f) ==
    /\ ~call[c].waits /\ ~Dead /\ ids < MaxCalls
    /\ ids' = ids + 1
    /\ call' = [call EXCEPT ![c] = [id |-> ids', fn |-> f, got |-> NoFunction, waits |-> TRUE]]
    /\ queue' = Append(queue, [id |-> ids', fn |-> f])
    /\ UNCHANGED <<handlers, wanting, cache, serving, engine, page, closing>>

\* The caller's context ends: its id is forgotten.
GiveUp(c) ==
    /\ call[c].waits
    /\ call' = [call EXCEPT ![c].waits = FALSE]
    /\ UNCHANGED <<ids, server, engine, page, closing>>

\* readLoop: the reply goes to the call that waits for its id, if one does.
Answered(id, f) ==
    [c \in Callers |->
        IF call[c].waits /\ call[c].id = id THEN [call[c] EXCEPT !.waits = FALSE, !.got = f]
        ELSE call[c]]

\* die: nobody waits any more.
AllFailed == [c \in Callers |-> [call[c] EXCEPT !.waits = FALSE]]

\* The handlers without one that has answered.
Without(id) == [h \in DOMAIN handlers \ {id} |-> handlers[h]]

\* A handler's answer, the last thing it does.
Answers(id, f) ==
    /\ handlers' = Without(id)
    /\ wanting' = wanting \ {id}
    /\ call' = IF Dead THEN call ELSE Answered(id, f)

-----------------------------------------------------------------------------
(* The server.                                                             *)

\* The handlers with one more.
With(id, f) == [h \in DOMAIN handlers \cup {id} |-> IF h = id THEN f ELSE handlers[h]]

\* serve reads a request and starts its goroutine; or it reads quit.
Serve ==
    /\ serving = "reads" /\ queue # <<>>
    /\ queue' = Tail(queue)
    /\ IF Head(queue) = Quit THEN serving' = "drains" /\ UNCHANGED handlers
       ELSE /\ handlers' = With(Head(queue).id, Head(queue).fn)
            /\ UNCHANGED serving
    /\ UNCHANGED <<wanting, cache, client, engine, page, closing>>

\* handle: what the index knows, under mu.
AnswerFromIndex(id) ==
    /\ id \in DOMAIN handlers /\ handlers[id] = Index
    /\ Answers(id, Index)
    /\ UNCHANGED <<ids, queue, cache, serving, engine, page, closing>>

\* decompile: what is in the cache is the answer.
LookInCache(id) ==
    /\ id \in DOMAIN handlers \ wanting /\ running # id /\ handlers[id] # Index
    /\ IF cache[handlers[id]] # NoFunction THEN Answers(id, cache[handlers[id]])
       ELSE wanting' = wanting \cup {id} /\ UNCHANGED <<handlers, call>>
    /\ UNCHANGED <<ids, queue, cache, serving, engine, page, closing>>

\* A request written to the connection; lost on one that is gone.
Written(l, request) ==
    IF l.state = "up" THEN [l EXCEPT !.owed = Append(@, request)] ELSE l

\* decompile, with run: the cache again, and then the engine.
TakeRun(id) ==
    /\ id \in wanting /\ running = NoId
    /\ LET f == handlers[id]
       IN  IF cache[f] # NoFunction
           THEN Answers(id, cache[f]) /\ UNCHANGED <<running, step, late, link>>
           ELSE /\ running' = id /\ step' = "run" /\ late' = FALSE
                /\ wanting' = wanting \ {id}
                /\ link' = Written(link, Run(f))
                /\ UNCHANGED <<handlers, call>>
    /\ UNCHANGED <<ids, queue, cache, serving, outlived, has, faults, closing>>

-----------------------------------------------------------------------------
(* The engine: kunaRemote.Run.                                             *)

\* Run returns f's code, or an error, and decompile answers.
Returns(f) ==
    /\ running' = NoId /\ step' = "idle" /\ late' = FALSE
    /\ cache' = IF f = NoFunction THEN cache ELSE [cache EXCEPT ![handlers[running]] = f]
    /\ Answers(running, f)

\* Run goes on with another request on the same connection.
Continues(next, request, l) ==
    /\ step' = next
    /\ link' = Written(l, request)
    /\ UNCHANGED <<running, late, cache, handlers, wanting, call>>

\* A reply is read: of the request, Run believes.
Got ==
    /\ running # NoId /\ ~late /\ link.replies # <<>>
    /\ LET r == Head(link.replies)
           rest == [link EXCEPT !.replies = Tail(@)]
           repeated == Run(handlers[running])
       IN  \/ /\ step \in {"run", "again"} /\ ~(step = "run" /\ r.kind = "no binary")
              /\ Returns(r.fn) /\ link' = rest
           \/ /\ step = "run" /\ r.kind = "no binary"
              /\ Continues("reload", LoadOp, rest)
           \/ /\ step \in {"load", "reload"} /\ r.kind = "have"
              /\ Continues("again", repeated, rest)
           \/ /\ step \in {"load", "reload"} /\ r.kind \in {"ok", "result"}
              /\ Continues(IF step = "load" THEN "upload" ELSE "reupload", Upload, rest)
           \/ /\ step \in {"upload", "reupload"} /\ r.kind \in {"have", "ok", "result"}
              /\ Continues("again", repeated, rest)
           \/ /\ step \in {"load", "reload", "upload", "reupload"} /\ r.kind \in {"no binary", "error"}
              /\ Returns(NoFunction)
              /\ link' = IF step \in {"load", "upload"} THEN NoLink ELSE rest
    /\ UNCHANGED <<ids, queue, serving, outlived, has, faults, closing>>

\* The two minutes are over.
Expire ==
    /\ running # NoId /\ ~late
    /\ late' = TRUE
    /\ UNCHANGED <<client, server, running, step, outlived, page, closing>>

\* Mutant: the connection is not given the deadline.
RequestFailsAlone == running # NoId /\ link.state # "up" /\ link.replies = <<>>

\* The request fails with the connection, or at the deadline.
RequestFails == running # NoId /\ (late \/ (link.state # "up" /\ link.replies = <<>>))

\* Mutant: a connection is kept that did not answer in time.
ReconnectKeeping(dialled) ==
    /\ RequestFails /\ step = "run"
    /\ IF dialled /\ ~late
       THEN /\ link' = Fresh(LoadOp) /\ step' = "load"
            /\ UNCHANGED <<running, late, cache, handlers, wanting, call>>
       ELSE UNCHANGED link /\ Returns(NoFunction)
    /\ UNCHANGED <<ids, queue, serving, outlived, has, faults, closing>>

\* The first time, Run closes the connection and dials another.
Reconnect(dialled) ==
    /\ RequestFails /\ step = "run"
    /\ IF dialled /\ ~late
       THEN /\ link' = Fresh(LoadOp) /\ step' = "load"
            /\ UNCHANGED <<running, late, cache, handlers, wanting, call>>
       ELSE link' = NoLink /\ Returns(NoFunction)
    /\ UNCHANGED <<ids, queue, serving, outlived, has, faults, closing>>

\* Then it gives up; only connect closes a connection that failed it.
GiveUpRun ==
    /\ RequestFails /\ step # "run"
    /\ link' = IF step \in {"load", "upload"} THEN NoLink ELSE link
    /\ outlived' = (outlived \/ (late /\ link' # NoLink))
    /\ Returns(NoFunction)
    /\ UNCHANGED <<ids, queue, serving, has, faults, closing>>

-----------------------------------------------------------------------------
(* The page.                                                               *)

Reply(kind, f) == [kind |-> kind, fn |-> f]

RepliesTo(request) ==
    IF request.op = "upload" THEN {Reply("ok", NoFunction)}
    ELSE IF request.op = "load" THEN {Reply(IF has THEN "have" ELSE "ok", NoFunction)}
    ELSE IF has THEN {Reply("result", request.fn), Reply("error", NoFunction)}
    ELSE {Reply("no binary", NoFunction)}

PageAnswers ==
    /\ link.state = "up" /\ link.owed # <<>>
    /\ \E r \in RepliesTo(Head(link.owed)) :
            link' = [link EXCEPT !.owed = Tail(@), !.replies = Append(@, r)]
    /\ has' = (has \/ Head(link.owed).op = "upload")
    /\ UNCHANGED <<client, server, engine, faults, closing>>

\* Its worker restarts.
PageForgets ==
    /\ faults < MaxFaults /\ has
    /\ has' = FALSE /\ faults' = faults + 1
    /\ UNCHANGED <<client, server, engine, link, closing>>

LinkDrops ==
    /\ faults < MaxFaults /\ link.state = "up"
    /\ link' = [link EXCEPT !.state = "down", !.owed = <<>>]
    /\ faults' = faults + 1
    /\ UNCHANGED <<client, server, engine, has, closing>>

-----------------------------------------------------------------------------
(* The end.                                                                *)

\* Close asks politely first.
Close ==
    /\ closing = "no"
    /\ closing' = "quit"
    /\ queue' = Append(queue, Quit)
    /\ UNCHANGED <<client, handlers, wanting, cache, serving, engine, page>>

\* serve waits for its goroutines and hangs up; readLoop ends the client.
HangUp ==
    /\ serving = "drains" /\ handlers = <<>>
    /\ serving' = "gone"
    /\ call' = AllFailed
    /\ UNCHANGED <<ids, queue, handlers, wanting, cache, engine, page, closing>>

\* The far end hung up, or quitGrace is over: the connection is closed.
CloseConn ==
    /\ closing = "quit"
    /\ closing' = "killed"
    /\ call' = AllFailed
    /\ serving' = IF serving = "reads" THEN "drains" ELSE serving
    /\ queue' = <<>>
    /\ UNCHANGED <<ids, handlers, wanting, cache, engine, page>>

\* stop: the engine is closed, once Run is not in it.
CloseEngine ==
    /\ closing = "killed" /\ running = NoId
    /\ closing' = "ended"
    /\ link' = NoLink
    /\ UNCHANGED <<client, server, engine, has, faults>>

-----------------------------------------------------------------------------

Goroutines ==
    \/ Serve \/ Got \/ GiveUpRun \/ HangUp \/ CloseConn \/ CloseEngine
    \/ \E dialled \in BOOLEAN : Reconnect(dialled)
    \/ \E id \in DOMAIN handlers : AnswerFromIndex(id) \/ LookInCache(id) \/ TakeRun(id)

KunaNext ==
    \/ \E c \in Callers, f \in Functions \cup {Index} : Ask(c, f)
    \/ \E c \in Callers : GiveUp(c)
    \/ Goroutines \/ Expire
    \/ PageAnswers \/ PageForgets \/ LinkDrops
    \/ Close

KunaSpec == KunaInit /\ [][KunaNext]_kunaVars

\* Goroutines run and deadlines pass; the page owes nothing, and no caller
\* gives up or closes of necessity.
KunaFairSpec ==
    /\ KunaSpec
    /\ WF_kunaVars(Serve) /\ WF_kunaVars(HangUp)
    /\ WF_kunaVars(CloseConn) /\ WF_kunaVars(CloseEngine)
    /\ WF_kunaVars(\E id \in DOMAIN handlers : AnswerFromIndex(id) \/ LookInCache(id) \/ TakeRun(id))
    /\ WF_kunaVars(Got \/ GiveUpRun \/ \E dialled \in BOOLEAN : Reconnect(dialled))
    /\ WF_kunaVars(Expire)

-----------------------------------------------------------------------------
(* Properties.                                                             *)

\* The code kept and shown for a function is that function's, whatever was
\* asked, abandoned, lost or asked again before it (client.go: "a late reply is
\* dropped"; kuna.go: Run, connect), as long as no request that Run repeated
\* has run out of time: OneAtATime says what that one does.
OwnAnswer ==
    ~outlived =>
        /\ \A f \in Functions : cache[f] \in {f, NoFunction}
        /\ \A c \in Callers : call[c].got \in {call[c].fn, NoFunction}

\* Every call ends, though the page may never answer and the caller may wait
\* for ever, and so does Close, which waits for the engine (kuna.go: the
\* deadline of decompile; client.go: quitGrace, die).
CallsAndCloseEnd ==
    /\ \A c \in Callers : call[c].waits ~> ~call[c].waits
    /\ closing = "quit" ~> closing = "ended"

\* The page is owed one reply at most: "the protocol is one at a time"
\* (kuna.go: mu).
OneAtATime == Len(link.owed) + Len(link.replies) <= 1
===============================================================================
