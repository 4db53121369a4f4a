# A verification development for gdb-wui

gdb-wui is a web front end for gdb. A Go server drives one gdb over its machine
interface (MI), keeps a mirror of what gdb is doing, and shows it to any number
of browser tabs, and to a language-model bridge (MCP), over WebSockets. This
directory holds TLA+ models of the parts of the server where order, failure and
concurrency decide whether it is right, the TLC runs that check them, and
proofs, for every size of the system, of most of the safety properties checked.

1. [The system](#1-the-system)
2. [The models](#2-the-models)
3. [The runs](#3-the-runs)
4. [What is proved](#4-what-is-proved)
5. [What the models say about the code](#5-what-the-models-say-about-the-code)
6. [What is not modelled](#6-what-is-not-modelled)
7. [Plan](#7-plan)

Run TLC with `tlc -config <Name>.cfg <Module>` and TLAPS with `tlapm
<Module>Proofs.tla`. PROJECT.json lists the runs with their modules and
properties, maps every definition to the lines of code it models, and lists the
hazards the properties are meant for.

## 1. The system

Paths without a directory of their own are below `src/internal`.

### Components

**MI client** (`mi/client.go`). State: the table of pending tokens, tombstones
of abandoned ones, a command semaphore, a bounded event queue, `dead`.
Operations: `Send`, `SendUnlocked`, `readLoop`, `dispatchLoop`, `markDead`,
`Close`. Any number of goroutines call it at once. Correct if a caller gets the
answer to its own command or an error, records reach the handler in order and
none is lost, and neither a call nor `Close` hangs on a gdb that reads its input.

**MI parser** (`mi/parse.go`, `escape.go`, `record.go`, `value.go`). No state:
a line becomes a record, a record a line. Correct if what is read is what was
written, whatever bytes a string holds, and a line gdb did not finish is not
taken for one that says something else.

**Session actor** (`debugger/session.go`, `events.go`, `commands.go`,
`deferredbp.go`, the line walk of `decomp.go`). State: the type `state`, above
all `runState`, `stopSeq`, the stack, the exit status; the landing pad
`recordQueue`. Operations: one handler per request type, one per MI record.
Handlers run one after another on one goroutine; each blocks on gdb. Correct if
the mirror agrees with gdb once it has caught up, what browsers were told
agrees with the mirror, and a resume is of the stop its sender was shown.

**Breakpoint mirror** (`debugger/commands.go`, `events.go`, `deferredbp.go`).
State: `breakpoints`, `ours` and the deferred start. gdb's table, kept by replies,
notifications and reconciliation; breakpoints on names only the decompiler
knows wait for the program to be mapped. Correct if it converges to gdb's table
and what a user asked for survives placing, refusals and a new gdb.

**Variable objects** (`debugger/varobj.go`, `values.go`, `write.go`). State: a
registry of gdb's variable objects by name and by path, with an LRU limit on
roots; watches. Operations: expand, assign, add, remove and edit a watch, three
kinds of write, the update at a stop. Correct if neither side holds one the
other has lost, and what is shown is what the program holds.

**Source paths** (`debugger/paths.go`, `srcfs/index.go`). State: substitutions
gdb was taught, a cache of resolved paths, the index of the project's files.
Correct if a file a person picks is the one shown.

**Event hub** (`hub/hub.go`). State: connections with a bounded queue each, a
sequence number, `closed`. Operations: accept, hello, read and write pumps,
`Broadcast`, `Shutdown`. Correct if no tab stalls the others, and a tab that is
not dropped ends up with the newest state.

**Decompiler** (`debugger/decomp*.go`). State: a process that is off, starting,
ready or failed, its client, the program it describes, all under a mutex and
changed by the actor, by start goroutines and by a watcher; the undo journal
and the index of names, changed by the actor. Correct if no process outlives
its use, what is ready describes the program that is loaded, undo reverses what
was done, and the index holds the names Ghidra has.

**Ghidra and kuna clients** (`ghidra/client.go`, `kuna.go`). State: calls that
wait, by id; for kuna a server of its own with a goroutine per request, a cache
of code, and an engine that asks a page over TCP, one request at a time, and
reconnects. Correct if a function is shown its own code, and calls and `Close`
end.

**MCP bridge** (`mcp/`). State: the run state and stop number last heard, calls
that wait, watchers of events. A WebSocket client that turns asynchronous stops
into synchronous tool calls. Correct if no tool waits for what has happened,
none answers with a stop that is older than its question, and each ends.

**Login** (`httpapi/auth.go`, `server.go`, `runfile/`, `cmd/gdb-wui`). State: a
link that is good once and for a minute, a run file that says where the server
is. Correct if a link gives one cookie, and gives it if it is used in time.

**Console and terminal** (`debugger/console.go`, `ptyio/`). What a user types
at gdb changes state behind the mirror's back; a resynchronisation follows.

**Wire types** (`wire/`), **configuration** (`config/`), the **web client**
(`assets/web/js`), and test tooling.

### How they interact

    browser tab --ws--> Hub.readPump --Handle--> actor --Send--> MI client --> gdb
        ^                                          ^                            |
        |                                          | recordQueue                |
        +--ws-- writePump <-- Broadcast <-- emit --+-- dispatchLoop <-- readLoop+

- A request is a call: `readPump` waits in `Session.Handle` until the actor has
  served it. Only `exec.pause`, terminal input and resizing avoid the actor.
- The actor waits inside `Send` for gdb's reply. It drains no records while it
  waits, hence the unbounded landing pad.
- Stops, exits and notifications come back through the reader, the queue, the
  dispatcher and the landing pad, long after gdb moved on.
- The bridge is one more connection of the hub: it sees the events tabs see, and
  its requests queue at the actor with theirs.
- A decompiler is a process, or a goroutine that asks one, reached by a socket;
  the actor asks it while it holds up everything else, and watchers and starts
  change its record meanwhile.
- Events go to every tab from several goroutines: the actor, `watchGDB`, the
  terminal pump, the decompiler's goroutines.

### What is hard

Late replies after a timeout; gdb dying at any moment with its last words still
queued, perhaps in the middle of a line; handlers that set the run state before
gdb's records do; stops that the server swallows because they belong to a walk
or to a deferred start; requests made at a stop that is over; changes made at
the console, in gdb itself or by another tab between two looks; a registry at
its limit; inverses of edits whose ids have been renumbered since; a request
repeated on a connection whose first answer is still to come; a tab that
connects during a broadcast or reads nothing; a tool that subscribes while the
stop it wants is on its way. PROJECT.json lists all of these as hazards, each
at its line.

## 2. The models

| Module | Models | Extends or uses |
| --- | --- | --- |
| `MIClient` | `mi/client.go` and `recordQueue`, with gdb as environment | instantiates `MICalls` |
| `MICalls` | what `Send` promises: abstract remote calls | |
| `MIClientProofs` | theorems about `MIClient` | `MIClient`, TLAPS |
| `MIText` | the codec: lines, records, values, escapes | |
| `Session` | the actor's run state, gdb and its process, what tabs show | |
| `Breakpoints` | the mirror of gdb's breakpoint table, deferred ones, run-to | |
| `VarObjects` | the registry, watches, rows, writes, and gdb's objects | |
| `SourcePaths` | the index, substitutions, the stack read by them | |
| `Hub` | `hub/hub.go`, with the actor as one of the goroutines that broadcast | |
| `Decomp` | the life of a decompiler in `decomp.go` and `decompprogram.go` | |
| `Edits` | edits, the journal of inverses, undo, the index of names | |
| `Kuna` | the decompiler's client, kuna's server and its engine | |
| `Bridge` | the MCP bridge's reader, watchers and tools | |
| `Login` | run file, mint, link and cookie | |
| `SessionProofs`, `HubProofs`, `EditsProofs` | theorems about these modules | their module, TLAPS |
| `DecompProofs` | theorems about `Decomp` and about `Kuna` | both, TLAPS |
| `BridgeProofs` | theorems about `Bridge` and about `Login` | both, TLAPS |
| `MirrorProofs`, `BreakpointsProofs` | theorems about `Breakpoints`: the mirror and gdb's table; then what users wished | `Breakpoints`, TLAPS; `MirrorProofs` |
| `MC...` | what is asked and what goes wrong, for TLC | their module; `MCReading` extends `MIText` and `SourcePaths`, `MCBridge` extends `Bridge` and `Login` |

The modules meet at interfaces. `Session`, `Breakpoints` and `VarObjects` use of
the MI client exactly what `MIClient` shows: commands are executed in the order
they were sent, also those nobody waits for (`ImplementsCalls`), and records
arrive in order and completely (`InOrder`, `NothingLost`). `MIClient`'s
`ReadError` hands on half a line; `MIText` says what becomes of it. `Hub` sees of the
session only that it publishes a snapshot before it broadcasts (`emit`), and
shows that a tab is sent the last event of `Session`'s variable `shown`.
`Bridge` gets its events in the order of that queue. `Decomp` shares with
`Session` that the actor serves one request at a time, and `exePath`; its
handlers touch the run state nowhere. `Edits` takes from `Decomp` that a client
dies at any moment and that another may start for what is loaded then. `Kuna`
is one of `Decomp`'s clients: its death is `Decomp`'s `Dies`, its `Close`
what `Decomp` waits for. The parts of the actor are checked apart because they
meet in little: `Breakpoints` and `VarObjects` have a run state of their own, as
far as their handlers look at it.

### MIClient

A caller goes through `Send` step by step: `sem` (the semaphore), `check` (the
dead channel), `register` (a token, the pending table), `write`, `wait`. The
write has no deadline: with gdb's stdin full (`StdinSize`) whoever holds
`writeMu` waits in it, and the others behind, until gdb reads or ends
(`PipeFull`). In `wait` it takes its reply, a closed channel, the end of its
context, or the dead channel, whichever the select picks. `SendUnlocked` starts
at `check`. The reader routes a record to a caller, to a tombstone or to the
event queue, where it may block (`emit`); the dispatcher moves it to the landing
pad (`intake`); the actor drains that only while it is in no call. `markDead`
has its three steps: the table is swapped under the lock, `dead` is closed, the
channels are closed one after another. `Close` is a sequence of three commands,
bounded but for their writes, the end of stdin, a wait for the process with a
kill at the deadline, `markDead` and the wait for both loops.

gdb reads a line, executes it and writes its result; writes records of its own;
may exit at any moment. A command is named by its caller and the number of the
caller's call. The token is what the code matches replies by, and that the two
agree is the property `OwnReply`.

`MICalls` says the same without any of it: a call may fail at any moment, a
command is executed at most once and in its caller's order, and success means
it was executed. `MIClient` refines it (`ImplementsCalls`) with `active` as
"not idle" and every kind of failure as one.

### MIText

A byte is its number and a line a sequence of bytes; `ParseRecord`, `Value`,
`CString`, `Unescape`, `MI` and their helpers are the functions of the same
names as operators on positions. The state is one line on its way: written
whole, then cut where gdb died, or behind a prompt without a newline, or with a
byte of the program's output inside. A token that does not fit 64 bits is one
above `MaxToken`.

### Session

A world is the mirror, gdb, the landing pad and what a tab that handles every
event shows. Each handler of the code is an operator from a world to the set of
worlds it can leave, because each command in it can be answered, be refused,
time out (and be executed later, `gdb.late`) or find gdb dead. A handler is one
step of the actor. That is sound because only the actor starts or resumes the
program: what the program does of its own accord during a handler can as well
be done before or after it. What it does because of a command that has just
timed out, and that gdb executes while the handler goes on, cannot: there
`Meanwhile` lets it stop or end at once.

| Code | Model |
| --- | --- |
| `state.runState, stopSeq, exePath, frames, stepping, deferredStart, inferiorPID, exitCode, exitSignal` | `st` |
| `recordQueue` and everything before it | `intake` |
| the events sent so far, as a tab applies them | `shown` |
| goroutines of `watchGDB` that have not spoken yet | `obituaries` |
| `setRunning`, `setExited`, `onStopped`, `onNotify`, `finishDeferredStart`, `advanceStepLine` | operators of the same names |
| `exeLoad`, `execRun`, `execResume`, `execRunTo`, `execKill`, `execStepLine`, `consoleExec`, `restartGDB` | operators of the same names |
| `gate`, `checkStopSeq`, `dispatch` | `Gate`, `CheckStopSeq`, `Dispatch` |

Four parts of the model are history, for the properties: `gdb.stops` numbers the
stops, `gdb.begun` is that number when the process began, `gdb.born` when this
gdb did, and `gdb.overtaken` remembers that a process was begun while a stop of
the one before was still on its way (section 5). gdb's records carry no such
number; the one in a record of the model is looked at by no handler.

A stack is the number of the stop it was read at. Exit code, signal and pid of
a run are the number of that run. The program is free to stop, exit or be
killed by a signal whenever it runs; whether an instruction step leaves the
line the walk began on is its choice too. A step over a call that never returns
is outside the liveness properties.

### Breakpoints and VarObjects

Both are written like `Session`: a handler is an operator from a world to the
worlds it may leave. A behaviour has a setting for good, which says what is
asked and what goes wrong in it.

In `Breakpoints` gdb has a table, a process and commands that timed out; it
reports by a record what the console or a stop does to a breakpoint, and only
answers what a `-break` command does. Places are a line of the program, a
line of a library, an address, a name only the decompiler knows, or main. gdb
finds the first once the program is loaded and the second once the program, as
it runs, has loaded the library (`LibraryLoads`); what it has found stays found.
At a start and at the placement alike, the decompiler can place any part of the
names that wait, also none: it is off, restarting or knows the name no longer.
`wanted` is what users have asked for
and not taken back, under a tag that goes with the breakpoint through its
placement and its restoration; a temporary breakpoint ends by itself when it is
hit, so it is no wish and has tag 0. `adrift` are the numbers of which the mirror
cannot know what gdb knows: a `-break` command changed them while a record about
them was queued, or had timed out (section 5). Three more are history:
`gdb.inherited` are the numbers of which an earlier gdb had still to tell the
actor when this one started, `gdb.overtaken` says that a program was begun
while the exit of the one before was queued, and `st.missed` are the names the
decompiler could not place when it was last asked. A new gdb is given the lines
the mirror has a path for, that is, those gdb had found. A handler ends with the event and
the records of its time still queued. What the program does meanwhile
(`Meanwhile`) is what a command makes it do: a resume that gdb executes late may
hit a breakpoint or end before the handler sends its next command. Deferred
breakpoints are placed in any order, since the code ranges over a map;
restored ones by number, since it sorts them.

In `VarObjects` the program has a function that calls another, both with a
variable of the same name and of different types, and one variable that lies on
a member of another, so that a write through one row shows in another. gdb keeps
what it last told of an object and reports differences, as `-var-update` does.
A stop updates every root and then creates missing watches, one after another,
each of which may evict a root.

### SourcePaths

A path is the sequence of its components, "." and ".." among them as the
compiler recorded them; one written with backslashes is marked as such. gdb is
external: a list of rules, of which the first that matches, letter by letter,
rewrites what the compiler recorded, and source directories. `Locate` and
`SubstitutionFor` look at the clean form of a path (`Slashed`, `Clean`), so a
rule may have a prefix gdb never meets. A stop resolves each frame of the stack
through the cache, the project and `Locate`, and teaches gdb the prefix a match
implies; the rest of the same stack was reported by the rules before. Any of
these lessons may fail. So may the reading of the stack after a pick, a typed
rule or a directory: the old one stays then. A choice is history: the last file
picked for a path, and whether a stack has been read since (`read`). It is dropped
when a rule of gdb's already rewrites the path, when the path was not recorded
clean (`Reachable`), when somebody types a rule or when gdb is replaced.

### Hub

`Broadcast` has the steps the code has: take a number, copy the connections,
queue to one after another. So has `serve`: add, take a snapshot, queue hello.
The session's state is a number the actor increments in `publish`; an event of
the actor carries it, an event of another goroutine carries none. A tab keeps
the state it shows and the newest state an *event* brought. A connection that
is removed starts afresh as another one.

### Decomp

| Code | Model |
| --- | --- |
| `decomp.state, client, starting, writable, closed, sidecarMiss, using, prefer, loads` | `d` |
| `decomp.sidecar`, `decomp.biasFrom` | `d.sidecar` (whether set), `d.anchor` (the client it was picked from) |
| `decomp.gdbExe`, `gdbAbs`; `state.exePath` | `learned`; `loaded` |
| a `ghidra.Client`, the goroutine that starts it, its watcher, its process | a record of `clients` |
| what the actor is in the middle of, and the client it is closing | `actor` |
| `decompChanged` events, and what `decomp.status` last told the browser | `news`, `pane` |

A handler of the actor is cut where the code gives up the mutex or waits: for
gdb in `learnGDBProgram`, for a process in `Client.Close`, and between the looks
at the record in `maybeStartDecomp`. In between, a start may come up, fail or
land, a client may die and be noticed. A start takes as long as it likes. The
configurations are those the program's flags can make, as far as
`maybeStartDecomp` tells them apart: an own project, an own binary, sidecars, a
kuna, a Ghidra and their combinations. A program may be loaded, or gdb may have
one that is learnt from it and that may turn out to be unreadable.

### Edits

A program is one function with two variables, a global and a comment. An edit
comes with the id and the name a tab last read; Ghidra resolves it by the name,
and by the id only without one, and renumbers the ids. `db` is what the running
Ghidra holds and `disk` what it has saved; a Ghidra that dies leaves the second.
A global has a name of Ghidra's own, made from its type, until somebody gives it
another (`own`); a type changes a name of Ghidra's own after the script has read
it for its answer (docs/findings.md, finding 42). The journal holds inverses with
the program and the author they are of, and, as history, the program before and
after. The index is made of a listing of functions and one of data, either of
which may leave something out; `listed` is history and says what they gave.

### Kuna

Callers, the client's read loop, the server's goroutines (`handlers`), the one
in `Run` and the page are processes. A connection is what the page owes and what
it has answered. `Run` has the steps of the code: the request, after a failure
of the connection another connection with load and upload, after "no binary" an
upload on the same one, and the request again; one deadline for all. A reply is
of whatever was asked first on that connection; `Run` believes it is its own.

### Bridge and Login

The reader, the tool that is served and the server's side of the connection
are the processes of `Bridge`. `deliver` is cut in two where it gives up the
lock (the cached state and a copy of the watchers; then their channels), and a
tool where it subscribes, looks, asks and waits. The server is what the bridge
sees of it: a run state with a stop number, a decompiler, requests that are
answered after events that were already queued. `Login` is composed with it in
one run: processes find the run file, mint a link and open it, while servers
start, end, are killed and take each other's place. The run file is written in
two steps (created empty, then filled) and removed by name, whatever it holds by then.

## 3. The runs

| Run | Shows | Bounds |
| --- | --- | --- |
| `MIClientCalls` | `TypeOK OwnReply NothingLost InOrder ImplementsCalls CallsEnd` | two callers, one of them twice; two unsolicited records; queue, both pipes and tombstones of one |
| `MIClientClose` | `CloseEnds` | a call of the actor and Close; a stdin of one line, and a gdb that may stop reading |
| `SessionActor` | `SettledAgreement BrowserAgrees NoOldStack ResumesShownStop EventsShown WalkEnds StopsShown` | six settings: requests and console commands that time out; a gdb that is replaced; walks and deferred starts of a tab and a tool; walks whose steps time out; a second run while stops of the first are queued; the same with runs and resumes that time out. At most four stops, two runs, one abandoned command, one death, walks of two steps |
| `HubEvents` | `EveryEventArrives BroadcastEnds` | one tab that reconnects, two states, one other broadcast, a queue of one |
| `DecompLife` | `OneStory NoOrphan Describes AnchorOfClient PaneCurrent ProcessesEnd` | nine configurations, two programs, one with a sidecar; three starts, two loads or late choices |
| `BreakpointMirror` | `MirrorAgrees UsersBreakpointsKept NamesPlaced RunToCleansUp` | nine settings: names placed, with refusals and without; the pane and the console; hits and gdb's own changes; commands that time out; a gdb that is replaced; a library that is loaded as the program runs, or not before gdb dies; a run over a stopped program; what was typed at a gdb that died. At most four breakpoints of one gdb, two wishes, four stops, one abandoned command, one death |
| `VarObjectsWatch` | `ObjectsKnown ValuesCurrent WatchesShown` | four settings; a registry of two roots, five objects, two watches, three stops, one lost answer, one death |
| `EditsUndo` | `IndexCurrent UndoRestores` | three settings; three edits, two types, a journal of two, two authors, one fault or death; any listing cut short |
| `BridgeTools` | `NothingOverlooked NewerStop ToolsEnd LinkGoodOnce` | three settings of two tools, a channel of two; and one of two servers, four links, a bridge and a printer |
| `Reading` | `RoundTrip CutNeverLies ChoiceTakesEffect` | fifteen lines of every form, cut anywhere, eight bytes of noise anywhere; three stacks with three paths that are not clean, four files, two rules, any lesson or stack refused |
| `KunaClient` | `OwnAnswer CallsAndCloseEnd` | two callers, two functions and the index, two calls, two faults |
| `KunaLate` | `OneAtATime` is violated, see section 5 | one fault |

Why the bounds suffice for what they are to show:

- A queue, a pipe and a tombstone list of one element are full after one, so
  every "full" branch is taken, and all can be full together, which
  `CallsEnd` needs. Two abandoned calls push a tombstone out of a list of one.
  A stdin of one line is full with the actor's command, and Close waits behind it.
- Three callers' worth of calls give an abandoned call, a later call by the same
  caller, and another caller in between: all a wrong delivery needs.
- In `Session` a wrong pairing needs two stops and two processes; a walk of two
  steps has a first, a middle and a last stop; one abandoned command is executed
  before or after any later one. The settings keep apart what does not meet: a
  behaviour has one for good, and each has all the interleavings of its own.
- In `Hub` connections meet only in the set a broadcast has copied, so one that
  comes and goes shows what several would; two states distinguish a lost last
  event from a lost earlier one.
- In `Decomp` a start, one that replaces it and one after that is all a stale
  landing, a late watcher or a leftover anchor needs; two programs, of which one
  has a sidecar, take every branch of the choice.
- In `Breakpoints` a placement needs two numbers for one wish, a second wish to
  be forgotten, and a fourth number for what another gdb calls it. Four stops
  are an entry stop, a stop of the program, and the same of the run that follows
  over it. A line of the program and one of a library are what a new gdb gets
  back and what it may not. One of the exceptions the properties state needs
  more than these settings hold (section 5); the theorems are about every
  setting.
- In `VarObjects` a registry of two is full with one watch and one row, and a
  stop that makes the second watch must evict; three stops are a change of
  scope, a change of type and one more.
- In `Edits` a journal of two overflows with the third edit; a run of two
  inverses is the shortest in which the second must find what the first renamed.
  Of the two types one keeps the global's name and one does not.
- In `Bridge` a channel of two is full with a stop behind other events. Two
  tools show that the first leaves nothing to the second.
- In `Reading` the lines hold every production of the grammar and every kind of
  escape, and a byte of noise is a quote, a separator, a digit, a backslash, a
  bracket, a newline, a control byte or half a character.
- In `Kuna` two calls are one that leaves something behind and one that could
  take it.

Deadlock is not checked: every run has an end within its bounds (no more calls,
stops or events), and the program really may be idle for ever.

### Fairness

- `MIClient`: goroutines run when they can; the shutdown timer and the deadlines
  of Close's three commands fire (they are contexts with a timeout). That is
  `WedgedSpec`, of `MIClientClose`: gdb owes nothing, not even that it reads or
  exits at the end of its input. `FairSpec`, of `MIClientCalls`, adds that gdb
  answers what it was sent unless it dies. Other deadlines need not fire, so
  `CallsEnd` holds without the caller's timeout. A write that waits goes on when
  gdb has read, or fails when it has ended; nothing else frees it, and
  `CloseEnds` excepts a write of Close's own that waits for ever.
- `Session`: the actor handles records although requests may be ready too,
  because Go's select chooses at random among what is ready (strong fairness
  of `Take`: a request between two records may make it wait, not for ever). gdb
  executes what it was sent, and an instruction step ends. Nothing makes users
  act or the program stop.
- `Hub`: `Broadcast` runs and so does `readPump`. Neither the write pump (a tab
  need not read) nor the actor's answer is fair, which is the point of
  `BroadcastEnds`.
- `Decomp`: the actor goes on with a request it has begun, the goroutines run,
  and every start returns (each has a timeout, except an import, which ends when
  its process does). Nobody has to ask for anything and nothing has to die.
- `Bridge`: the server answers requests, the reader and the tool run, and the
  tool's timer fires. `ToolsEnd` needs the first: `call` has no deadline.
- `Kuna`: goroutines run, the two minutes of a request and the grace of `Close`
  pass. The page owes nothing, and no caller has to give up.

`Breakpoints`, `VarObjects`, `Edits` and `Reading` have safety properties only:
a handler is one step there, and what waits is `MIClient`'s business.

## 4. What is proved

Eight modules hold theorems that TLAPS checks for every value of the constants:
any number of callers, connections, programs, links, goroutines, breakpoints,
wishes, stops, runs and faults, and any size of queue. What they assume of the
constants is in the `ASSUME` of their modules, nothing more: distinct names for
distinct goroutines, bounds that are numbers, programs with an identity. TLC
evaluates each of them in a run.
Every theorem is about the specification without fairness, so it holds of the
one the run checks.

| Theorem | States |
| --- | --- |
| `MIClientProofs!TypeCorrect` | `Spec => []TypeOK` |
| `MIClientProofs!OwnReplyCorrect` | `Spec => []OwnReply` |
| `MIClientProofs!CallsImplemented` | `Spec => ImplementsCalls`, the refinement of `MICalls` |
| `MIClientProofs!InOrderHolds` | `Spec => InOrder`, an action property |
| `MIClientProofs!NothingLostHolds` | `Spec => []NothingLost` |
| `SessionProofs!MirrorAgrees` | `Spec => []SettledAgreement` |
| `SessionProofs!StackIsCurrent` | `Spec => []NoOldStack` |
| `SessionProofs!BrowsersAgree` | `Spec => []BrowserAgrees` |
| `SessionProofs!ResumesOnlyShown` | `Spec => ResumesShownStop`, an action property |
| `SessionProofs!EventsAreShown` | `Spec => EventsShown`, an action property |
| `HubProofs!EveryEventArrivesHolds` | `Spec => []EveryEventArrives` |
| `DecompProofs!OneStoryHolds`, `NoOrphanHolds`, `DescribesHolds`, `AnchorOfClientHolds`, `PaneCurrentHolds` | `Spec => []OneStory` and so on |
| `DecompProofs!OwnAnswerHolds` | `KunaSpec => []OwnAnswer` |
| `EditsProofs!IndexCurrentHolds` | `Spec => []IndexCurrent` |
| `EditsProofs!UndoRestoresHolds` | `Spec => UndoRestores`, an action property |
| `BridgeProofs!NothingOverlookedHolds` | `Spec => []NothingOverlooked` |
| `BridgeProofs!NewerStopHolds` | `Spec => NewerStop`, an action property |
| `BridgeProofs!LinkGoodOnceHolds` | `LoginSpec => []LinkGoodOnce` |
| `MirrorProofs!MirrorAgreesHolds` | `Spec => []MirrorAgrees` |
| `BreakpointsProofs!UsersBreakpointsKeptHolds` | `Spec => []UsersBreakpointsKept` |
| `BreakpointsProofs!NamesPlacedHolds` | `Spec => []NamesPlaced` |
| `BreakpointsProofs!RunToCleansUpHolds` | `Spec => []RunToCleansUp` |

None of these properties is inductive by itself. Each module defines the
invariant it needs, which TLC checked on the instance of the run before it was
proved, and a theorem of its own states that (`IInvHolds`, `SessionInvHolds`,
`HubInvHolds`, `DecompInvHolds`, `KunaInvHolds`, `EditsInvHolds`,
`BridgeInvHolds`, and for `Breakpoints`, one upon the other, `BaseHolds`,
`KeptHolds`, `InTimeHolds`).

**MIClient, replies.** `OwnReply` says what a finished call returned; that it is
right depends on what is in the caller's channel, which depends on the token of
the record in the pipe, which depends on what was written. The invariant `IInv`
follows that chain. `TokensIssued` bounds every token anywhere by the counter,
so that `Register` makes a fresh one. `TokensOwned` says that two places that
hold the same token hold the same caller and call, and that a caller waits on
its own. `IssueOrder` says that the lines in gdb's input are younger than
everything executed, caller by caller, which is what the abstract `Execute`
requires. The refinement follows from it, the initial state and each step
separately.

**MIClient, records.** A record is in the actor's queue, the dispatcher's, the
reader's hand or the pipe. `Pipeline` is these one behind the other, and
`Numbered` says that it continues, without a gap, from the last record seen:
moving a record from one to the next does not change it, whichever of them is
full. `LoopOrder` says who ends before whom, so that the pipe is empty when the
reader has gone and the queue when the dispatcher has. That Close can take the
pipe away is the exception `Numbered` names, and `NothingLost` with it.

**Session.** A handler is a chain of commands, any of which may be answered,
refused, time out or find gdb dead, and of changes of the mirror. So the
invariant is stated of a world, and shown to survive the three things such a
chain is made of, whoever makes them: a move of gdb (seven kinds, told apart by
what they append to the queue), a change of the mirror that gdb's state allows,
and the oldest record leaving the queue. `Sound` survives each of these by
itself. It says that the stops in the queue are in order and newer than the one
the mirror counts (`Numbered`); that the last record of the queue, or with
an empty queue the mirror, tells the state of the process (`LastWord`); that
between two stops the program was resumed, and that gdb said so (`Spaced`); that
the process of a last stop is still there (`LastStop`); that a stack is not
older than the stop it is shown with, nor than this gdb (`StackRead`,
`StackOfThis`); and that a deferred start has not outlived the first stop of its
process (`Entry`). `Firm` adds what holds only between two handlers: a gdb that
is down has no process (`Down`); what waits for a deferred start is a stop of a
program the mirror has seen run (`EntryLed`); and the mirror is at most one
stop behind, and not behind at all when it says "stopped" (`InStep`), which is
what makes `checkStopSeq` mean something. `Told` is about browsers: the run
state they were told is the mirror's, or a record is queued that will tell them.
From `Firm`, each request is shown to lead back to `Firm`, and each record
likewise.

**Hub.** `OneAuthor`: only the actor broadcasts states, and the one it is
broadcasting is the newest. `NoneMissed`: a registered connection joined with
the newest state, or is being dropped, or is still to be reached by the
broadcast in progress, or has the newest state as the last one in its queue or
on its screen. The last is about a queue that has other messages in it and is
being read meanwhile.

**Decomp.** A decompiler's life is shared between the actor, one goroutine for
each start and one for each watch. `OneStart` says the record agrees with
itself and that of all starts ever begun only the last can still be in the air;
`NoneLeft` at which points of its goroutine a client has a process;
`AnchorKnown` what the actor may hold on to across the two questions it asks a
client; `StartsDescribe` that a start still in the air is of the program loaded
when it began, and that it is replaced if another was loaded since;
`PaneTold` that whenever the pane shows something else the news is on its way.
For each group of actions a lemma says what they do to the record and the
clients, and each conjunct is proved from these.

**Kuna.** The page's replies carry no number, so whose code a reply is follows
from the connection: `Private` says that it owes nothing when nobody runs and
at most the reply the one that runs waits for. `IdsFresh` and `CallsAgree` say
that the goroutine that answers a call was started for what the call asks.
`OwnAnswer` is under the condition that no request `Run` has repeated outlived
its deadline; `KunaLate` (section 5) shows that `Private` fails without it.

**Edits.** That an undo restores depends on what was put in the journal when the
edit was made. So `Reverses` is stated of each entry, of every program and every
numbering of the ids: applied to any program that reads as the edit left it,
the inverse finds exactly what the edit was made on, is not refused for a name
that is taken, and gives back what was there. It holds because the inverse goes
by the name the thing answers to now, because nothing is ever nameless, no two
variables share a name and a global whose name is Ghidra's own has the one its
type makes (`Sane`; `Good` for the edits); the lemma `Inverts` proves it from
`Made` and `InverseOf`, kind by kind. Left out is the type that gave a global
another of Ghidra's own names (`Relabels`), whose inverse asks for the old name
and is refused (section 5). `Reverses` is of no state, so no
later edit can disturb it, and an overflow or an undo only makes the journal
shorter. `Runs` says that what carries one number is one author's. Undoing a run
is a recursive function over sets of outcomes; `UndoLoop`, by induction on its
domain as for `Breakpoints` below, carries `UndoneSoFar` from one undo to the
next: how much of the journal is gone, and that the program reads as the oldest
entry taken off found it. `IndexCurrent` is inductive with `Numbered`: an
index kept from an earlier Ghidra has that one's number, which no later one gets.
It speaks of what the listings gave, and is not about what they left out.

**Bridge.** `StopsAscend`: what is still on the wire is newer than the cache,
and what is kept for a tool newer than what it was told of. `CacheFollows`:
the cache tells the state the program is in, or the wire does. `OneReply`: the
server answers the call that waits, once, and nothing it sent before that comes
after it. `NoneOverlooked`: if what a tool waits for has happened, the event is
in its channel, in the reader's hand or on the wire, or the channel has
overflowed, which is marked.

**Login.** `BootTells`: what the server knows of its link is true of it, and no
link to come has given a cookie. `RightlyTurnedAway` has to be kept while
links age, are replaced and servers end.

**Breakpoints, the mirror.** `MirrorAgrees` speaks of the moment the actor has
caught up. What is true before that is `Agree`: of a number that is not adrift,
the last record queued tells what gdb's table holds, and without one the mirror
shows it. `Follows` keeps `Agree` from being disturbed by an older record: all
that is queued about a number is about the breakpoint gdb has there, except what
an earlier gdb said. `Same` says that a number the mirror has on a name is
that name's in gdb too, so that a placement deletes the right one, and
`NamesShown` that without abandoned commands none is missing from it. With
`Shape`, the types and bounds, they are `Base`. Like `Session`'s, it is stated
of a world, and three lemmas show that it survives what a handler is made
of: a move of gdb that queues records (`Moved`), a reply the server writes into
its mirror (`Touched`), and the oldest record taken from the queue (`Taken`).
Each verb of gdb, each record and each request is shown to be a chain of these.

Two handlers are loops over a table of any size: the placement of deferred
breakpoints and their restoration in a new gdb. Each is a recursive function,
whose existence is proved by induction on its domain; the library's induction
rules take an operator, so `Inductive` states induction for sets, from the
well-foundedness of the numbers. `ResolveLoop` and `RestoreLoop` then say once
that what each round keeps, the loop keeps. For the first, what is kept is
indexed by the set of breakpoints placed so far, so that the order, which the code
leaves open, does not matter.

**Breakpoints, wishes.** `Kept`: every wish is served by a breakpoint in gdb's
table that nobody is about to delete on the server's own account (`Doomed`: a
deletion that timed out and that no user asked for). A placement inserts
first and deletes afterwards, so between the two a wish is served twice;
`KeptBut` is the same with the numbers and the wishes a handler has in its hands
taken out. That the breakpoint deleted is the one that was placed is `Same`. A
wish for a line that was pending in the mirror ends with its gdb, as the code has it.

**Breakpoints, in time.** `InTime` assumes no abandoned command. `Behind`: the
temporary breakpoints of run-tos, in the table, the mirror or a record, were
asked for before the last resume. `Waits`: a breakpoint on a name older than the
process is left only while the process stands at its first instruction and the
actor knows that it asked for that stop, or is one of those the decompiler could
not place (`st.missed`). That is so as long as no stale exit is queued in front
of it (`Alive`), and each step of the placement leaves one name less of those it
can place (`Placing`).

Only model-checked, and why:

- Liveness: `CallsEnd`, `CloseEnds`, `WalkEnds`, `StopsShown`, `BroadcastEnds`,
  `ProcessesEnd`, `CallsAndCloseEnd`, `ToolsEnd`, `WatchesShown`. Fairness is
  `ENABLED`, which is out of the prover's reach.
- `MIText` (`RoundTrip`, `CutNeverLies`) and `SourcePaths`
  (`ChoiceTakesEffect`): what `ParseRecord` does with every line or `Locate` with
  every project is an induction over data, and a parser is written with
  RECURSIVE operators. They are checked over the lines and files of the run.
- `VarObjects` (`ObjectsKnown`, `ValuesCurrent`): a handler goes through the
  registry and its effect is the sum of the steps (`update`, evictions). What
  only has to be preserved by each step could be proved as for `Breakpoints`,
  and is in the plan (section 7).

## 5. What the models say about the code

### The run that finds a violation

`KunaLate`. "mu serialises the requests: the protocol is one at a time"
(kuna.go:124). A request whose connection fails, or whose deadline passes, makes
`Run` connect again, which closes the old connection. But the request `Run` then
repeats, or the upload before it, may run out of the same deadline, and there
`Run` only returns (kuna.go:253): the reply stays owed on a connection that
stays open. The next request is a second one at a time, reads that reply as its
own, and another function's code is returned and cached. `OneAtATime` says the
page never owes or holds out more than one reply. `OwnAnswer`, which
`KunaClient` checks of every behaviour in which no repeated request runs out of
time, shows that nothing else mixes answers up.

### Where code and documents part, without a run of their own

These are counterexamples met while the models were written; the models keep
the behaviour of the code, and the properties are stated so that they hold
around it (section 2 names the exceptions, such as `adrift`).

MI client:

- A write to gdb's stdin has no deadline and holds `writeMu`
  (client.go:392-399). With the pipe full and gdb reading no more, a caller is
  held past its context, with every other caller behind it. `Close` is held as
  well, past its three seconds: its own commands (client.go:541-557) come before
  the end of stdin and the kill (client.go:559-571), which alone could free them,
  although it means to escalate (client.go:526). `CloseEnds` excepts it.

Session:

- `exitCode` and `exitSignal` are never reset. A program that exits with 1 and
  is run again and killed by a signal is reported with the old code and the new
  signal (docs/protocol.md:279-281 promises both of *that* exit).
- `restartGDB` resets the mirror but not the record queue. A stop of the dead
  gdb is applied to the mirror of the new one (session.go:913); the announcement
  of the death may come after the stops of the gdb that follows.
- `exeLoad` over a stopped program ends it; the notification is ignored because
  the mirror says no program by then (events.go:291), and `inferiorPID` remains.
- An instruction step sets "running" by itself and keeps the stack, so a stop of
  a walk whose stack cannot be read shows the one before (events.go:80); a walk
  whose program exits leaves `stepping` to the next run.
- `exec.pause` "does not queue behind the others" (docs/protocol.md:128), but
  `readPump` reads it only after the same tab's last request was answered
  (hub.go:200).
- A step that timed out and is executed late, followed by a retry, steps twice
  (session.go:693). `exec.run` over a stopped program queues the old one's exit,
  which reopens the gate (commands.go:136). A program ended by a signal is
  announced twice (events.go:95). A line step resumes without a `running` event
  (decomp.go:1783). A continue typed at the console can make `checkStopSeq`
  accept a click made at an older stop (session.go:728).

- The actor's select may serve a request before records that are queued
  (session.go:352-363), and `checkStopSeq` compares a number with the mirror's
  only. After a kill and a run, or a run over a stopped program, a stop of the
  old process that is still queued is shown as one of the new; a tab's continue
  with its number is accepted and may resume the new process at a stop nobody
  was shown. `ResumesShownStop` is about behaviours in which no process was
  begun over such a stop (`overtaken`).
- `exec.kill` leaves `deferredStart`. A start that timed out and is executed
  after the kill is then resumed without a `running` event, and tabs show
  "exited" until gdb's records are handled (deferredbp.go:134); a stop of an old
  process can likewise be taken for the entry stop of one started late.

Breakpoints:

- A record that was queued about a breakpoint when a `-break` command about it
  is served, or when a late one is executed, puts the deleted or the older
  breakpoint back. A list, a load or a console command heals it; until then a
  ghost on a name would even be placed.
- A re-run over a stopped program ends the old one after the request; a name set
  between `=thread-group-exited` and `*running` stays pending for that run.
- A new gdb gets back the breakpoints on source lines only, enabled and
  permanent, and none if no program was loaded (session.go:939). A line gdb had
  not found yet, of a library that was not loaded, has no path in the mirror and
  is skipped (session.go:944), although a pending one is kept as "someone means
  to keep" it (commands.go:314). `UsersBreakpointsKept` excepts it. Records of the
  old gdb hit the numbers of the new: one about a breakpoint on a name makes the
  mirror show a restored line as that name, and the next placement deletes the
  line (deferredbp.go:119). `UsersBreakpointsKept` excepts it: it takes a name
  and a line typed and set before the death, a stop and a run, which TLC
  finds at once without the exception and cannot exhaust with it.
- `exec.run` over a stopped program queues the end of the old one, which reopens
  the gate. If the new one has ended too, a run accepted then has a stale exit in
  front of its stop, and taking it clears the deferred start (events.go:137): the
  stop at the first instruction is shown as an ordinary one, no name is placed,
  and a continue runs past them all. `NamesPlaced` is about behaviours in which
  no start was overtaken like that.
- A name the decompiler cannot place when the program starts, because it is off,
  has died or is starting, does not make the start a deferred one
  (deferredbp.go:82, 124-129): the program runs past its first instruction, and
  the name waits although the decompiler may know it a moment later. Nor is one
  tried again that could not be placed at the stop (deferredbp.go:95). The code
  says so ("stays pending"), and `NamesPlaced` excepts it.

Variable objects:

- A watch that was evicted, or emptied by a run that was refused, and is then
  expanded becomes a bound object under the watch's path, which follows the
  frame no longer (docs/protocol.md:367).
- `vars.expand` is sent without a frame (main.js:183), so a tree opened in an
  outer frame is of the innermost (docs/features/threads.md:19); an assignment
  in it goes to the frame selected.
- `frame.select` reads no watch again, and neither does `set var` at the console
  until the next stop.
- A `-var-create` that timed out stays in gdb; after the registry starts its
  numbers again, its name is refused. A `-var-update` that timed out loses its
  changes. A path taken by another object leaves its old one in `byName`.
  Children of a root out of scope stay "in scope".

Source paths:

- `SubstitutionFor` makes its prefix of the clean path (index.go:189-190), and gdb
  compares it with the path as it was recorded. For a path like
  "./nptl/./nptl/cancellation.c", which index.go:116 has in mind, or one with
  backslashes, gdb never applies the rule: the file picked has no effect and
  nobody is told. `ChoiceTakesEffect` is about paths recorded clean.
- A stack gdb fails to give after a pick stays as it was, with the old files,
  until the next stop (paths.go:210-213).
- A file picked for a path that an earlier rule, perhaps one the server taught
  gdb by itself, already rewrites has no effect, even within one stack
  (docs/features/source.md:127).
- The rule that follows from the only candidate of a weak match overrides better
  matches of its siblings: the same path shows different files at successive
  stops (docs/protocol.md:635-642).
- Rules are learnt from paths that were rewritten already; `stale` is not
  looked at again after a load (docs/protocol.md:653); a lesson that failed is
  not repeated while the path is cached; a path directly below `/` is refused
  with the wrong message.

Codec:

- Output of the program in front of a record takes the record with it, or
  changes its token. A `^done` cut out of a longer line is a shorter record.
- A tuple with a name twice becomes JSON with a key twice, and `[{frame={}}]`
  and `[frame={}]` become the same JSON.

Hub:

- `helloEvent` takes a snapshot and `sendTo` queues it later (hub.go:163). An
  event in between is delivered first and then overwritten by the older state
  (docs/protocol.md:210-212).
- hello is not always the first message (hub.go:24) and takes a number no other
  tab sees (hub.go:74). Two goroutines can queue their events in the opposite
  order of their numbers. A connection accepted before `Shutdown` and added
  after its copy is not closed (hub.go:336).

Decompiler:

- Choosing kuna while a Ghidra starts only raises `loads`. The goroutine that
  starts a Ghidra never looks at it: the Ghidra lands, stays, and the choice is
  forgotten until it is made again (decomp.go:760).
- A sidecar or a kuna that failed to start leaves the decompiler failed for
  every program loaded later (decomp.go:871; docs/features/decompilation.md:332
  says loading another program switches to it).

Edits:

- Undoing an agent's rewrite of a person's comment marks the person's comment as
  the agent's (decompedit.go:262-268; docs/protocol.md:926-929).
- The journal outlives the Ghidra its inverses belong to (decompedit.go:258). An
  edit that was made but not answered is not in it, and leaves the index stale.
- The type of a global that had none cannot be undone. Nor can one that gave the
  global another of Ghidra's own names, as a string does: the answer names it
  as it was before (DecompServer.java:492-497, though docs/findings.md:398-417
  knows that the name changes), the inverse asks for that name, is refused
  (`globalAt`), and is gone from the journal. `UndoRestores` excepts it.
- A listing of data that failed, or either that was cut short at `maxIndex`, is
  cached as if it were whole (decompindex.go:199-205, 259-261), until the next
  edit or the next Ghidra. `IndexCurrent` speaks of what the listings gave.

kuna:

- A request that is queued when the client closes connects again after the
  engine was closed, and nobody closes that connection (kuna.go:360). `Close`
  during a decompilation waits its grace and then for the mutex.
- `connect` reads the binary again; after a rebuild, `sha` changes while the
  index, the cache and the greeting are of the old one.
- The reply to an edit and the death of the client race, so that an edit that
  was made can be reported as failed. A call registered after `die` has drained
  leaves its entry.

Bridge and login:

- `pause` of a program that does not run waits out its deadline. A stop of
  somebody else's resume, between a tool's request and its handling, is taken
  for the answer; a second `exited` may answer the next run.
- What the bridge remembers is not changed by `exeLoaded`, `gdbDead` or a
  restart, so that `wait_for_stop` answers "already stopped" of a program that
  is gone (mcp/session.go:215). A full channel drops the stop. `call` has no
  deadline.
- `runfile.List` removes a file it read half written, or read stale and which
  has been rewritten since (runfile.go:118): a live server nobody finds.
  `printURL` removes that of a live server that does not answer in time. A mint
  by the bridge invalidates the link just printed (auth.go:147).

### What holds

The larger part. The mirrors of the run state and of the breakpoints converge
whatever is abandoned, refused or typed. A walk and a deferred start give back
every stop that is not theirs. A tab resumes the stop it was shown. Replies
never reach the wrong caller, and the client neither hangs on a gdb that reads
nor loses what gdb said. A user's breakpoint outlives its placement. gdb holds
no variable object the registry has lost but those of answers nobody heard, and
a stop shows each watch its value. Undo restores what was there, but for the
exception above. A slow tab costs nobody else anything. No decompiler outlives
its use, however its start races with loads, switches and the shutdown. A tool
that resumes answers with a newer stop, and with one.

## 6. What is not modelled

In the modelled modules: starting gdb and its handshake (the initial state); the
console capture; the list of threads and the selection of one; the caches of
symbols and registers; `exec.finish`, a step with one more guard; `remoteTarget`
and the directory of programs copied from a target. In `VarObjects`, pages of
children and formats. In `Hub`, malformed frames and pings, which end in an
error reply or in `Leave`. In `Decomp` and `Kuna`, how projects are named and
binaries hashed, the arithmetic of addresses, and what the decompiled text says.
In `Edits`, what Ghidra makes of a type, and the neighbours a longer one takes
from its global. In `Bridge`, the tools that only read. `ghidra/client.go`
appears as `Kuna`'s caller and in `Decomp`; its handshake is left out.

Left out as well, with the reasons in PROJECT.json: most of the scripts in
Ghidra's JVM, which are calls of its API; the wire types, which have no
behaviour; flags and their precedence; the gate of the HTTP server, one
comparison per request; saving the configuration; the pty; descriptions of
tools for a model; the web panels, whose state is derived from one message
each; test tooling.

## 7. Plan

What is to be proved next, and is checked by a run today: `ObjectsKnown` of
`VarObjects`, from what one creation, one deletion and one eviction do to
registry and gdb, with the loops as in `Breakpoints`; then `ValuesCurrent`.

Liveness, the codec and the choice of a source file stay with TLC.

To be modelled after that: the caches of symbols, the console capture and the
guard the web client puts around requests it repeats.
