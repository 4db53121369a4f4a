---------------------------- MODULE MirrorProofs ----------------------------
(***************************************************************************)
(* Theorems about the mirror of gdb's breakpoint table: for any requests in*)
(* any order, any commands that time out or are refused, any number of     *)
(* breakpoints, stops and gdbs, browsers are shown what gdb has.           *)
(*                                                                         *)
(* A handler is an operator from a world to the worlds it may leave, so the*)
(* invariant Base is one of worlds.  It survives two kinds of steps: moves *)
(* of gdb, told or not (Moved), and changes of gdb's table and the mirror  *)
(* at one number (Touched); and the first record leaving the queue (Taken).*)
(* Every command, every request and every loop over breakpoints is made of *)
(* these.                                                                  *)
(***************************************************************************)
EXTENDS Breakpoints, SequenceTheorems, FiniteSetTheorems, WellFoundedInduction, TLAPS

\* What gdb, the mirror and the records may hold of one breakpoint.
Bps ==
    [place : {"line", "library", "address", "name", "main"}, temporary : BOOLEAN, enabled : BOOLEAN,
     pending : BOOLEAN, tag : Nat, by : {"user", "runTo", "gdb", "typed"}, at : Nat]

Tables == UNION {[numbers -> Bps] : numbers \in SUBSET Nat}

Verbs == {"insert", "insertNow", "delete", "enable", "continue", "run", "runMain",
          "starti", "load", "list"}

\* What the actor or the console may send to gdb.
Commands == [verb : Verbs, n : Nat, bp : Bps, typed : BOOLEAN, wish : BOOLEAN]

\* Records about a breakpoint; the others are about the process and have no
\* number.
ToldKinds == {"created", "modified", "deleted"}
Records ==
    [kind : ToldKinds \cup {"running", "stopped", "ended", "exited"}, n : Nat, bp : Bps]

\* What the actor, gdb and the whole world may be.
Mirrors ==
    [runState : {"none", "running", "stopped"}, exe : BOOLEAN,
     deferred : {"none", "stop", "resume", "resumeMain"},
     mirror : Tables, ours : SUBSET Nat, issued : Nat, missed : SUBSET Nat]

Gdbs ==
    [up : BOOLEAN, process : {"none", "running", "stopped"}, loaded : BOOLEAN,
     library : BOOLEAN, entry : BOOLEAN, table : Tables, next : Nat, late : Seq(Commands), stops : Nat,
     resumes : Nat, began : Nat, deaths : Nat, overtaken : BOOLEAN,
     inherited : SUBSET Nat]

Wishes == [tag : Nat, enabled : BOOLEAN]

AllWorlds ==
    [st : Mirrors, gdb : Gdbs, intake : Seq(Records), wanted : SUBSET Wishes,
     adrift : SUBSET Nat]

-----------------------------------------------------------------------------
(* Tables.                                                                 *)

\* A table is a function from some numbers to breakpoints.
LEMMA TableIs ==
    ASSUME NEW t
    PROVE  t \in Tables <=> /\ DOMAIN t \subseteq Nat
                            /\ t = [m \in DOMAIN t |-> t[m]]
                            /\ \A m \in DOMAIN t : t[m] \in Bps
<1>1. ASSUME t \in Tables
      PROVE  /\ DOMAIN t \subseteq Nat
             /\ t = [m \in DOMAIN t |-> t[m]]
             /\ \A m \in DOMAIN t : t[m] \in Bps
  <2>1. PICK S \in SUBSET Nat : t \in [S -> Bps]
    BY <1>1 DEF Tables
  <2> QED
    BY <2>1
<1>2. ASSUME DOMAIN t \subseteq Nat, t = [m \in DOMAIN t |-> t[m]],
             \A m \in DOMAIN t : t[m] \in Bps
      PROVE  t \in Tables
  <2>1. t \in [DOMAIN t -> Bps]
    BY <1>2
  <2> QED
    BY <1>2, <2>1 DEF Tables
<1> QED
  BY <1>1, <1>2

\* A table with one entry more, or another, is a table and as before elsewhere.
LEMMA TableWith ==
    ASSUME NEW t \in Tables, NEW n \in Nat, NEW bp \in Bps
    PROVE  /\ With(t, n, bp) \in Tables
           /\ DOMAIN With(t, n, bp) = DOMAIN t \cup {n}
           /\ With(t, n, bp)[n] = bp
           /\ \A m \in DOMAIN t : m # n => With(t, n, bp)[m] = t[m]
<1>1. /\ DOMAIN With(t, n, bp) = DOMAIN t \cup {n}
      /\ With(t, n, bp)[n] = bp
      /\ \A m \in DOMAIN t : m # n => With(t, n, bp)[m] = t[m]
  BY DEF With
<1>2. With(t, n, bp) = [m \in DOMAIN With(t, n, bp) |-> With(t, n, bp)[m]]
  BY DEF With
<1>3. DOMAIN t \subseteq Nat /\ \A m \in DOMAIN t : t[m] \in Bps
  BY TableIs
<1>4. \A m \in DOMAIN With(t, n, bp) : With(t, n, bp)[m] \in Bps
  BY <1>1, <1>3
<1> QED
  BY <1>1, <1>2, <1>3, <1>4, TableIs

\* A table without an entry is a table and as before elsewhere.
LEMMA TableWithout ==
    ASSUME NEW t \in Tables, NEW n \in Nat
    PROVE  /\ Without(t, n) \in Tables
           /\ DOMAIN Without(t, n) = DOMAIN t \ {n}
           /\ \A m \in DOMAIN t \ {n} : Without(t, n)[m] = t[m]
<1>1. /\ DOMAIN Without(t, n) = DOMAIN t \ {n}
      /\ \A m \in DOMAIN t \ {n} : Without(t, n)[m] = t[m]
  BY DEF Without
<1>2. Without(t, n) = [m \in DOMAIN Without(t, n) |-> Without(t, n)[m]]
  BY DEF Without
<1>3. DOMAIN t \subseteq Nat /\ \A m \in DOMAIN t : t[m] \in Bps
  BY TableIs
<1> QED
  BY <1>1, <1>2, <1>3, TableIs

\* The empty table is one.
LEMMA TableEmpty ==
    NoBreakpoints \in Tables /\ DOMAIN NoBreakpoints = {}
<1>1. DOMAIN NoBreakpoints = {}
  BY DEF NoBreakpoints
<1>2. NoBreakpoints = [m \in DOMAIN NoBreakpoints |-> NoBreakpoints[m]]
  BY DEF NoBreakpoints
<1> QED
  BY <1>1, <1>2, TableIs

\* What a table holds has a number and is a breakpoint.
LEMMA TableBp ==
    ASSUME NEW t \in Tables, NEW n \in DOMAIN t
    PROVE  n \in Nat /\ t[n] \in Bps
BY TableIs

\* A breakpoint as the server or a user makes it is one.
LEMMA BreakpointType ==
    ASSUME NEW place \in {"line", "library", "address", "name", "main"}, NEW temporary \in BOOLEAN,
           NEW tag \in Nat, NEW by \in {"user", "runTo", "gdb", "typed"}, NEW at \in Nat
    PROVE  Breakpoint(place, temporary, tag, by, at) \in Bps
BY DEF Breakpoint, Bps, Waiting

\* The breakpoint a record about the process carries is one.
LEMMA NoBreakpointType == NoBreakpoint \in Bps
BY DEF NoBreakpoint, Breakpoint, Bps, Waiting

\* What may differ between two reports of one breakpoint is left out.
Alike(a, b) ==
    /\ a.place = b.place
    /\ a.temporary = b.temporary
    /\ a.tag = b.tag
    /\ a.by = b.by
    /\ a.at = b.at

\* What gdb makes of a breakpoint when it resolves it: the same one, perhaps no
\* longer pending; a name stays so.
LEMMA ResolvedIs ==
    ASSUME NEW g \in Gdbs, NEW bp \in Bps
    PROVE  /\ Resolved(g, bp) \in Bps
           /\ Alike(Resolved(g, bp), bp)
           /\ Resolved(g, bp).enabled = bp.enabled
           /\ bp.place = "name" => Resolved(g, bp).pending
           /\ Resolved(g, bp).pending => bp.place \in Waiting
BY DEF Resolved, Waiting, Bps, Gdbs, Alike

-----------------------------------------------------------------------------
(* Records and the tables they tell of.                                    *)

Kinds == ToldKinds \cup {"running", "stopped", "ended", "exited"}

\* All of gdb but its table and the next number.
SameStatus(g, h) ==
    /\ g.up = h.up
    /\ g.process = h.process
    /\ g.loaded = h.loaded
    /\ g.library = h.library
    /\ g.entry = h.entry
    /\ g.late = h.late
    /\ g.stops = h.stops
    /\ g.resumes = h.resumes
    /\ g.began = h.began
    /\ g.deaths = h.deaths
    /\ g.overtaken = h.overtaken
    /\ g.inherited = h.inherited

\* Another table or another next number leaves the rest of gdb.
LEMMA TablePut ==
    ASSUME NEW g \in Gdbs, NEW t \in Tables, NEW k \in Nat
    PROVE  /\ [g EXCEPT !.table = t, !.next = k] \in Gdbs
           /\ [g EXCEPT !.table = t, !.next = k].table = t
           /\ [g EXCEPT !.table = t, !.next = k].next = k
           /\ SameStatus([g EXCEPT !.table = t, !.next = k], g)
           /\ [g EXCEPT !.table = t] \in Gdbs
           /\ [g EXCEPT !.table = t].table = t
           /\ [g EXCEPT !.table = t].next = g.next
           /\ SameStatus([g EXCEPT !.table = t], g)
<1>1. /\ [g EXCEPT !.table = t, !.next = k] \in Gdbs
      /\ [g EXCEPT !.table = t] \in Gdbs
  BY DEF Gdbs
<1>2. /\ [g EXCEPT !.table = t, !.next = k].table = t
      /\ [g EXCEPT !.table = t, !.next = k].next = k
      /\ [g EXCEPT !.table = t].table = t
      /\ [g EXCEPT !.table = t].next = g.next
  BY DEF Gdbs
<1>3. SameStatus([g EXCEPT !.table = t, !.next = k], g)
  BY DEF Gdbs, SameStatus
<1>4. SameStatus([g EXCEPT !.table = t], g)
  BY DEF Gdbs, SameStatus
<1> QED
  BY <1>1, <1>2, <1>3, <1>4

\* A record has the fields it was given.
LEMMA RecordType ==
    ASSUME NEW kind \in Kinds, NEW n \in Nat, NEW bp \in Bps
    PROVE  /\ Record(kind, n, bp) \in Records
           /\ Record(kind, n, bp).kind = kind
           /\ Record(kind, n, bp).n = n
           /\ Record(kind, n, bp).bp = bp
BY DEF Record, Records, Kinds

\* Telling the actor of a breakpoint appends a record and changes nothing else.
LEMMA ToldIs ==
    ASSUME NEW w \in AllWorlds, NEW kind \in Kinds, NEW n \in Nat, NEW bp \in Bps
    PROVE  /\ Told(w, kind, n, bp) \in AllWorlds
           /\ Told(w, kind, n, bp).st = w.st
           /\ Told(w, kind, n, bp).gdb = w.gdb
           /\ Told(w, kind, n, bp).intake = Append(w.intake, Record(kind, n, bp))
           /\ Told(w, kind, n, bp).wanted = w.wanted
           /\ Told(w, kind, n, bp).adrift = w.adrift
<1>1. Append(w.intake, Record(kind, n, bp)) \in Seq(Records)
  BY RecordType, AppendProperties DEF AllWorlds
<1> QED
  BY <1>1 DEF Told, AllWorlds

\* Telling the actor of the process appends a record and changes nothing else.
LEMMA SaysIs ==
    ASSUME NEW w \in AllWorlds, NEW kind \in Kinds
    PROVE  /\ Says(w, kind) \in AllWorlds
           /\ Says(w, kind).st = w.st
           /\ Says(w, kind).gdb = w.gdb
           /\ Says(w, kind).intake = Append(w.intake, Record(kind, 0, NoBreakpoint))
           /\ Says(w, kind).wanted = w.wanted
           /\ Says(w, kind).adrift = w.adrift
BY ToldIs, NoBreakpointType DEF Says

\* The number whose mirror no longer follows from what gdb has told.
Lost(w, cmd, n, unheard) ==
    {m \in {n} : ~cmd.typed /\ (unheard \/ Queued(w, n))}

\* What a change of a breakpoint is told: by a record if it was typed at the
\* console, by the reply otherwise, which leaves it adrift if records are queued
\* or nobody hears it.
LEMMA ChangedIs ==
    ASSUME NEW w \in AllWorlds, NEW cmd \in Commands, NEW kind \in Kinds, NEW n \in Nat,
           NEW bp \in Bps, NEW unheard \in BOOLEAN
    PROVE  /\ Changed(w, cmd, kind, n, bp, unheard) \in AllWorlds
           /\ Changed(w, cmd, kind, n, bp, unheard).st = w.st
           /\ Changed(w, cmd, kind, n, bp, unheard).gdb = w.gdb
           /\ Changed(w, cmd, kind, n, bp, unheard).wanted = w.wanted
           /\ Changed(w, cmd, kind, n, bp, unheard).adrift
                = w.adrift \cup Lost(w, cmd, n, unheard)
           /\ cmd.typed => Changed(w, cmd, kind, n, bp, unheard).intake
                                = Append(w.intake, Record(kind, n, bp))
           /\ ~cmd.typed => Changed(w, cmd, kind, n, bp, unheard).intake = w.intake
<1>1. CASE cmd.typed
  <2>1. Lost(w, cmd, n, unheard) = {}
    BY <1>1 DEF Lost
  <2> QED
    BY <1>1, <2>1, ToldIs DEF Changed
<1>2. CASE ~cmd.typed /\ (unheard \/ Queued(w, n))
  <2>1. Lost(w, cmd, n, unheard) = {n}
    BY <1>2 DEF Lost
  <2> QED
    BY <1>2, <2>1 DEF Changed, AllWorlds
<1>3. CASE ~cmd.typed /\ ~(unheard \/ Queued(w, n))
  <2>1. Lost(w, cmd, n, unheard) = {}
    BY <1>3 DEF Lost
  <2> QED
    BY <1>3, <2>1 DEF Changed, AllWorlds
<1> QED
  BY <1>1, <1>2, <1>3

\* What gdb makes of a command to insert.
Made(w, cmd) == Resolved(w.gdb, cmd.bp)

\* The wishes after it.
Wished(w, tag, wish) ==
    w.wanted \cup {u \in {[tag |-> tag, enabled |-> TRUE]} : tag # 0 /\ wish}

\* An insert: one entry more in gdb's table, under the next number.
LEMMA InsertIs ==
    ASSUME NEW w \in AllWorlds, NEW cmd \in Commands, NEW unheard \in BOOLEAN
    PROVE  LET v == Insert(w, cmd, unheard)
               n == w.gdb.next
           IN /\ v \in AllWorlds
              /\ v.st = w.st
              /\ v.gdb.table = With(w.gdb.table, n, Made(w, cmd))
              /\ v.gdb.next = n + 1
              /\ SameStatus(v.gdb, w.gdb)
              /\ v.wanted = Wished(w, Made(w, cmd).tag, cmd.wish)
              /\ v.adrift = w.adrift \cup Lost(w, cmd, n, unheard)
              /\ cmd.typed => v.intake = Append(w.intake, Record("created", n, Made(w, cmd)))
              /\ ~cmd.typed => v.intake = w.intake
<1> DEFINE n == w.gdb.next
           bp == Made(w, cmd)
           t == With(w.gdb.table, n, bp)
           k == n + 1
           more == Wished(w, bp.tag, cmd.wish)
           g == [w.gdb EXCEPT !.table = t, !.next = k]
           placed == [w EXCEPT !.gdb = g, !.wanted = more]
           v == Changed(placed, cmd, "created", n, bp, unheard)
<1>1. n \in Nat /\ bp \in Bps /\ t \in Tables
  <2>1. n \in Nat /\ w.gdb.table \in Tables /\ cmd.bp \in Bps /\ w.gdb \in Gdbs
    BY DEF AllWorlds, Gdbs, Commands
  <2>2. bp \in Bps
    BY <2>1, ResolvedIs DEF Made
  <2> QED
    BY <2>1, <2>2, TableWith
<1>k. k \in Nat
  BY <1>1
<1>2. more \in SUBSET Wishes
  <2>1. w.wanted \in SUBSET Wishes /\ [tag |-> bp.tag, enabled |-> TRUE] \in Wishes
    BY <1>1 DEF AllWorlds, Wishes, Bps
  <2> QED
    BY <2>1 DEF Wished
<1>3. Insert(w, cmd, unheard) = v
  <2>1. more = IF bp.tag # 0 /\ cmd.wish
               THEN w.wanted \cup {[tag |-> bp.tag, enabled |-> TRUE]} ELSE w.wanted
    BY DEF Wished
  <2>2. placed = [w EXCEPT !.gdb.table = t, !.gdb.next = @ + 1, !.wanted = more]
    BY Zenon
  <2> QED
    BY <2>1, <2>2, Zenon DEF Insert, Made
<1> HIDE DEF t, bp, more, k, n
<1>4. w.gdb \in Gdbs
  BY DEF AllWorlds
<1>5. /\ g \in Gdbs
      /\ g.table = t
      /\ g.next = k
      /\ SameStatus(g, w.gdb)
  <2>1. g \in Gdbs
    BY <1>1, <1>4, <1>k, TablePut, Zenon
  <2>2. g.table = t /\ g.next = k
    BY <1>1, <1>4, <1>k DEF Gdbs
  <2>4. SameStatus(g, w.gdb)
    BY <1>1, <1>4, <1>k, TablePut, Zenon
  <2> QED
    BY <2>1, <2>2, <2>4
<1> HIDE DEF g
<1>6. /\ placed \in AllWorlds
      /\ placed.st = w.st /\ placed.intake = w.intake /\ placed.adrift = w.adrift
      /\ placed.wanted = more
      /\ placed.gdb = g
  BY <1>2, <1>5 DEF AllWorlds
<1> HIDE DEF placed
<1>7. Lost(placed, cmd, n, unheard) = Lost(w, cmd, n, unheard)
  BY <1>6 DEF Lost, Queued
<1>8. "created" \in Kinds
  BY DEF Kinds, ToldKinds
<1>9. /\ v \in AllWorlds
      /\ v.st = placed.st
      /\ v.gdb = placed.gdb
      /\ v.wanted = placed.wanted
      /\ v.adrift = placed.adrift \cup Lost(placed, cmd, n, unheard)
      /\ cmd.typed => v.intake = Append(placed.intake, Record("created", n, bp))
      /\ ~cmd.typed => v.intake = placed.intake
  BY <1>1, <1>6, <1>8, ChangedIs
<1> HIDE DEF v
<1> QED
  BY <1>3, <1>5, <1>6, <1>7, <1>9 DEF t, bp, more, k, n

\* A change of gdb's table followed by what is told of it.
LEMMA EditedIs ==
    ASSUME NEW w \in AllWorlds, NEW p \in AllWorlds,
           p.st = w.st, p.intake = w.intake, p.adrift = w.adrift,
           NEW cmd \in Commands, NEW kind \in Kinds, NEW n \in Nat, NEW bp \in Bps,
           NEW unheard \in BOOLEAN
    PROVE  LET v == Changed(p, cmd, kind, n, bp, unheard)
           IN /\ v \in AllWorlds
              /\ v.st = w.st
              /\ v.gdb = p.gdb
              /\ v.wanted = p.wanted
              /\ v.adrift = w.adrift \cup Lost(w, cmd, n, unheard)
              /\ cmd.typed => v.intake = Append(w.intake, Record(kind, n, bp))
              /\ ~cmd.typed => v.intake = w.intake
<1> DEFINE v == Changed(p, cmd, kind, n, bp, unheard)
<1>2. Lost(p, cmd, n, unheard) = Lost(w, cmd, n, unheard)
  BY DEF Lost, Queued
<1>3. /\ v \in AllWorlds
      /\ v.st = p.st
      /\ v.gdb = p.gdb
      /\ v.wanted = p.wanted
      /\ v.adrift = p.adrift \cup Lost(p, cmd, n, unheard)
      /\ cmd.typed => v.intake = Append(p.intake, Record(kind, n, bp))
      /\ ~cmd.typed => v.intake = p.intake
  BY ChangedIs, SMTT(30)
<1> HIDE DEF v
<1> QED
  BY <1>2, <1>3 DEF v

\* A delete: one entry less in gdb's table, and one wish less if a user asked
\* for it.
LEMMA DeleteIs ==
    ASSUME NEW w \in AllWorlds, NEW cmd \in Commands, NEW unheard \in BOOLEAN,
           cmd.n \in DOMAIN w.gdb.table
    PROVE  LET v == Delete(w, cmd, unheard)
               bp == w.gdb.table[cmd.n]
           IN /\ v \in AllWorlds
              /\ v.st = w.st
              /\ v.gdb.table = Without(w.gdb.table, cmd.n)
              /\ v.gdb.next = w.gdb.next
              /\ SameStatus(v.gdb, w.gdb)
              /\ v.wanted = {u \in w.wanted : cmd.wish => u.tag # bp.tag}
              /\ v.adrift = w.adrift \cup Lost(w, cmd, cmd.n, unheard)
              /\ cmd.typed => v.intake = Append(w.intake, Record("deleted", cmd.n, bp))
              /\ ~cmd.typed => v.intake = w.intake
<1> DEFINE n == cmd.n
           bp == w.gdb.table[n]
           t == Without(w.gdb.table, n)
           more == {u \in w.wanted : cmd.wish => u.tag # bp.tag}
           g == [w.gdb EXCEPT !.table = t]
           p == [w EXCEPT !.gdb = g, !.wanted = more]
           v == Changed(p, cmd, "deleted", n, bp, unheard)
<1>1. w.gdb \in Gdbs /\ w.gdb.table \in Tables /\ n \in Nat
  BY DEF AllWorlds, Gdbs, Commands
<1>2. bp \in Bps
  BY <1>1, TableBp
<1>3. t \in Tables
  BY <1>1, TableWithout
<1>4. more \in SUBSET Wishes
  BY DEF AllWorlds
<1>5. Delete(w, cmd, unheard) = v
  <2>1. more = IF cmd.wish THEN {u \in w.wanted : u.tag # bp.tag} ELSE w.wanted
    OBVIOUS
  <2>2. p = [w EXCEPT !.gdb.table = t, !.wanted = more]
    BY Zenon
  <2> QED
    BY <2>1, <2>2, Zenon DEF Delete
<1> HIDE DEF n, bp, t, more
<1>6. g \in Gdbs /\ SameStatus(g, w.gdb)
  BY <1>1, <1>3, TablePut, Zenon
<1>7. g.table = t /\ g.next = w.gdb.next
  BY <1>1, <1>3 DEF Gdbs
<1>8. "deleted" \in Kinds
  BY DEF Kinds, ToldKinds
<1> HIDE DEF g
<1>p. /\ p \in AllWorlds
      /\ p.st = w.st /\ p.intake = w.intake /\ p.adrift = w.adrift
      /\ p.wanted = more
      /\ p.gdb = g
  BY <1>4, <1>6 DEF AllWorlds
<1> HIDE DEF p
<1>9. /\ v \in AllWorlds
      /\ v.st = w.st
      /\ v.gdb = p.gdb
      /\ v.wanted = p.wanted
      /\ v.adrift = w.adrift \cup Lost(w, cmd, n, unheard)
      /\ cmd.typed => v.intake = Append(w.intake, Record("deleted", n, bp))
      /\ ~cmd.typed => v.intake = w.intake
  BY <1>1, <1>2, <1>8, <1>p, EditedIs
<1> HIDE DEF v
<1> QED
  BY <1>5, <1>6, <1>7, <1>9, <1>p DEF n, bp, t, more

\* A breakpoint enabled or disabled.
Turned(bp, on) == [bp EXCEPT !.enabled = on]

\* Enabling changes nothing but that.
LEMMA TurnedIs ==
    ASSUME NEW bp \in Bps, NEW on \in BOOLEAN
    PROVE  /\ Turned(bp, on) \in Bps
           /\ Alike(Turned(bp, on), bp)
           /\ Turned(bp, on).enabled = on
           /\ Turned(bp, on).pending = bp.pending
BY DEF Turned, Bps, Alike

\* The wishes after it.
Switched(w, tag, on, wish) ==
    {IF wish /\ u.tag = tag THEN [u EXCEPT !.enabled = on] ELSE u : u \in w.wanted}

\* An enable or disable: the entry changed, and the wish if a user asked for it.
LEMMA EnableIs ==
    ASSUME NEW w \in AllWorlds, NEW cmd \in Commands, NEW unheard \in BOOLEAN,
           cmd.n \in DOMAIN w.gdb.table
    PROVE  LET v == Enable(w, cmd, unheard)
               bp == Turned(w.gdb.table[cmd.n], cmd.bp.enabled)
           IN /\ v \in AllWorlds
              /\ v.st = w.st
              /\ v.gdb.table = With(w.gdb.table, cmd.n, bp)
              /\ v.gdb.next = w.gdb.next
              /\ SameStatus(v.gdb, w.gdb)
              /\ v.wanted = Switched(w, bp.tag, cmd.bp.enabled, cmd.wish)
              /\ v.adrift = w.adrift \cup Lost(w, cmd, cmd.n, unheard)
              /\ cmd.typed => v.intake = Append(w.intake, Record("modified", cmd.n, bp))
              /\ ~cmd.typed => v.intake = w.intake
<1> DEFINE n == cmd.n
           on == cmd.bp.enabled
           bp == Turned(w.gdb.table[n], on)
           t == With(w.gdb.table, n, bp)
           more == Switched(w, bp.tag, on, cmd.wish)
           g == [w.gdb EXCEPT !.table = t]
           p == [w EXCEPT !.gdb = g, !.wanted = more]
           v == Changed(p, cmd, "modified", n, bp, unheard)
<1>1. w.gdb \in Gdbs /\ w.gdb.table \in Tables /\ n \in Nat /\ on \in BOOLEAN
  BY DEF AllWorlds, Gdbs, Commands, Bps
<1>2. bp \in Bps /\ bp.enabled = on
  <2>1. w.gdb.table[n] \in Bps
    BY <1>1, TableBp
  <2> QED
    BY <1>1, <2>1, TurnedIs
<1>3. t \in Tables
  BY <1>1, <1>2, TableWith
<1>4. more \in SUBSET Wishes
  <2>1. \A u \in w.wanted : u \in Wishes /\ [u EXCEPT !.enabled = on] \in Wishes
    BY <1>1 DEF AllWorlds, Wishes
  <2> QED
    BY <2>1 DEF Switched
<1>5. Enable(w, cmd, unheard) = v
  <2>1. ASSUME cmd.wish
        PROVE  more = {IF u.tag = bp.tag THEN [u EXCEPT !.enabled = bp.enabled] ELSE u :
                          u \in w.wanted}
    BY <1>2, <2>1 DEF Switched
  <2>2. ASSUME ~cmd.wish
        PROVE  more = w.wanted
    BY <2>2 DEF Switched
  <2>3. more = IF cmd.wish
               THEN {IF u.tag = bp.tag THEN [u EXCEPT !.enabled = bp.enabled] ELSE u :
                          u \in w.wanted}
               ELSE w.wanted
    BY <2>1, <2>2
  <2>4. p = [w EXCEPT !.gdb.table = t, !.wanted = more]
    BY Zenon
  <2> HIDE DEF more
  <2> QED
    BY <2>3, <2>4, Zenon DEF Enable, Turned
<1> HIDE DEF n, bp, t, more, on
<1>6. g \in Gdbs /\ SameStatus(g, w.gdb)
  BY <1>1, <1>3, TablePut, Zenon
<1>7. g.table = t /\ g.next = w.gdb.next
  BY <1>1, <1>3 DEF Gdbs
<1>8. "modified" \in Kinds
  BY DEF Kinds, ToldKinds
<1> HIDE DEF g
<1>p. /\ p \in AllWorlds
      /\ p.st = w.st /\ p.intake = w.intake /\ p.adrift = w.adrift
      /\ p.wanted = more
      /\ p.gdb = g
  BY <1>4, <1>6 DEF AllWorlds
<1> HIDE DEF p
<1>9. /\ v \in AllWorlds
      /\ v.st = w.st
      /\ v.gdb = p.gdb
      /\ v.wanted = p.wanted
      /\ v.adrift = w.adrift \cup Lost(w, cmd, n, unheard)
      /\ cmd.typed => v.intake = Append(w.intake, Record("modified", n, bp))
      /\ ~cmd.typed => v.intake = w.intake
  BY <1>1, <1>2, <1>8, <1>p, EditedIs
<1> HIDE DEF v
<1> QED
  BY <1>5, <1>6, <1>7, <1>9, <1>p DEF n, bp, t, more, on

-----------------------------------------------------------------------------
(* The invariant.                                                          *)

Good(bp) ==
    /\ bp.by = "gdb" => bp.place = "main" /\ bp.temporary
    /\ bp.place = "name" => bp.pending
    /\ bp.tag # 0 => ~bp.temporary

GoodRecord(s, rec) ==
    /\ rec.kind \in ToldKinds => rec.n \in 1 .. s.numbers /\ Good(rec.bp)
    /\ rec.kind \notin ToldKinds => rec.n = 0

\* A command as the actor sends them.
Legit(s, cmd) ==
    /\ cmd \in Commands
    /\ cmd.verb \in {"insert", "insertNow"} =>
          /\ cmd.bp.by = "gdb" => cmd.bp.place = "main" /\ cmd.bp.temporary
          /\ cmd.bp.tag # 0 => ~cmd.bp.temporary
    /\ cmd.verb \in {"delete", "enable"} => cmd.n \in 1 .. s.numbers
    /\ cmd.typed /\ cmd.verb \in {"delete", "enable"} => "typed" \in s.kinds
    /\ cmd.typed => cmd.bp.place # "name"

Sized(s, w) ==
    /\ s.numbers \in Nat /\ s.late \in Nat
    /\ w.gdb.next \in 1 .. s.numbers + 1
    /\ \A n \in DOMAIN w.gdb.table : n \in 1 .. w.gdb.next - 1
    /\ \A n \in DOMAIN w.st.mirror : n \in 1 .. s.numbers
    /\ \A n \in w.st.ours : n \in 1 .. w.gdb.next - 1
    /\ \A n \in w.adrift : n \in 1 .. s.numbers
    /\ \A n \in w.gdb.inherited : n \in 1 .. s.numbers

Goods(s, w) ==
    /\ \A n \in DOMAIN w.gdb.table : Good(w.gdb.table[n])
    /\ \A n \in DOMAIN w.st.mirror : Good(w.st.mirror[n])
    /\ \A i \in 1 .. Len(w.intake) : GoodRecord(s, w.intake[i])
    /\ \A n \in DOMAIN w.gdb.table : n \in w.st.ours => w.gdb.table[n].by # "gdb"

Lates(s, w) ==
    /\ \A i \in 1 .. Len(w.gdb.late) : Legit(s, w.gdb.late[i])
    /\ s.late = 0 => w.gdb.late = <<>>

Shape(s, w) == w \in AllWorlds /\ Sized(s, w) /\ Goods(s, w) /\ Lates(s, w)

Tells(rec, table) ==
    /\ rec.kind = "deleted" => rec.n \notin DOMAIN table
    /\ rec.kind # "deleted" => rec.n \in DOMAIN table /\ rec.bp = table[rec.n]

LastAbout(q, i) == \A j \in 1 .. Len(q) : q[j].n = q[i].n => j <= i

Shows(w, n) ==
    /\ n \in DOMAIN w.st.mirror
          <=> n \in DOMAIN w.gdb.table /\ ~Hidden(w, n, w.gdb.table[n])
    /\ n \in DOMAIN w.st.mirror => w.st.mirror[n] = w.gdb.table[n]

AgreesAt(w, n) ==
    /\ \A i \in 1 .. Len(w.intake) :
          w.intake[i].n = n /\ LastAbout(w.intake, i) => Tells(w.intake[i], w.gdb.table)
    /\ ~Queued(w, n) => Shows(w, n)
    /\ n \in DOMAIN w.gdb.table /\ Hidden(w, n, w.gdb.table[n]) => n \notin DOMAIN w.st.mirror

FollowsAt(w, n) ==
    \A i \in 1 .. Len(w.intake) : w.intake[i].n = n =>
        /\ n < w.gdb.next
        /\ n \in DOMAIN w.gdb.table => /\ w.intake[i].kind # "deleted"
                                       /\ Alike(w.intake[i].bp, w.gdb.table[n])

Agree(s, w) == \A n \in 1 .. s.numbers : n \notin w.adrift => AgreesAt(w, n)

Follows(s, w) ==
    \A n \in 1 .. s.numbers : n \notin w.adrift \/ n \notin w.gdb.inherited => FollowsAt(w, n)

Tame(s, w) == "typed" \in s.kinds => w.gdb.inherited = {}

\* What gdb will delete on the server's own account.
Doomed(w) ==
    {n \in Nat : \E i \in 1 .. Len(w.gdb.late) :
                    /\ w.gdb.late[i].verb = "delete"
                    /\ ~w.gdb.late[i].wish
                    /\ w.gdb.late[i].n = n}

NamesAt(s, w, n, bp) ==
    bp.place = "name" =>
        /\ n < w.gdb.next
        /\ n \in DOMAIN w.gdb.table => /\ w.gdb.table[n].place = "name"
                                       /\ w.gdb.table[n].tag = bp.tag

Same(s, w) ==
    Tame(s, w) =>
        /\ \A n \in Doomed(w) : n < w.gdb.next
        /\ \A n \in DOMAIN w.st.mirror : NamesAt(s, w, n, w.st.mirror[n])
        /\ s.late = 0 /\ "typed" \notin s.kinds =>
              \A n \in DOMAIN w.st.mirror :
                  w.st.mirror[n].place = "name" /\ n \in DOMAIN w.gdb.table =>
                      w.st.mirror[n].enabled = w.gdb.table[n].enabled
        /\ \A i \in 1 .. Len(w.intake) :
              w.intake[i].kind \in {"created", "modified"} =>
                  /\ NamesAt(s, w, w.intake[i].n, w.intake[i].bp)
                  /\ w.intake[i].bp.place = "name" => "typed" \in s.kinds

NamesShown(s, w) ==
    s.late = 0 =>
        \A n \in DOMAIN w.gdb.table :
            n \notin w.gdb.inherited /\ w.gdb.table[n].place = "name" =>
                /\ n \in DOMAIN w.st.mirror
                /\ w.st.mirror[n].place = "name"
                /\ w.gdb.table[n].temporary => n \in w.st.ours

Base(s, w) == Shape(s, w) /\ Agree(s, w) /\ Follows(s, w) /\ Same(s, w) /\ NamesShown(s, w)

-----------------------------------------------------------------------------
(* Moves of gdb.                                                           *)

\* Nothing but what new tells changed at n.
Untouched(w, v, new, n) ==
    /\ \A j \in 1 .. Len(new) : new[j].n # n
    /\ n \in DOMAIN v.gdb.table <=> n \in DOMAIN w.gdb.table
    /\ n \in DOMAIN v.gdb.table => v.gdb.table[n] = w.gdb.table[n]

ToldAt(v, new, n) ==
    \E j \in 1 .. Len(new) :
        new[j].n = n /\ LastAbout(new, j) /\ Tells(new[j], v.gdb.table)

MovedTable(s, w, v) ==
    /\ w.gdb.next <= v.gdb.next
    /\ \A n \in DOMAIN v.gdb.table :
          /\ n \in DOMAIN w.gdb.table \/ n \in w.gdb.next .. v.gdb.next - 1
          /\ Good(v.gdb.table[n])
          /\ n \in DOMAIN w.gdb.table =>
                /\ Alike(v.gdb.table[n], w.gdb.table[n])
                /\ s.late = 0 /\ "typed" \notin s.kinds =>
                      v.gdb.table[n].enabled = w.gdb.table[n].enabled
          /\ n \notin DOMAIN w.gdb.table /\ s.late = 0 => v.gdb.table[n].place # "name"

MovedNews(s, w, v, new) ==
    \A j \in 1 .. Len(new) :
        /\ GoodRecord(s, new[j])
        /\ new[j].kind \in ToldKinds =>
              /\ new[j].n < v.gdb.next
              /\ new[j].n \in DOMAIN v.gdb.table =>
                    new[j].kind # "deleted" /\ Alike(new[j].bp, v.gdb.table[new[j].n])
        /\ new[j].kind \in {"created", "modified"} =>
              (new[j].bp.place = "name" => "typed" \in s.kinds)

Moved(s, w, v, new) ==
    /\ v \in AllWorlds
    /\ v.st = w.st
    /\ v.gdb.inherited = w.gdb.inherited
    /\ v.gdb.late = w.gdb.late
    /\ v.gdb.next <= s.numbers + 1
    /\ MovedTable(s, w, v)
    /\ new \in Seq(Records)
    /\ v.intake = w.intake \o new
    /\ MovedNews(s, w, v, new)
    /\ \A n \in w.adrift : n \in v.adrift
    /\ \A n \in v.adrift : n \in 1 .. s.numbers
    /\ \A n \in 1 .. s.numbers : n \notin v.adrift =>
          ToldAt(v, new, n) \/ Untouched(w, v, new, n)

\* The queue after a move.
LEMMA Queue ==
    ASSUME NEW q \in Seq(Records), NEW new \in Seq(Records)
    PROVE  /\ Len(q \o new) = Len(q) + Len(new)
           /\ \A i \in 1 .. Len(q) : i \in 1 .. Len(q \o new) /\ (q \o new)[i] = q[i]
           /\ \A j \in 1 .. Len(new) : /\ Len(q) + j \in 1 .. Len(q \o new)
                                       /\ (q \o new)[Len(q) + j] = new[j]
           /\ \A i \in 1 .. Len(q \o new) :
                 i \in 1 .. Len(q) \/ \E j \in 1 .. Len(new) : i = Len(q) + j
<1>1. Len(q) \in Nat /\ Len(new) \in Nat
  BY LenProperties
<1>2. /\ Len(q \o new) = Len(q) + Len(new)
      /\ \A i \in 1 .. Len(q) + Len(new) :
            (q \o new)[i] = IF i <= Len(q) THEN q[i] ELSE new[i - Len(q)]
  BY ConcatProperties
<1>3. \A i \in 1 .. Len(q) : i \in 1 .. Len(q \o new) /\ (q \o new)[i] = q[i]
  BY <1>1, <1>2
<1>4. ASSUME NEW j \in 1 .. Len(new)
      PROVE  Len(q) + j \in 1 .. Len(q \o new) /\ (q \o new)[Len(q) + j] = new[j]
  <2>1. Len(q) + j \in 1 .. Len(q) + Len(new) /\ ~(Len(q) + j <= Len(q))
        /\ Len(q) + j - Len(q) = j
    BY <1>1
  <2> QED
    BY <1>2, <2>1
<1>5. ASSUME NEW i \in 1 .. Len(q \o new), i \notin 1 .. Len(q)
      PROVE  \E j \in 1 .. Len(new) : i = Len(q) + j
  <2>1. i - Len(q) \in 1 .. Len(new) /\ i = Len(q) + (i - Len(q))
    BY <1>1, <1>2, <1>5
  <2> QED
    BY <2>1
<1> QED
  BY <1>2, <1>3, <1>4, <1>5

\* The same of records only.
LEMMA QueueHolds ==
    ASSUME NEW q \in Seq(Records), NEW new \in Seq(Records)
    PROVE  /\ \A i \in 1 .. Len(q) : i \in 1 .. Len(q \o new) /\ (q \o new)[i] = q[i]
           /\ \A j \in 1 .. Len(new) : \E i \in 1 .. Len(q \o new) : (q \o new)[i] = new[j]
           /\ \A i \in 1 .. Len(q \o new) :
                 \/ i \in 1 .. Len(q) /\ (q \o new)[i] = q[i]
                 \/ \E j \in 1 .. Len(new) : (q \o new)[i] = new[j]
<1>1. ASSUME NEW i \in 1 .. Len(q \o new), i \notin 1 .. Len(q)
      PROVE  \E j \in 1 .. Len(new) : (q \o new)[i] = new[j]
  <2>1. PICK j \in 1 .. Len(new) : i = Len(q) + j
    BY <1>1, Queue
  <2>2. (q \o new)[Len(q) + j] = new[j]
    BY Queue
  <2> QED
    BY <2>1, <2>2
<1>2. ASSUME NEW j \in 1 .. Len(new)
      PROVE  \E i \in 1 .. Len(q \o new) : (q \o new)[i] = new[j]
  BY Queue
<1>3. \A i \in 1 .. Len(q) : i \in 1 .. Len(q \o new) /\ (q \o new)[i] = q[i]
  BY Queue
<1> QED
  BY <1>1, <1>2, <1>3

\* A move of gdb keeps types and bounds.
LEMMA MovedShape ==
    ASSUME NEW s, NEW w, NEW v, NEW new, Shape(s, w), Moved(s, w, v, new)
    PROVE  Shape(s, v)
<1>1. /\ w \in AllWorlds /\ v \in AllWorlds
      /\ v.st = w.st
      /\ v.gdb.inherited = w.gdb.inherited
      /\ v.gdb.late = w.gdb.late
      /\ v.intake = w.intake \o new
      /\ new \in Seq(Records) /\ w.intake \in Seq(Records)
      /\ w.gdb.next \in Nat /\ v.gdb.next \in Nat
  BY DEF Shape, Moved, AllWorlds, Gdbs
<1>2. Sized(s, v)
  <2>1. \A n \in DOMAIN v.gdb.table : n \in 1 .. v.gdb.next - 1
    BY <1>1, SMTT(30) DEF Shape, Sized, Moved, MovedTable
  <2>2. \A n \in v.st.ours : n \in 1 .. v.gdb.next - 1
    BY <1>1 DEF Shape, Sized, Moved, MovedTable
  <2>3. v.gdb.next \in 1 .. s.numbers + 1
    BY <1>1 DEF Shape, Sized, Moved, MovedTable
  <2>4. \A n \in v.adrift : n \in 1 .. s.numbers
    BY DEF Moved
  <2> QED
    BY <1>1, <2>1, <2>2, <2>3, <2>4 DEF Shape, Sized
<1>3. Goods(s, v)
  <2>1. \A n \in DOMAIN v.gdb.table : Good(v.gdb.table[n])
    BY DEF Moved, MovedTable
  <2>2. \A i \in 1 .. Len(v.intake) : GoodRecord(s, v.intake[i])
    <3>1. \A j \in 1 .. Len(new) : GoodRecord(s, new[j])
      BY DEF Moved, MovedNews
    <3>2. \A i \in 1 .. Len(w.intake) : GoodRecord(s, w.intake[i])
      BY DEF Shape, Goods
    <3> QED
      BY <1>1, <3>1, <3>2, QueueHolds
  <2>3. ASSUME NEW n \in DOMAIN v.gdb.table, n \in v.st.ours
        PROVE  v.gdb.table[n].by # "gdb"
    <3>1. n \in 1 .. w.gdb.next - 1
      BY <1>1, <2>3 DEF Shape, Sized
    <3>2. n \in DOMAIN w.gdb.table /\ Alike(v.gdb.table[n], w.gdb.table[n])
      BY <1>1, <2>3, <3>1 DEF Moved, MovedTable
    <3> QED
      BY <1>1, <2>3, <3>2 DEF Shape, Goods, Alike
  <2> QED
    BY <1>1, <2>1, <2>2, <2>3 DEF Shape, Goods
<1>4. Lates(s, v)
  BY <1>1 DEF Shape, Lates
<1> QED
  BY <1>1, <1>2, <1>3, <1>4 DEF Shape

\* After a move of gdb a record still tells of a breakpoint gdb has, or had.
LEMMA MovedFollows ==
    ASSUME NEW s, NEW w, NEW v, NEW new, Shape(s, w), Follows(s, w), Moved(s, w, v, new)
    PROVE  Follows(s, v)
<1>1. /\ v.gdb.inherited = w.gdb.inherited
      /\ v.intake = w.intake \o new
      /\ new \in Seq(Records) /\ w.intake \in Seq(Records)
      /\ w.gdb.next \in Nat /\ v.gdb.next \in Nat /\ s.numbers \in Nat
  BY DEF Shape, Sized, Moved, AllWorlds, Gdbs
<1> SUFFICES ASSUME NEW n \in 1 .. s.numbers, n \notin v.adrift \/ n \notin v.gdb.inherited,
                    NEW i \in 1 .. Len(v.intake), v.intake[i].n = n
             PROVE  /\ n < v.gdb.next
                    /\ n \in DOMAIN v.gdb.table => /\ v.intake[i].kind # "deleted"
                                                   /\ Alike(v.intake[i].bp, v.gdb.table[n])
  BY DEF Follows, FollowsAt
<1>2. FollowsAt(w, n)
  BY <1>1 DEF Moved, Follows
<1>3. CASE i \in 1 .. Len(w.intake)
  <2>1. v.intake[i] = w.intake[i]
    BY <1>1, <1>3, Queue
  <2>2. /\ n < w.gdb.next
        /\ n \in DOMAIN w.gdb.table => /\ w.intake[i].kind # "deleted"
                                       /\ Alike(w.intake[i].bp, w.gdb.table[n])
    BY <1>2, <1>3, <2>1 DEF FollowsAt
  <2>3. n < v.gdb.next
    BY <1>1, <2>2 DEF Moved, MovedTable
  <2>4. ASSUME n \in DOMAIN v.gdb.table
        PROVE  n \in DOMAIN w.gdb.table /\ Alike(v.gdb.table[n], w.gdb.table[n])
    BY <1>1, <2>2, <2>4 DEF Moved, MovedTable
  <2> QED
    BY <2>1, <2>2, <2>3, <2>4 DEF Alike
<1>4. CASE i \notin 1 .. Len(w.intake)
  <2>1. PICK j \in 1 .. Len(new) : v.intake[i] = new[j]
    BY <1>1, <1>4, Queue
  <2>2. GoodRecord(s, new[j]) /\ new[j].n = n
    BY <2>1 DEF Moved, MovedNews
  <2>3. new[j].kind \in ToldKinds
    BY <2>2 DEF GoodRecord
  <2> QED
    BY <2>1, <2>2, <2>3 DEF Moved, MovedNews
<1> QED
  BY <1>3, <1>4

\* After a move of gdb the mirror still agrees, once it has read the records.
LEMMA MovedAgree ==
    ASSUME NEW s, NEW w, NEW v, NEW new, Shape(s, w), Follows(s, w), Agree(s, w),
           Moved(s, w, v, new)
    PROVE  Agree(s, v)
<1>1. /\ v.st = w.st
      /\ v.intake = w.intake \o new
      /\ new \in Seq(Records) /\ w.intake \in Seq(Records) /\ v.intake \in Seq(Records)
      /\ w.gdb.next \in Nat /\ v.gdb.next \in Nat /\ s.numbers \in Nat
  BY DEF Shape, Sized, Moved, AllWorlds, Gdbs
<1>q. new \in Seq(Records) /\ w.intake \in Seq(Records) /\ v.intake = w.intake \o new
  BY <1>1
<1> SUFFICES ASSUME NEW n \in 1 .. s.numbers, n \notin v.adrift
             PROVE  AgreesAt(v, n)
  BY DEF Agree
<1>2. n \notin w.adrift /\ AgreesAt(w, n) /\ FollowsAt(w, n)
  BY DEF Moved, Agree, Follows
<1>3. ToldAt(v, new, n) \/ Untouched(w, v, new, n)
  BY DEF Moved
<1>4. ASSUME NEW i \in 1 .. Len(v.intake), v.intake[i].n = n, LastAbout(v.intake, i)
      PROVE  Tells(v.intake[i], v.gdb.table)
  <2>1. CASE i \in 1 .. Len(w.intake)
    <3>1. v.intake[i] = w.intake[i]
      BY <1>1, <2>1, Queue
    <3>2. ASSUME NEW j \in 1 .. Len(new), new[j].n = n
          PROVE  FALSE
      <4>1. Len(w.intake) + j \in 1 .. Len(v.intake) /\ v.intake[Len(w.intake) + j] = new[j]
        BY <1>1, Queue
      <4>2. Len(w.intake) + j <= i
        BY <1>4, <3>2, <4>1 DEF LastAbout
      <4>3. Len(w.intake) \in Nat
        BY <1>1, LenProperties
      <4> QED
        BY <2>1, <4>2, <4>3
    <3>3. Untouched(w, v, new, n)
      BY <1>3, <3>2 DEF ToldAt
    <3>4. LastAbout(w.intake, i)
      <4>1. \A j \in 1 .. Len(w.intake) :
               j \in 1 .. Len(v.intake) /\ v.intake[j] = w.intake[j]
        BY <1>1, Queue
      <4> QED
        BY <1>4, <3>1, <4>1 DEF LastAbout
    <3>5. Tells(w.intake[i], w.gdb.table)
      BY <1>2, <1>4, <2>1, <3>1, <3>4 DEF AgreesAt
    <3> QED
      BY <1>4, <3>1, <3>3, <3>5 DEF Tells, Untouched
  <2>2. CASE i \notin 1 .. Len(w.intake)
    <3>0. PICK j \in 1 .. Len(new) : i = Len(w.intake) + j
      <4>1. i \in 1 .. Len(w.intake \o new)
        BY <1>q
      <4> QED
        BY <1>q, <2>2, <4>1, Queue
    <3>1. i = Len(w.intake) + j /\ v.intake[i] = new[j]
      <4>1. (w.intake \o new)[Len(w.intake) + j] = new[j]
        BY <1>q, Queue
      <4> QED
        BY <1>q, <3>0, <4>1
    <3>2. PICK k \in 1 .. Len(new) : /\ new[k].n = n
                                     /\ LastAbout(new, k)
                                     /\ Tells(new[k], v.gdb.table)
      BY <1>3, <1>4, <3>1 DEF ToldAt, Untouched
    <3>3. j <= k
      BY <1>4, <3>1, <3>2 DEF LastAbout
    <3>4. Len(w.intake) + k \in 1 .. Len(v.intake) /\ v.intake[Len(w.intake) + k] = new[k]
      BY <1>1, Queue
    <3>5. Len(w.intake) + k <= Len(w.intake) + j
      BY <1>4, <3>1, <3>2, <3>4 DEF LastAbout
    <3>6. j = k
      <4>1. Len(w.intake) \in Nat
        BY <1>1, LenProperties
      <4> QED
        BY <3>3, <3>5, <4>1
    <3> QED
      BY <3>1, <3>2, <3>6
  <2> QED
    BY <2>1, <2>2
<1>5. ASSUME ~Queued(v, n)
      PROVE  Shows(v, n)
  <2>1. \A i \in 1 .. Len(v.intake) : v.intake[i].n # n
    <3>1. DOMAIN v.intake = 1 .. Len(v.intake)
      BY <1>1, LenProperties
    <3> QED
      BY <1>5, <3>1 DEF Queued
  <2>2. ASSUME NEW j \in 1 .. Len(new)
        PROVE  new[j].n # n
    <3>1. Len(w.intake) + j \in 1 .. Len(v.intake) /\ v.intake[Len(w.intake) + j] = new[j]
      BY <1>q, Queue
    <3> QED
      BY <2>1, <3>1
  <2>3. Untouched(w, v, new, n)
    BY <1>3, <2>2 DEF ToldAt
  <2>4. ~Queued(w, n)
    <3>1. DOMAIN w.intake = 1 .. Len(w.intake)
      BY <1>1, LenProperties
    <3>2. \A i \in 1 .. Len(w.intake) : w.intake[i].n # n
      BY <1>1, <2>1, Queue
    <3> QED
      BY <3>1, <3>2 DEF Queued
  <2>5. Shows(w, n)
    BY <1>2, <2>4 DEF AgreesAt
  <2> QED
    BY <1>1, <2>3, <2>5 DEF Shows, Untouched, Hidden
<1>6. ASSUME n \in DOMAIN v.gdb.table, Hidden(v, n, v.gdb.table[n])
      PROVE  n \notin DOMAIN v.st.mirror
  <2>1. CASE n \in DOMAIN w.gdb.table
    <3>1. Alike(v.gdb.table[n], w.gdb.table[n])
      BY <1>6, <2>1 DEF Moved, MovedTable
    <3>2. Hidden(w, n, w.gdb.table[n])
      BY <1>1, <1>6, <3>1 DEF Hidden, Alike
    <3> QED
      BY <1>1, <1>2, <2>1, <3>2 DEF AgreesAt
  <2>2. CASE n \notin DOMAIN w.gdb.table
    <3>1. ~(n < w.gdb.next)
      BY <1>1, <1>6, <2>2 DEF Moved, MovedTable
    <3>2. ~Queued(w, n)
      <4>1. DOMAIN w.intake = 1 .. Len(w.intake)
        BY <1>1, LenProperties
      <4> QED
        BY <1>2, <3>1, <4>1 DEF Queued, FollowsAt
    <3> QED
      BY <1>1, <1>2, <2>2, <3>2 DEF AgreesAt, Shows
  <2> QED
    BY <2>1, <2>2
<1> QED
  BY <1>4, <1>5, <1>6 DEF AgreesAt

\* A move of gdb leaves names where the mirror has them.
LEMMA MovedSame ==
    ASSUME NEW s, NEW w, NEW v, NEW new, Shape(s, w), Same(s, w), Moved(s, w, v, new)
    PROVE  Same(s, v)
<1>1. /\ v.st = w.st
      /\ v.gdb.inherited = w.gdb.inherited
      /\ v.gdb.late = w.gdb.late
      /\ v.intake = w.intake \o new
      /\ new \in Seq(Records) /\ w.intake \in Seq(Records)
      /\ w.gdb.next \in Nat /\ v.gdb.next \in Nat /\ w.gdb.next <= v.gdb.next
  BY DEF Shape, Moved, MovedTable, AllWorlds, Gdbs
<1>q. new \in Seq(Records) /\ w.intake \in Seq(Records) /\ v.intake = w.intake \o new
  BY <1>1
<1> SUFFICES ASSUME Tame(s, v)
             PROVE  Same(s, v)
  BY DEF Same
<1>2. Tame(s, w)
  BY <1>1 DEF Tame
<1>3. \A n \in Doomed(v) : n < v.gdb.next
  <2>1. Doomed(v) = Doomed(w)
    BY <1>1 DEF Doomed
  <2>2. \A n \in Doomed(w) : n \in Nat /\ n < w.gdb.next
    BY <1>2 DEF Same, Doomed
  <2> QED
    BY <1>1, <2>1, <2>2
<1>4. ASSUME NEW n \in Nat, NEW bp, NamesAt(s, w, n, bp)
      PROVE  NamesAt(s, v, n, bp)
  <2> SUFFICES ASSUME bp.place = "name"
               PROVE  /\ n < v.gdb.next
                      /\ n \in DOMAIN v.gdb.table => /\ v.gdb.table[n].place = "name"
                                                     /\ v.gdb.table[n].tag = bp.tag
    BY DEF NamesAt
  <2>1. n < w.gdb.next
    BY <1>4 DEF NamesAt
  <2>2. n < v.gdb.next
    BY <1>1, <2>1
  <2>3. ASSUME n \in DOMAIN v.gdb.table
        PROVE  n \in DOMAIN w.gdb.table /\ Alike(v.gdb.table[n], w.gdb.table[n])
    BY <1>1, <2>1, <2>3 DEF Moved, MovedTable
  <2> QED
    BY <1>4, <2>2, <2>3 DEF NamesAt, Alike
<1>5. \A n \in DOMAIN v.st.mirror : NamesAt(s, v, n, v.st.mirror[n])
  <2>1. \A n \in DOMAIN w.st.mirror : n \in Nat /\ NamesAt(s, w, n, w.st.mirror[n])
    BY <1>2 DEF Same, Shape, Sized
  <2> QED
    BY <1>1, <1>4, <2>1
<1>6. ASSUME s.late = 0, "typed" \notin s.kinds,
             NEW n \in DOMAIN v.st.mirror, v.st.mirror[n].place = "name",
             n \in DOMAIN v.gdb.table
      PROVE  v.st.mirror[n].enabled = v.gdb.table[n].enabled
  <2>1. n < w.gdb.next /\ n \in Nat
    BY <1>1, <1>2, <1>6 DEF Same, NamesAt, Shape, Sized
  <2>2. n \in DOMAIN w.gdb.table /\ v.gdb.table[n].enabled = w.gdb.table[n].enabled
    BY <1>1, <1>6, <2>1 DEF Moved, MovedTable
  <2> QED
    BY <1>1, <1>2, <1>6, <2>2 DEF Same
<1>7. ASSUME NEW i \in 1 .. Len(v.intake), v.intake[i].kind \in {"created", "modified"}
      PROVE  /\ NamesAt(s, v, v.intake[i].n, v.intake[i].bp)
             /\ v.intake[i].bp.place = "name" => "typed" \in s.kinds
  <2>1. CASE i \in 1 .. Len(w.intake)
    <3>1. v.intake[i] = w.intake[i]
      BY <1>1, <2>1, QueueHolds
    <3>2. w.intake[i].n \in Nat
      <4>1. w.intake[i] \in Records
        BY <1>1, <2>1, ElementOfSeq
      <4> QED
        BY <4>1 DEF Records
    <3> QED
      BY <1>2, <1>4, <1>7, <2>1, <3>1, <3>2 DEF Same
  <2>2. CASE i \notin 1 .. Len(w.intake)
    <3>0. PICK j \in 1 .. Len(new) : i = Len(w.intake) + j
      BY <1>q, <2>2, Queue
    <3>1. v.intake[i] = new[j]
      <4>1. (w.intake \o new)[Len(w.intake) + j] = new[j]
        BY <1>q, Queue
      <4> QED
        BY <1>q, <3>0, <4>1
    <3>2. new[j].kind \in ToldKinds
      BY <1>7, <3>1 DEF ToldKinds
    <3>3. /\ new[j].n < v.gdb.next
          /\ new[j].n \in DOMAIN v.gdb.table => Alike(new[j].bp, v.gdb.table[new[j].n])
          /\ new[j].bp.place = "name" => "typed" \in s.kinds
      BY <1>7, <3>1, <3>2 DEF Moved, MovedNews
    <3> QED
      BY <3>1, <3>3 DEF NamesAt, Alike
  <2> QED
    BY <2>1, <2>2
<1> QED
  BY <1>3, <1>5, <1>6, <1>7 DEF Same

\* A move of gdb makes no breakpoint on a name unheard of.
LEMMA MovedNames ==
    ASSUME NEW s, NEW w, NEW v, NEW new, Shape(s, w), NamesShown(s, w), Moved(s, w, v, new)
    PROVE  NamesShown(s, v)
<1> SUFFICES ASSUME s.late = 0, NEW n \in DOMAIN v.gdb.table,
                    n \notin v.gdb.inherited, v.gdb.table[n].place = "name"
             PROVE  /\ n \in DOMAIN v.st.mirror
                    /\ v.st.mirror[n].place = "name"
                    /\ v.gdb.table[n].temporary => n \in v.st.ours
  BY DEF NamesShown
<1>1. v.st = w.st /\ v.gdb.inherited = w.gdb.inherited
  BY DEF Moved
<1>2. n \in DOMAIN w.gdb.table /\ Alike(v.gdb.table[n], w.gdb.table[n])
  BY DEF Moved, MovedTable
<1> QED
  BY <1>1, <1>2 DEF NamesShown, Alike

\* A move of gdb keeps the invariant of the mirror.
LEMMA MovedBase ==
    ASSUME NEW s, NEW w, NEW v, NEW new, Base(s, w), Moved(s, w, v, new)
    PROVE  Base(s, v)
BY MovedShape, MovedFollows, MovedAgree, MovedSame, MovedNames DEF Base

\* Nothing of gdb's breakpoints changed at n.
SameAt(w, v, n) ==
    /\ n \in DOMAIN v.gdb.table <=> n \in DOMAIN w.gdb.table
    /\ n \in DOMAIN v.gdb.table => v.gdb.table[n] = w.gdb.table[n]

\* What the moves leave alone.
Kin(w, v) ==
    /\ v.st = w.st
    /\ v.gdb.inherited = w.gdb.inherited
    /\ v.gdb.late = w.gdb.late

\* A record appended is a sequence of one appended.
LEMMA OneRecord ==
    ASSUME NEW rec \in Records, NEW q \in Seq(Records)
    PROVE  /\ <<rec>> \in Seq(Records)
           /\ Append(q, rec) = q \o <<rec>>
           /\ Len(<<rec>>) = 1
           /\ 1 \in 1 .. Len(<<rec>>)
           /\ \A j \in 1 .. Len(<<rec>>) : <<rec>>[j] = rec
           /\ LastAbout(<<rec>>, 1)
<1>1. <<rec>> \in Seq(Records) /\ Len(<<rec>>) = 1
  OBVIOUS
<1>2. \A j \in 1 .. 1 : j = 1
  OBVIOUS
<1>3. <<rec>>[1] = rec
  OBVIOUS
<1>4. Append(q, rec) = q \o <<rec>>
  BY AppendIsConcat
<1>5. LastAbout(<<rec>>, 1)
  BY <1>1 DEF LastAbout
<1> QED
  BY <1>1, <1>2, <1>3, <1>4, <1>5

\* Nothing appended is the empty sequence appended.
LEMMA NoRecord ==
    ASSUME NEW q \in Seq(Records)
    PROVE  /\ <<>> \in Seq(Records)
           /\ q = q \o <<>>
           /\ \A j : j \notin 1 .. Len(<<>>)
<1>1. q = q \o <<>>
  BY ConcatEmptySeq
<1> QED
  BY <1>1

\* A step of gdb's that it tells of is a move.
LEMMA ToldMoves ==
    ASSUME NEW s, NEW w, NEW v, NEW rec \in Records, Shape(s, w),
           v \in AllWorlds, Kin(w, v),
           v.gdb.next <= s.numbers + 1,
           MovedTable(s, w, v),
           v.intake = Append(w.intake, rec),
           GoodRecord(s, rec),
           rec.kind \in ToldKinds => rec.n < v.gdb.next /\ Tells(rec, v.gdb.table),
           rec.kind \in {"created", "modified"} => (rec.bp.place = "name" => "typed" \in s.kinds),
           v.adrift = w.adrift,
           \A n \in 1 .. s.numbers :
              rec.kind \notin ToldKinds \/ n # rec.n => SameAt(w, v, n)
    PROVE  Moved(s, w, v, <<rec>>)
<1>1. w.intake \in Seq(Records)
  BY DEF Shape, AllWorlds
<1>2. /\ <<rec>> \in Seq(Records)
      /\ v.intake = w.intake \o <<rec>>
      /\ 1 \in 1 .. Len(<<rec>>)
      /\ \A j \in 1 .. Len(<<rec>>) : <<rec>>[j] = rec
      /\ LastAbout(<<rec>>, 1)
  BY <1>1, OneRecord
<1> DEFINE new == <<rec>>
<1>3. /\ new \in Seq(Records)
      /\ v.intake = w.intake \o new
      /\ 1 \in 1 .. Len(new)
      /\ \A j \in 1 .. Len(new) : new[j] = rec
      /\ LastAbout(new, 1)
  BY <1>2
<1> HIDE DEF new
<1>4. MovedNews(s, w, v, new)
  <2>1. rec.kind \in ToldKinds /\ rec.n \in DOMAIN v.gdb.table =>
           rec.kind # "deleted" /\ Alike(rec.bp, v.gdb.table[rec.n])
    BY DEF Tells, Alike
  <2> QED
    BY <1>3, <2>1 DEF MovedNews
<1>5. ASSUME NEW n \in 1 .. s.numbers
      PROVE  ToldAt(v, new, n) \/ Untouched(w, v, new, n)
  <2>1. CASE rec.kind \in ToldKinds /\ n = rec.n
    BY <1>3, <2>1 DEF ToldAt
  <2>2. CASE ~(rec.kind \in ToldKinds /\ n = rec.n)
    <3>1. SameAt(w, v, n)
      BY <2>2
    <3>2. rec.n # n
      <4>1. s.numbers \in Nat
        BY DEF Shape, Sized
      <4>2. n # 0
        BY <4>1
      <4> QED
        BY <2>2, <4>2 DEF GoodRecord
    <3> QED
      BY <1>3, <3>1, <3>2 DEF Untouched, SameAt
  <2> QED
    BY <2>1, <2>2
<1>6. \A n \in v.adrift : n \in 1 .. s.numbers
  BY DEF Shape, Sized
<1>7. Moved(s, w, v, new)
  BY <1>3, <1>4, <1>5, <1>6 DEF Moved, Kin
<1> QED
  BY <1>7 DEF new

\* A step of gdb's that it does not tell of is a move if the numbers it is about
\* are adrift.
LEMMA UntoldMoves ==
    ASSUME NEW s, NEW w, NEW v, Shape(s, w),
           v \in AllWorlds, Kin(w, v),
           v.gdb.next <= s.numbers + 1,
           MovedTable(s, w, v),
           v.intake = w.intake,
           \A n \in w.adrift : n \in v.adrift,
           \A n \in v.adrift : n \in 1 .. s.numbers,
           \A n \in 1 .. s.numbers : n \notin v.adrift => SameAt(w, v, n)
    PROVE  Moved(s, w, v, <<>>)
<1>1. w.intake \in Seq(Records)
  BY DEF Shape, AllWorlds
<1> DEFINE new == <<>>
<1>3. /\ new \in Seq(Records)
      /\ v.intake = w.intake \o new
      /\ \A j : j \notin 1 .. Len(new)
  BY <1>1, NoRecord
<1> HIDE DEF new
<1>4. MovedNews(s, w, v, new)
  BY <1>3 DEF MovedNews
<1>5. \A n \in 1 .. s.numbers : n \notin v.adrift => Untouched(w, v, new, n)
  BY <1>3 DEF Untouched, SameAt
<1>7. Moved(s, w, v, new)
  BY <1>3, <1>4, <1>5 DEF Moved, Kin
<1> QED
  BY <1>7 DEF new

\* A step that leaves the table is a move of the table.
LEMMA SameTableMoves ==
    ASSUME NEW s, NEW w, NEW v, Shape(s, w), v \in AllWorlds,
           v.gdb.table = w.gdb.table, v.gdb.next = w.gdb.next
    PROVE  /\ MovedTable(s, w, v)
           /\ v.gdb.next <= s.numbers + 1
           /\ \A n : SameAt(w, v, n)
<1>1. \A n \in DOMAIN v.gdb.table : n \in DOMAIN w.gdb.table /\ Good(w.gdb.table[n])
  BY DEF Shape, Goods
<1>2. w.gdb.next <= v.gdb.next /\ v.gdb.next <= s.numbers + 1
  BY DEF Shape, Sized
<1> QED
  BY <1>1, <1>2 DEF MovedTable, SameAt, Alike

\* What gdb says of the program, whatever else changes of its state.
LEMMA SaysBase ==
    ASSUME NEW s, NEW w, NEW v, NEW kind \in Kinds \ ToldKinds, Base(s, w),
           v \in AllWorlds, Kin(w, v), v.adrift = w.adrift,
           v.gdb.table = w.gdb.table, v.gdb.next = w.gdb.next,
           v.intake = Append(w.intake, Record(kind, 0, NoBreakpoint))
    PROVE  Base(s, v)
<1> DEFINE rec == Record(kind, 0, NoBreakpoint)
<1>1. rec \in Records /\ rec.kind = kind /\ rec.n = 0
  BY RecordType, NoBreakpointType
<1> HIDE DEF rec
<1>2. Shape(s, w)
  BY DEF Base
<1>3. MovedTable(s, w, v) /\ v.gdb.next <= s.numbers + 1 /\ \A n : SameAt(w, v, n)
  BY <1>2, SameTableMoves
<1>4. GoodRecord(s, rec) /\ rec.kind \notin ToldKinds
  BY <1>1 DEF GoodRecord
<1>5. rec.kind \notin {"created", "modified"}
  BY <1>4 DEF ToldKinds
<1>6. v.intake = Append(w.intake, rec)
  BY DEF rec
<1>7. Moved(s, w, v, <<rec>>)
  BY <1>1, <1>2, <1>3, <1>4, <1>5, <1>6, ToldMoves
<1> QED
  BY <1>7, MovedBase

\* A change of gdb's state that tells nothing and leaves its breakpoints.
LEMMA SilentBase ==
    ASSUME NEW s, NEW w, NEW v, Base(s, w),
           v \in AllWorlds, Kin(w, v), v.adrift = w.adrift,
           v.gdb.table = w.gdb.table, v.gdb.next = w.gdb.next,
           v.intake = w.intake
    PROVE  Base(s, v)
<1>2. Shape(s, w)
  BY DEF Base
<1>3. MovedTable(s, w, v) /\ v.gdb.next <= s.numbers + 1 /\ \A n : SameAt(w, v, n)
  BY <1>2, SameTableMoves
<1>4. \A n \in v.adrift : n \in 1 .. s.numbers
  BY <1>2 DEF Shape, Sized
<1>7. Moved(s, w, v, <<>>)
  BY <1>2, <1>3, <1>4, UntoldMoves
<1> QED
  BY <1>7, MovedBase

\* A command told by a record, or executed unheard.
Apart(s, cmd, unheard) ==
    /\ unheard \in BOOLEAN
    /\ Legit(s, cmd)
    /\ cmd.typed \/ unheard
    /\ unheard => s.late # 0

\* A change of a breakpoint and what is told of it keep the invariant.
LEMMA TypedMoves ==
    ASSUME NEW s, NEW w, NEW v, NEW kind \in ToldKinds, NEW n \in 1 .. s.numbers, NEW bp \in Bps,
           NEW cmd, NEW unheard, Apart(s, cmd, unheard),
           Base(s, w), v \in AllWorlds, v.st = w.st, SameStatus(v.gdb, w.gdb),
           v.gdb.next <= s.numbers + 1, n < v.gdb.next,
           MovedTable(s, w, v),
           Good(bp), Tells(Record(kind, n, bp), v.gdb.table),
           cmd.typed /\ bp.place = "name" => "typed" \in s.kinds,
           v.adrift = w.adrift \cup Lost(w, cmd, n, unheard),
           cmd.typed => v.intake = Append(w.intake, Record(kind, n, bp)),
           ~cmd.typed => v.intake = w.intake,
           \A m \in 1 .. s.numbers : m # n => SameAt(w, v, m)
    PROVE  Base(s, v)
<1> DEFINE rec == Record(kind, n, bp)
<1>1. s.numbers \in Nat /\ Shape(s, w)
  BY DEF Base, Shape, Sized
<1>2. n \in Nat /\ kind \in Kinds
  BY <1>1 DEF Kinds
<1>3. rec \in Records /\ rec.kind = kind /\ rec.n = n /\ rec.bp = bp
  BY <1>2, RecordType
<1>4. Kin(w, v)
  BY DEF Kin, SameStatus
<1>5. CASE cmd.typed
  <2>1. v.adrift = w.adrift
    BY <1>5 DEF Lost
  <2>2. v.intake = Append(w.intake, rec) /\ Tells(rec, v.gdb.table)
    BY <1>5
  <2> HIDE DEF rec
  <2>3. GoodRecord(s, rec)
    BY <1>3 DEF GoodRecord
  <2>4. Moved(s, w, v, <<rec>>)
    BY <1>1, <1>3, <1>4, <1>5, <2>1, <2>2, <2>3, ToldMoves
  <2> QED
    BY <2>4, MovedBase
<1>6. CASE ~cmd.typed
  <2>1. v.adrift = w.adrift \cup {n}
    BY <1>6 DEF Lost, Apart
  <2>2. \A m \in v.adrift : m \in 1 .. s.numbers
    BY <1>1, <2>1 DEF Shape, Sized
  <2>3. \A m \in 1 .. s.numbers : m \notin v.adrift => SameAt(w, v, m)
    BY <2>1
  <2>4. \A m \in w.adrift : m \in v.adrift
    BY <2>1
  <2>5. Moved(s, w, v, <<>>)
    BY <1>1, <1>4, <1>6, <2>2, <2>3, <2>4, UntoldMoves
  <2> QED
    BY <2>5, MovedBase
<1> QED
  BY <1>5, <1>6

\* What gdb makes of an insert is the breakpoint it was given.
LEMMA MadeIs ==
    ASSUME NEW w \in AllWorlds, NEW cmd \in Commands
    PROVE  /\ Made(w, cmd) \in Bps
           /\ Alike(Made(w, cmd), cmd.bp)
           /\ Made(w, cmd).enabled = cmd.bp.enabled
           /\ Made(w, cmd).place = "name" => Made(w, cmd).pending
           /\ Made(w, cmd).pending => Made(w, cmd).place \in Waiting
<1>1. w.gdb \in Gdbs /\ cmd.bp \in Bps
  BY DEF AllWorlds, Commands
<1> DEFINE g == w.gdb
           bp == cmd.bp
<1> HIDE DEF g, bp
<1>2. g \in Gdbs /\ bp \in Bps
  BY <1>1 DEF g, bp
<1>3. /\ Resolved(g, bp) \in Bps
      /\ Alike(Resolved(g, bp), bp)
      /\ Resolved(g, bp).enabled = bp.enabled
      /\ bp.place = "name" => Resolved(g, bp).pending
      /\ Resolved(g, bp).pending => bp.place \in Waiting
  BY <1>2, ResolvedIs
<1>4. Made(w, cmd) = Resolved(g, bp)
  BY Zenon DEF Made, g, bp
<1> QED
  BY <1>3, <1>4 DEF Alike, bp

\* An insert whose reply the actor does not use keeps the invariant.
LEMMA InsertApart ==
    ASSUME NEW s, NEW w, NEW cmd, NEW unheard, Base(s, w), Apart(s, cmd, unheard),
           cmd.verb \in {"insert", "insertNow"}, w.gdb.next <= s.numbers
    PROVE  Base(s, Insert(w, cmd, unheard))
<1> DEFINE v == Insert(w, cmd, unheard)
           n == w.gdb.next
           bp == Made(w, cmd)
<1>1. /\ w \in AllWorlds /\ w.gdb \in Gdbs /\ cmd \in Commands /\ cmd.bp \in Bps
      /\ unheard \in BOOLEAN /\ w.gdb.table \in Tables
  BY DEF Base, Shape, AllWorlds, Apart, Legit, Commands, Gdbs
<1>2. /\ v \in AllWorlds
      /\ v.st = w.st
      /\ v.gdb.table = With(w.gdb.table, n, bp)
      /\ v.gdb.next = n + 1
      /\ SameStatus(v.gdb, w.gdb)
      /\ v.adrift = w.adrift \cup Lost(w, cmd, n, unheard)
      /\ cmd.typed => v.intake = Append(w.intake, Record("created", n, bp))
      /\ ~cmd.typed => v.intake = w.intake
  BY <1>1, InsertIs
<1>3. /\ bp \in Bps /\ Alike(bp, cmd.bp)
      /\ bp.place = "name" => bp.pending
  BY <1>1, MadeIs
<1>4. n \in 1 .. s.numbers /\ n \in Nat /\ s.numbers \in Nat
  BY DEF Base, Shape, Sized
<1>5. Good(bp)
  BY <1>3 DEF Good, Alike, Apart, Legit
<1> HIDE DEF v, n, bp
<1>6. /\ DOMAIN v.gdb.table = DOMAIN w.gdb.table \cup {n}
      /\ v.gdb.table[n] = bp
      /\ \A m \in DOMAIN w.gdb.table : m # n => v.gdb.table[m] = w.gdb.table[m]
  <2>1. n \in Nat /\ bp \in Bps /\ w.gdb.table \in Tables
    BY <1>1, <1>3, <1>4
  <2>2. v.gdb.table = With(w.gdb.table, n, bp)
    BY <1>2
  <2> QED
    BY <2>1, <2>2, TableWith, SMTT(30)
<1>7. n \notin DOMAIN w.gdb.table
  BY <1>4 DEF Base, Shape, Sized, n
<1>8. bp.place = "name" => ~cmd.typed /\ s.late # 0
  BY <1>3 DEF Apart, Legit, Alike
<1>9. MovedTable(s, w, v)
  <2>1. w.gdb.next <= v.gdb.next /\ n \in w.gdb.next .. v.gdb.next - 1
    BY <1>2, <1>4 DEF n
  <2>2. \A m \in DOMAIN w.gdb.table : Good(w.gdb.table[m])
    BY DEF Base, Shape, Goods
  <2> QED
    BY <1>5, <1>6, <1>7, <1>8, <2>1, <2>2 DEF MovedTable, Alike
<1>10. n < v.gdb.next /\ v.gdb.next <= s.numbers + 1
  BY <1>2, <1>4
<1>11. Tells(Record("created", n, bp), v.gdb.table)
  BY <1>6 DEF Tells, Record
<1>12. \A m \in 1 .. s.numbers : m # n => SameAt(w, v, m)
  BY <1>6 DEF SameAt
<1>13. "created" \in ToldKinds
  BY DEF ToldKinds
<1>14. Base(s, v)
  BY <1>2, <1>3, <1>4, <1>5, <1>8, <1>9, <1>10, <1>11, <1>12, <1>13, TypedMoves
<1> QED
  BY <1>14 DEF v

\* So does a delete.
LEMMA DeleteApart ==
    ASSUME NEW s, NEW w, NEW cmd, NEW unheard, Base(s, w), Apart(s, cmd, unheard),
           cmd.verb = "delete", cmd.n \in DOMAIN w.gdb.table
    PROVE  Base(s, Delete(w, cmd, unheard))
<1> DEFINE v == Delete(w, cmd, unheard)
           n == cmd.n
           bp == w.gdb.table[n]
<1>1. /\ w \in AllWorlds /\ w.gdb \in Gdbs /\ cmd \in Commands
      /\ unheard \in BOOLEAN /\ w.gdb.table \in Tables
  BY DEF Base, Shape, AllWorlds, Apart, Legit, Gdbs
<1>2. /\ v \in AllWorlds
      /\ v.st = w.st
      /\ v.gdb.table = Without(w.gdb.table, n)
      /\ v.gdb.next = w.gdb.next
      /\ SameStatus(v.gdb, w.gdb)
      /\ v.adrift = w.adrift \cup Lost(w, cmd, n, unheard)
      /\ cmd.typed => v.intake = Append(w.intake, Record("deleted", n, bp))
      /\ ~cmd.typed => v.intake = w.intake
  BY <1>1, DeleteIs
<1> HIDE DEF v
<1>3. n \in Nat /\ bp \in Bps
  BY <1>1, TableBp
<1>4. Good(bp)
  BY DEF Base, Shape, Goods
<1>5. n \in 1 .. s.numbers /\ n < v.gdb.next /\ v.gdb.next <= s.numbers + 1
      /\ w.gdb.next <= v.gdb.next
  BY <1>2 DEF Base, Shape, Sized
<1> HIDE DEF n
<1>6. /\ DOMAIN v.gdb.table = DOMAIN w.gdb.table \ {n}
      /\ \A m \in DOMAIN w.gdb.table \ {n} : v.gdb.table[m] = w.gdb.table[m]
  <2>1. n \in Nat /\ w.gdb.table \in Tables
    BY <1>1, <1>3
  <2>2. /\ DOMAIN Without(w.gdb.table, n) = DOMAIN w.gdb.table \ {n}
        /\ \A m \in DOMAIN w.gdb.table \ {n} :
              Without(w.gdb.table, n)[m] = w.gdb.table[m]
    BY <2>1, TableWithout
  <2> QED
    BY <1>2, <2>2
<1> HIDE DEF bp
<1>9. MovedTable(s, w, v)
  <2>2. \A m \in DOMAIN w.gdb.table : Good(w.gdb.table[m])
    BY DEF Base, Shape, Goods
  <2> QED
    BY <1>5, <1>6, <2>2 DEF MovedTable, Alike
<1>11. Tells(Record("deleted", n, bp), v.gdb.table)
  BY <1>6 DEF Tells, Record
<1>12. \A m \in 1 .. s.numbers : m # n => SameAt(w, v, m)
  BY <1>6 DEF SameAt
<1>13. "deleted" \in ToldKinds /\ (cmd.typed => "typed" \in s.kinds)
  BY DEF ToldKinds, Apart, Legit
<1>14. Base(s, v)
  BY <1>2, <1>3, <1>4, <1>5, <1>9, <1>11, <1>12, <1>13, TypedMoves
<1> QED
  BY <1>14 DEF v

\* So does an enable.
LEMMA EnableApart ==
    ASSUME NEW s, NEW w, NEW cmd, NEW unheard, Base(s, w), Apart(s, cmd, unheard),
           cmd.verb = "enable", cmd.n \in DOMAIN w.gdb.table
    PROVE  Base(s, Enable(w, cmd, unheard))
<1> DEFINE v == Enable(w, cmd, unheard)
           n == cmd.n
           old == w.gdb.table[n]
           bp == Turned(old, cmd.bp.enabled)
<1>1. /\ w \in AllWorlds /\ w.gdb \in Gdbs /\ cmd \in Commands
      /\ unheard \in BOOLEAN /\ w.gdb.table \in Tables /\ cmd.bp.enabled \in BOOLEAN
  BY DEF Base, Shape, AllWorlds, Apart, Legit, Gdbs, Commands, Bps
<1>2. /\ v \in AllWorlds
      /\ v.st = w.st
      /\ v.gdb.table = With(w.gdb.table, n, bp)
      /\ v.gdb.next = w.gdb.next
      /\ SameStatus(v.gdb, w.gdb)
      /\ v.adrift = w.adrift \cup Lost(w, cmd, n, unheard)
      /\ cmd.typed => v.intake = Append(w.intake, Record("modified", n, bp))
      /\ ~cmd.typed => v.intake = w.intake
  BY <1>1, EnableIs
<1> HIDE DEF v
<1>3. n \in Nat /\ old \in Bps
  BY <1>1, TableBp
<1>o. n \in DOMAIN w.gdb.table /\ old = w.gdb.table[n] /\ Good(old)
  BY DEF Base, Shape, Goods
<1>5. n \in 1 .. s.numbers /\ n < v.gdb.next /\ v.gdb.next <= s.numbers + 1
      /\ w.gdb.next <= v.gdb.next
  BY <1>2 DEF Base, Shape, Sized
<1> HIDE DEF n, old
<1>t. /\ bp \in Bps
      /\ Alike(bp, old)
      /\ bp.pending = old.pending
  BY <1>1, <1>3, TurnedIs
<1> HIDE DEF bp
<1>4. Good(bp)
  BY <1>o, <1>t DEF Good, Alike
<1>6. /\ DOMAIN v.gdb.table = DOMAIN w.gdb.table \cup {n}
      /\ v.gdb.table[n] = bp
      /\ \A m \in DOMAIN w.gdb.table : m # n => v.gdb.table[m] = w.gdb.table[m]
  <2>1. n \in Nat /\ w.gdb.table \in Tables /\ bp \in Bps
    BY <1>1, <1>3, <1>t
  <2>2. /\ DOMAIN With(w.gdb.table, n, bp) = DOMAIN w.gdb.table \cup {n}
        /\ With(w.gdb.table, n, bp)[n] = bp
        /\ \A m \in DOMAIN w.gdb.table :
              m # n => With(w.gdb.table, n, bp)[m] = w.gdb.table[m]
    BY <2>1, TableWith, ZenonT(60)
  <2> QED
    BY <1>2, <2>2
<1>7. ~(s.late = 0 /\ "typed" \notin s.kinds)
  BY DEF Apart, Legit
<1>9. MovedTable(s, w, v)
  <2>2. \A m \in DOMAIN w.gdb.table : Good(w.gdb.table[m])
    BY DEF Base, Shape, Goods
  <2> QED
    BY <1>o, <1>t, <1>4, <1>5, <1>6, <1>7, <2>2 DEF MovedTable, Alike
<1>11. Tells(Record("modified", n, bp), v.gdb.table)
  BY <1>6 DEF Tells, Record
<1>12. \A m \in 1 .. s.numbers : m # n => SameAt(w, v, m)
  BY <1>o, <1>6 DEF SameAt
<1>13. "modified" \in ToldKinds /\ (cmd.typed => "typed" \in s.kinds)
  BY DEF ToldKinds, Apart, Legit
<1>14. Base(s, v)
  BY <1>2, <1>t, <1>4, <1>5, <1>9, <1>11, <1>12, <1>13, TypedMoves
<1> QED
  BY <1>14 DEF v

-----------------------------------------------------------------------------
(* What gdb executes.                                                      *)

\* A finite set as a sequence holds its elements, each once.
LEMMA SetToSeqIs ==
    ASSUME NEW S, IsFiniteSet(S)
    PROVE  /\ Len(SetToSeq(S)) \in Nat
           /\ SetToSeq(S) \in [1 .. Len(SetToSeq(S)) -> S]
           /\ \A a \in S : \E i \in 1 .. Len(SetToSeq(S)) : SetToSeq(S)[i] = a
           /\ \A i, j \in 1 .. Len(SetToSeq(S)) : SetToSeq(S)[i] = SetToSeq(S)[j] => i = j
<1> DEFINE k == Cardinality(S)
           q == SetToSeq(S)
<1>1. k \in Nat /\ ExistsBijection(1 .. k, S)
  BY FS_CardinalityType
<1>2. PICK g : g \in Bijection(1 .. k, S)
  BY <1>1 DEF ExistsBijection
<1>3. g \in [1 .. k -> S] /\ IsInjective(g)
  BY <1>2 DEF Bijection, Injection
<1>4. q \in [1 .. k -> S] /\ IsInjective(q)
  BY <1>3, Zenon DEF SetToSeq
<1> HIDE DEF q
<1>5. Len(q) = k
  <2>1. q \in Seq(S)
    BY <1>1, <1>4
  <2>2. DOMAIN q = 1 .. k
    BY <1>4
  <2> QED
    BY <1>1, <2>1, <2>2, LenProperties
<1>6. q \in Surjection(1 .. k, S)
  <2>1. IsFiniteSet(1 .. k) /\ Cardinality(1 .. k) = k
    BY <1>1, FS_Interval
  <2>2. q \in Injection(1 .. k, S)
    BY <1>4 DEF Injection
  <2> QED
    BY <2>1, <2>2, FS_Injection
<1>7. \A a \in S : \E i \in 1 .. k : q[i] = a
  BY <1>4, <1>6 DEF Surjection
<1>8. \A i, j \in 1 .. k : q[i] = q[j] => i = j
  BY <1>4 DEF IsInjective
<1>9. /\ Len(q) \in Nat
      /\ q \in [1 .. Len(q) -> S]
      /\ \A a \in S : \E i \in 1 .. Len(q) : q[i] = a
      /\ \A i, j \in 1 .. Len(q) : q[i] = q[j] => i = j
  BY <1>1, <1>4, <1>5, <1>7, <1>8
<1> QED
  BY <1>9 DEF q

\* The records of the breakpoints a new file changes.
LEMMA NewsAre ==
    ASSUME NEW t \in Tables, NEW S \in SUBSET DOMAIN t, NEW k \in Nat,
           \A n \in DOMAIN t : n \in 1 .. k
    PROVE  LET q == SetToSeq(S)
               new == [i \in 1 .. Len(q) |-> Record("modified", q[i], t[q[i]])]
           IN /\ new \in Seq(Records)
              /\ \A j \in 1 .. Len(new) : /\ new[j].n \in S
                                          /\ new[j].kind = "modified"
                                          /\ new[j].bp = t[new[j].n]
                                          /\ LastAbout(new, j)
              /\ \A n \in S : \E j \in 1 .. Len(new) : new[j].n = n
<1> DEFINE q == SetToSeq(S)
           new == [i \in 1 .. Len(q) |-> Record("modified", q[i], t[q[i]])]
<1>1. IsFiniteSet(S)
  <2>1. IsFiniteSet(1 .. k)
    BY FS_Interval
  <2>2. S \subseteq 1 .. k
    OBVIOUS
  <2> QED
    BY <2>1, <2>2, FS_Subset
<1>2. /\ Len(q) \in Nat
      /\ q \in [1 .. Len(q) -> S]
      /\ \A a \in S : \E i \in 1 .. Len(q) : q[i] = a
      /\ \A i, j \in 1 .. Len(q) : q[i] = q[j] => i = j
  BY <1>1, SetToSeqIs
<1> HIDE DEF q
<1>3. ASSUME NEW i \in 1 .. Len(q)
      PROVE  /\ Record("modified", q[i], t[q[i]]) \in Records
             /\ Record("modified", q[i], t[q[i]]).n = q[i]
             /\ Record("modified", q[i], t[q[i]]).kind = "modified"
             /\ Record("modified", q[i], t[q[i]]).bp = t[q[i]]
             /\ q[i] \in S
  <2>1. q[i] \in S
    BY <1>2
  <2>2. q[i] \in Nat /\ t[q[i]] \in Bps
    BY <2>1, TableBp
  <2>3. "modified" \in Kinds
    BY DEF Kinds, ToldKinds
  <2> QED
    BY <2>1, <2>2, <2>3, RecordType
<1>4. new \in Seq(Records) /\ Len(new) = Len(q)
  <2>1. new \in [1 .. Len(q) -> Records]
    BY <1>3
  <2>2. new \in Seq(Records)
    BY <1>2, <2>1
  <2>3. DOMAIN new = 1 .. Len(q)
    OBVIOUS
  <2> QED
    BY <1>2, <2>2, <2>3, LenProperties
<1>5. \A j \in 1 .. Len(new) : new[j] = Record("modified", q[j], t[q[j]])
  BY <1>4
<1>6. ASSUME NEW j \in 1 .. Len(new)
      PROVE  /\ new[j].n \in S
             /\ new[j].n = q[j]
             /\ new[j].kind = "modified"
             /\ new[j].bp = t[new[j].n]
  BY <1>3, <1>4, <1>5
<1> HIDE DEF new
<1>7. ASSUME NEW j \in 1 .. Len(new)
      PROVE  LastAbout(new, j)
  <2>1. \A i \in 1 .. Len(new) : new[i].n = new[j].n => i = j
    BY <1>2, <1>4, <1>6
  <2> QED
    BY <2>1 DEF LastAbout
<1>8. ASSUME NEW n \in S
      PROVE  \E j \in 1 .. Len(new) : new[j].n = n
  BY <1>2, <1>4, <1>6
<1>9. /\ new \in Seq(Records)
      /\ \A j \in 1 .. Len(new) : /\ new[j].n \in S
                                  /\ new[j].kind = "modified"
                                  /\ new[j].bp = t[new[j].n]
                                  /\ LastAbout(new, j)
      /\ \A n \in S : \E j \in 1 .. Len(new) : new[j].n = n
  BY <1>4, <1>6, <1>7, <1>8
<1> QED
  BY <1>9 DEF new, q

\* A program that was stopped ends when another takes its place.
Ended(w) == IF w.gdb.process = "stopped" THEN Says(w, "ended") ELSE w

\* The end of a process a run or a load replaces is at most a record.
LEMMA EndedIs ==
    ASSUME NEW w \in AllWorlds
    PROVE  /\ Ended(w) \in AllWorlds
           /\ Ended(w).st = w.st
           /\ Ended(w).gdb = w.gdb
           /\ Ended(w).wanted = w.wanted
           /\ Ended(w).adrift = w.adrift
           /\ \/ Ended(w).intake = w.intake
              \/ Ended(w).intake = Append(w.intake, Record("ended", 0, NoBreakpoint))
<1>1. "ended" \in Kinds
  BY DEF Kinds
<1>2. CASE w.gdb.process = "stopped"
  BY <1>1, <1>2, SaysIs DEF Ended
<1>3. CASE w.gdb.process # "stopped"
  BY <1>3 DEF Ended
<1> QED
  BY <1>2, <1>3

\* It keeps the invariant.
LEMMA EndedBase ==
    ASSUME NEW s, NEW w, Base(s, w)
    PROVE  Base(s, Ended(w))
<1>1. w \in AllWorlds
  BY DEF Base, Shape
<1> DEFINE v == Ended(w)
<1>2. /\ v \in AllWorlds
      /\ v.st = w.st
      /\ v.gdb = w.gdb
      /\ v.adrift = w.adrift
      /\ \/ v.intake = w.intake
         \/ v.intake = Append(w.intake, Record("ended", 0, NoBreakpoint))
  BY <1>1, EndedIs
<1> HIDE DEF v
<1>3. Kin(w, v)
  BY <1>2 DEF Kin
<1>4. "ended" \in Kinds \ ToldKinds
  BY DEF Kinds, ToldKinds
<1>5. CASE v.intake = w.intake
  <2>1. Base(s, v)
    BY <1>2, <1>3, <1>5, SilentBase
  <2> QED
    BY <2>1 DEF v
<1>6. CASE v.intake = Append(w.intake, Record("ended", 0, NoBreakpoint))
  <2>1. Base(s, v)
    BY <1>2, <1>3, <1>4, <1>6, SaysBase
  <2> QED
    BY <2>1 DEF v
<1> QED
  BY <1>2, <1>5, <1>6

\* What gdb has loaded after a new file, and after a library.
WithProgram(g) == [g EXCEPT !.loaded = TRUE, !.process = "none"]
WithLibrary(g) == [g EXCEPT !.library = TRUE]

\* A pending name is not resolved: gdb does not know it.
LEMMA ResolvedName ==
    ASSUME NEW bp \in Bps, NEW g, bp.place = "name", bp.pending
    PROVE  Resolved(g, bp) = bp
BY DEF Resolved, Bps

\* Reading a file keeps the breakpoints; names stay pending.
LEMMA RereadIs ==
    ASSUME NEW w \in AllWorlds, NEW g \in Gdbs
    PROVE  /\ Reread(w, g) \in Tables
           /\ DOMAIN Reread(w, g) = DOMAIN w.gdb.table
           /\ \A n \in DOMAIN Reread(w, g) :
                 /\ Reread(w, g)[n] \in Bps
                 /\ Alike(Reread(w, g)[n], w.gdb.table[n])
                 /\ Reread(w, g)[n].enabled = w.gdb.table[n].enabled
                 /\ Reread(w, g)[n].place = "name" => Reread(w, g)[n].pending
                 /\ w.gdb.table[n].place = "name" /\ w.gdb.table[n].pending =>
                       Reread(w, g)[n] = w.gdb.table[n]
<1> DEFINE t == Reread(w, g)
<1>1. w.gdb \in Gdbs /\ w.gdb.table \in Tables
  BY DEF AllWorlds, Gdbs
<1>3. t = [n \in DOMAIN w.gdb.table |-> Resolved(g, w.gdb.table[n])]
  BY DEF Reread
<1> HIDE DEF t
<1>4. ASSUME NEW n \in DOMAIN w.gdb.table
      PROVE  /\ t[n] \in Bps
             /\ Alike(t[n], w.gdb.table[n])
             /\ t[n].enabled = w.gdb.table[n].enabled
             /\ t[n].place = "name" => t[n].pending
             /\ w.gdb.table[n].place = "name" /\ w.gdb.table[n].pending =>
                   t[n] = w.gdb.table[n]
  <2>1. t[n] = Resolved(g, w.gdb.table[n])
    BY <1>3
  <2>2. w.gdb.table[n] \in Bps
    BY <1>1, TableBp
  <2> DEFINE b == w.gdb.table[n]
             r == Resolved(g, b)
  <2> HIDE DEF b
  <2>3. b \in Bps
    BY <2>2 DEF b
  <2>4. /\ r \in Bps
        /\ Alike(r, b)
        /\ r.enabled = b.enabled
        /\ b.place = "name" => r.pending
    BY <2>3, ResolvedIs
  <2>5. t[n] = r
    BY <2>1 DEF b
  <2>6. b.place = "name" /\ b.pending => r = b
    BY <2>3, ResolvedName
  <2> HIDE DEF r
  <2> QED
    BY <2>4, <2>5, <2>6 DEF Alike, b
<1>5. DOMAIN t = DOMAIN w.gdb.table
  BY <1>3
<1>6. t \in Tables
  <2>1. t = [n \in DOMAIN t |-> t[n]]
    BY <1>3, <1>5
  <2>2. DOMAIN t \subseteq Nat
    BY <1>1, <1>5, TableIs
  <2> QED
    BY <1>4, <1>5, <2>1, <2>2, TableIs
<1>7. /\ t \in Tables
      /\ DOMAIN t = DOMAIN w.gdb.table
      /\ \A n \in DOMAIN t :
            /\ t[n] \in Bps
            /\ Alike(t[n], w.gdb.table[n])
            /\ t[n].enabled = w.gdb.table[n].enabled
            /\ t[n].place = "name" => t[n].pending
            /\ w.gdb.table[n].place = "name" /\ w.gdb.table[n].pending =>
                  t[n] = w.gdb.table[n]
  BY <1>4, <1>5, <1>6
<1> QED
  BY <1>7 DEF t

\* All of gdb but its table and what it says of the program.
SameRest(g, h) ==
    /\ g.up = h.up
    /\ g.next = h.next
    /\ g.late = h.late
    /\ g.deaths = h.deaths
    /\ g.inherited = h.inherited

\* gdb tells of each breakpoint that changed, once.
LEMMA RereadNewsAre ==
    ASSUME NEW s, NEW w, NEW g \in Gdbs, Shape(s, w)
    PROVE  /\ RereadNews(w, g) \in Seq(Records)
           /\ \A j \in 1 .. Len(RereadNews(w, g)) :
                 /\ RereadNews(w, g)[j].n \in DOMAIN Reread(w, g)
                 /\ RereadNews(w, g)[j].kind = "modified"
                 /\ RereadNews(w, g)[j].bp = Reread(w, g)[RereadNews(w, g)[j].n]
                 /\ LastAbout(RereadNews(w, g), j)
                 /\ Reread(w, g)[RereadNews(w, g)[j].n] # w.gdb.table[RereadNews(w, g)[j].n]
           /\ \A n \in DOMAIN Reread(w, g) : Reread(w, g)[n] # w.gdb.table[n] =>
                 \E j \in 1 .. Len(RereadNews(w, g)) : RereadNews(w, g)[j].n = n
<1> DEFINE t == Reread(w, g)
           S == {n \in DOMAIN t : t[n] # w.gdb.table[n]}
           q == SetToSeq(S)
           new == [i \in 1 .. Len(q) |-> Record("modified", q[i], t[q[i]])]
           k == w.gdb.next - 1
<1>1. w \in AllWorlds
  BY DEF Shape
<1>2. t \in Tables /\ DOMAIN t = DOMAIN w.gdb.table
  BY <1>1, RereadIs
<1>3. k \in Nat /\ \A n \in DOMAIN t : n \in 1 .. k
  BY <1>2 DEF Shape, Sized
<1>4. RereadNews(w, g) = new
  BY DEF RereadNews
<1> HIDE DEF t, k
<1>5. S \in SUBSET DOMAIN t
  OBVIOUS
<1>s. \A n \in DOMAIN t : t[n] # w.gdb.table[n] => n \in S
  OBVIOUS
<1>t. \A n \in S : n \in DOMAIN t /\ t[n] # w.gdb.table[n]
  OBVIOUS
<1> HIDE DEF S
<1>6. /\ new \in Seq(Records)
      /\ \A j \in 1 .. Len(new) : /\ new[j].n \in S
                                  /\ new[j].kind = "modified"
                                  /\ new[j].bp = t[new[j].n]
                                  /\ LastAbout(new, j)
      /\ \A n \in S : \E j \in 1 .. Len(new) : new[j].n = n
  BY <1>2, <1>3, <1>5, NewsAre
<1> HIDE DEF new
<1>7. /\ new \in Seq(Records)
      /\ \A j \in 1 .. Len(new) : /\ new[j].n \in DOMAIN t
                                  /\ new[j].kind = "modified"
                                  /\ new[j].bp = t[new[j].n]
                                  /\ LastAbout(new, j)
                                  /\ t[new[j].n] # w.gdb.table[new[j].n]
      /\ \A n \in DOMAIN t : t[n] # w.gdb.table[n] =>
            \E j \in 1 .. Len(new) : new[j].n = n
  BY <1>6, <1>s, <1>t
<1> QED
  BY <1>4, <1>7 DEF t

\* A load: the table read anew, no process, and what gdb tells of both.
LEMMA LoadIs ==
    ASSUME NEW s, NEW w, Shape(s, w)
    PROVE  LET v == Load(w)
           IN /\ v \in AllWorlds
              /\ v.st = w.st
              /\ v.wanted = w.wanted
              /\ v.adrift = w.adrift
              /\ v.gdb.table = Reread(w, WithProgram(w.gdb))
              /\ v.gdb.process = "none"
              /\ SameRest(v.gdb, w.gdb)
              /\ v.gdb.resumes = w.gdb.resumes
              /\ v.gdb.stops = w.gdb.stops
              /\ v.intake = Ended(w).intake \o RereadNews(w, WithProgram(w.gdb))
<1> DEFINE e == Ended(w)
           l == WithProgram(w.gdb)
           t == Reread(w, l)
           g == [l EXCEPT !.table = t]
           new == RereadNews(w, l)
           v == [e EXCEPT !.gdb = g, !.intake = e.intake \o new]
<1>1. w \in AllWorlds /\ w.gdb \in Gdbs
  BY DEF Shape, AllWorlds
<1>2. /\ e \in AllWorlds
      /\ e.st = w.st
      /\ e.gdb = w.gdb
      /\ e.wanted = w.wanted
      /\ e.adrift = w.adrift
  BY <1>1, EndedIs
<1>5. Load(w) = v
  BY Zenon DEF Load, Ended, WithProgram
<1>6. /\ l \in Gdbs
      /\ l.process = "none"
      /\ SameRest(l, w.gdb)
      /\ l.resumes = w.gdb.resumes
      /\ l.stops = w.gdb.stops
  BY <1>1 DEF Gdbs, SameRest, WithProgram
<1> HIDE DEF e, l
<1>3. t \in Tables
  BY <1>1, <1>6, RereadIs
<1>4. new \in Seq(Records)
  BY <1>6, RereadNewsAre
<1> HIDE DEF t, new
<1>7. g \in Gdbs /\ g.table = t /\ g.next = l.next /\ SameStatus(g, l)
  BY <1>3, <1>6 DEF Gdbs, SameStatus
<1> HIDE DEF g
<1>8. e.intake \o new \in Seq(Records)
  BY <1>2, <1>4, ConcatProperties DEF AllWorlds
<1>9. /\ v \in AllWorlds
      /\ v.st = e.st
      /\ v.wanted = e.wanted
      /\ v.adrift = e.adrift
      /\ v.gdb = g
      /\ v.intake = e.intake \o new
  BY <1>2, <1>7, <1>8 DEF AllWorlds
<1> HIDE DEF v
<1>10. /\ v \in AllWorlds
       /\ v.st = w.st
       /\ v.wanted = w.wanted
       /\ v.adrift = w.adrift
       /\ v.gdb.table = t
       /\ v.gdb.process = "none"
       /\ SameRest(v.gdb, w.gdb)
       /\ v.gdb.resumes = w.gdb.resumes
       /\ v.gdb.stops = w.gdb.stops
       /\ v.intake = e.intake \o new
  BY <1>2, <1>6, <1>7, <1>9 DEF SameRest, SameStatus
<1> QED
  BY <1>5, <1>10 DEF e, t, new, l

\* A library: the table read anew, and what gdb tells of it.
LEMMA LibraryIs ==
    ASSUME NEW s, NEW w, Shape(s, w)
    PROVE  LET v == LoadLibrary(w)
           IN /\ v \in AllWorlds
              /\ v.st = w.st
              /\ v.wanted = w.wanted
              /\ v.adrift = w.adrift
              /\ v.gdb.table = Reread(w, WithLibrary(w.gdb))
              /\ v.gdb.process = w.gdb.process
              /\ SameRest(v.gdb, w.gdb)
              /\ v.gdb.resumes = w.gdb.resumes
              /\ v.gdb.stops = w.gdb.stops
              /\ v.gdb.began = w.gdb.began
              /\ v.gdb.entry = w.gdb.entry
              /\ v.gdb.overtaken = w.gdb.overtaken
              /\ v.intake = w.intake \o RereadNews(w, WithLibrary(w.gdb))
<1> DEFINE l == WithLibrary(w.gdb)
           t == Reread(w, l)
           g == [l EXCEPT !.table = t]
           new == RereadNews(w, l)
           v == [w EXCEPT !.gdb = g, !.intake = w.intake \o new]
<1>1. w \in AllWorlds /\ w.gdb \in Gdbs
  BY DEF Shape, AllWorlds
<1>5. LoadLibrary(w) = v
  BY Zenon DEF LoadLibrary, WithLibrary
<1>6. /\ l \in Gdbs
      /\ l.process = w.gdb.process
      /\ SameRest(l, w.gdb)
      /\ l.resumes = w.gdb.resumes
      /\ l.stops = w.gdb.stops
      /\ l.began = w.gdb.began
      /\ l.entry = w.gdb.entry
      /\ l.overtaken = w.gdb.overtaken
  BY <1>1 DEF Gdbs, SameRest, WithLibrary
<1> HIDE DEF l
<1>3. t \in Tables
  BY <1>1, <1>6, RereadIs
<1>4. new \in Seq(Records)
  BY <1>6, RereadNewsAre
<1> HIDE DEF t, new
<1>7. g \in Gdbs /\ g.table = t /\ g.next = l.next /\ SameStatus(g, l)
  BY <1>3, <1>6 DEF Gdbs, SameStatus
<1> HIDE DEF g
<1>8. w.intake \o new \in Seq(Records)
  BY <1>1, <1>4, ConcatProperties DEF AllWorlds
<1>9. /\ v \in AllWorlds
      /\ v.st = w.st
      /\ v.wanted = w.wanted
      /\ v.adrift = w.adrift
      /\ v.gdb = g
      /\ v.intake = w.intake \o new
  BY <1>1, <1>7, <1>8 DEF AllWorlds
<1> HIDE DEF v
<1>10. /\ v \in AllWorlds
       /\ v.st = w.st
       /\ v.wanted = w.wanted
       /\ v.adrift = w.adrift
       /\ v.gdb.table = t
       /\ v.gdb.process = w.gdb.process
       /\ SameRest(v.gdb, w.gdb)
       /\ v.gdb.resumes = w.gdb.resumes
       /\ v.gdb.stops = w.gdb.stops
       /\ v.gdb.began = w.gdb.began
       /\ v.gdb.entry = w.gdb.entry
       /\ v.gdb.overtaken = w.gdb.overtaken
       /\ v.intake = w.intake \o new
  BY <1>6, <1>7, <1>9 DEF SameRest, SameStatus
<1> QED
  BY <1>5, <1>10 DEF t, new, l

\* What reading a file makes of a world, and of one with a record more.
RereadAs(w, e, g, v) ==
    /\ e \in AllWorlds
    /\ e.st = w.st
    /\ e.gdb = w.gdb
    /\ e.adrift = w.adrift
    /\ v \in AllWorlds
    /\ v.st = w.st
    /\ v.adrift = w.adrift
    /\ v.gdb.table = Reread(w, g)
    /\ SameRest(v.gdb, w.gdb)
    /\ v.intake = e.intake \o RereadNews(w, g)

\* It keeps the invariant.
LEMMA RereadBase ==
    ASSUME NEW s, NEW w, Base(s, w), NEW e, Base(s, e), NEW g \in Gdbs, NEW v,
           RereadAs(w, e, g, v)
    PROVE  Base(s, v)
<1> DEFINE t == Reread(w, g)
           new == RereadNews(w, g)
<1>1. Shape(s, w) /\ w \in AllWorlds
  BY DEF Base, Shape
<1>2. /\ e \in AllWorlds
      /\ e.st = w.st
      /\ e.gdb = w.gdb
      /\ e.adrift = w.adrift
      /\ Base(s, e)
  BY DEF RereadAs
<1>3. /\ v \in AllWorlds
      /\ v.st = w.st
      /\ v.adrift = w.adrift
      /\ v.gdb.table = t
      /\ SameRest(v.gdb, w.gdb)
      /\ v.intake = e.intake \o new
  BY DEF RereadAs
<1>4. /\ DOMAIN t = DOMAIN w.gdb.table
      /\ \A n \in DOMAIN t :
            /\ Alike(t[n], w.gdb.table[n])
            /\ t[n].enabled = w.gdb.table[n].enabled
            /\ t[n].place = "name" => t[n].pending
            /\ w.gdb.table[n].place = "name" /\ w.gdb.table[n].pending =>
                  t[n] = w.gdb.table[n]
  BY <1>1, RereadIs
<1>5. /\ new \in Seq(Records)
      /\ \A j \in 1 .. Len(new) :
            /\ new[j].n \in DOMAIN t
            /\ new[j].kind = "modified"
            /\ new[j].bp = t[new[j].n]
            /\ LastAbout(new, j)
            /\ t[new[j].n] # w.gdb.table[new[j].n]
      /\ \A n \in DOMAIN t : t[n] # w.gdb.table[n] => \E j \in 1 .. Len(new) : new[j].n = n
  BY <1>1, RereadNewsAre
<1> HIDE DEF t, new
<1>6. ASSUME NEW n \in DOMAIN t
      PROVE  Good(t[n]) /\ n \in 1 .. s.numbers /\ n < v.gdb.next
  <2>1. n \in DOMAIN w.gdb.table
    BY <1>4
  <2>2. Good(w.gdb.table[n])
    BY <1>1, <2>1 DEF Shape, Goods
  <2>3. Good(t[n])
    BY <1>4, <2>2 DEF Good, Alike
  <2>4. n \in 1 .. w.gdb.next - 1 /\ w.gdb.next \in 1 .. s.numbers + 1 /\ s.numbers \in Nat
    BY <1>1, <2>1 DEF Shape, Sized
  <2>5. v.gdb.next = w.gdb.next
    BY <1>3 DEF SameRest
  <2> QED
    BY <2>3, <2>4, <2>5
<1>7. MovedTable(s, e, v)
  <2>1. e.gdb.next <= v.gdb.next
    BY <1>1, <1>2, <1>3 DEF SameRest, Shape, Sized
  <2> QED
    BY <1>2, <1>3, <1>4, <1>6, <2>1 DEF MovedTable
<1>8. MovedNews(s, e, v, new)
  <2> SUFFICES ASSUME NEW j \in 1 .. Len(new)
               PROVE  /\ GoodRecord(s, new[j])
                      /\ new[j].n < v.gdb.next
                      /\ new[j].kind # "deleted"
                      /\ Alike(new[j].bp, v.gdb.table[new[j].n])
                      /\ new[j].bp.place = "name" => "typed" \in s.kinds
    BY DEF MovedNews
  <2>1. new[j].n \in DOMAIN t /\ new[j].kind = "modified" /\ new[j].bp = t[new[j].n]
    BY <1>5
  <2>2. Good(new[j].bp) /\ new[j].n \in 1 .. s.numbers /\ new[j].n < v.gdb.next
    BY <1>6, <2>1
  <2>3. new[j].bp.place # "name"
    <3>1. Good(w.gdb.table[new[j].n])
      BY <1>1, <1>4, <2>1 DEF Shape, Goods
    <3> QED
      BY <1>4, <1>5, <2>1, <3>1 DEF Good, Alike
  <2> QED
    BY <1>3, <2>1, <2>2, <2>3 DEF GoodRecord, Alike, ToldKinds
<1>9. ASSUME NEW n \in 1 .. s.numbers
      PROVE  ToldAt(v, new, n) \/ Untouched(e, v, new, n)
  <2>1. CASE \E j \in 1 .. Len(new) : new[j].n = n
    <3>1. PICK j \in 1 .. Len(new) : new[j].n = n
      BY <2>1
    <3>2. Tells(new[j], v.gdb.table)
      BY <1>3, <1>5, <3>1 DEF Tells
    <3> QED
      BY <1>5, <3>1, <3>2 DEF ToldAt
  <2>2. CASE ~\E j \in 1 .. Len(new) : new[j].n = n
    BY <1>2, <1>3, <1>4, <1>5, <2>2 DEF Untouched
  <2> QED
    BY <2>1, <2>2
<1>10. /\ v.gdb.inherited = e.gdb.inherited
       /\ v.gdb.late = e.gdb.late
       /\ v.gdb.next <= s.numbers + 1
  BY <1>1, <1>2, <1>3 DEF SameRest, Shape, Sized
<1>11. \A n \in v.adrift : n \in e.adrift /\ n \in 1 .. s.numbers
  BY <1>1, <1>2, <1>3 DEF Shape, Sized
<1>12. Moved(s, e, v, new)
  BY <1>2, <1>3, <1>5, <1>7, <1>8, <1>9, <1>10, <1>11 DEF Moved
<1> QED
  BY <1>2, <1>12, MovedBase

\* A load keeps the invariant.
LEMMA LoadBase ==
    ASSUME NEW s, NEW w, Base(s, w)
    PROVE  Base(s, Load(w))
<1> DEFINE v == Load(w)
           e == Ended(w)
           g == WithProgram(w.gdb)
<1>1. Shape(s, w) /\ w \in AllWorlds /\ w.gdb \in Gdbs
  BY DEF Base, Shape, AllWorlds
<1>2. g \in Gdbs
  BY <1>1 DEF WithProgram, Gdbs
<1>3. /\ e \in AllWorlds
      /\ e.st = w.st
      /\ e.gdb = w.gdb
      /\ e.adrift = w.adrift
      /\ Base(s, e)
  BY <1>1, EndedIs, EndedBase
<1>4. /\ v \in AllWorlds
      /\ v.st = w.st
      /\ v.adrift = w.adrift
      /\ v.gdb.table = Reread(w, g)
      /\ SameRest(v.gdb, w.gdb)
      /\ v.intake = e.intake \o RereadNews(w, g)
  BY <1>1, LoadIs
<1> HIDE DEF v, e, g
<1>5. RereadAs(w, e, g, v)
  BY <1>3, <1>4 DEF RereadAs
<1>6. Base(s, v)
  BY <1>2, <1>3, <1>5, RereadBase
<1> QED
  BY <1>6 DEF v

\* A library keeps the invariant.
LEMMA LibraryBase ==
    ASSUME NEW s, NEW w, Base(s, w)
    PROVE  Base(s, LoadLibrary(w))
<1> DEFINE v == LoadLibrary(w)
           g == WithLibrary(w.gdb)
<1>1. Shape(s, w) /\ w \in AllWorlds /\ w.gdb \in Gdbs
  BY DEF Base, Shape, AllWorlds
<1>2. g \in Gdbs
  BY <1>1 DEF WithLibrary, Gdbs
<1>3. /\ v \in AllWorlds
      /\ v.st = w.st
      /\ v.adrift = w.adrift
      /\ v.gdb.table = Reread(w, g)
      /\ SameRest(v.gdb, w.gdb)
      /\ v.intake = w.intake \o RereadNews(w, g)
  BY <1>1, LibraryIs
<1> HIDE DEF v, g
<1>4. RereadAs(w, w, g, v)
  BY <1>1, <1>3 DEF RereadAs
<1>5. Base(s, v)
  BY <1>2, <1>4, RereadBase
<1> QED
  BY <1>5 DEF v

\* A stop of the program's own: a record and a number.
LEMMA PauseIs ==
    ASSUME NEW w \in AllWorlds
    PROVE  LET v == Pause(w)
           IN /\ v \in AllWorlds
              /\ Kin(w, v)
              /\ v.wanted = w.wanted
              /\ v.adrift = w.adrift
              /\ v.gdb = [w.gdb EXCEPT !.process = "stopped", !.stops = @ + 1]
              /\ v.intake = Append(w.intake, Record("stopped", 0, NoBreakpoint))
<1> DEFINE k == w.gdb.stops + 1
           g == [w.gdb EXCEPT !.process = "stopped", !.stops = k]
           p == [w EXCEPT !.gdb = g]
           v == Says(p, "stopped")
<1>1. w.gdb \in Gdbs /\ w.gdb.stops \in Nat
  BY DEF AllWorlds, Gdbs
<1>2. k \in Nat
  BY <1>1
<1>3. Pause(w) = v
  BY Zenon DEF Pause
<1>g. g = [w.gdb EXCEPT !.process = "stopped", !.stops = @ + 1]
  BY Zenon
<1> HIDE DEF k
<1>4. g \in Gdbs /\ g.inherited = w.gdb.inherited /\ g.late = w.gdb.late
  BY <1>1, <1>2 DEF Gdbs
<1> HIDE DEF g
<1>5. /\ p \in AllWorlds /\ p.st = w.st /\ p.gdb = g /\ p.intake = w.intake
      /\ p.wanted = w.wanted /\ p.adrift = w.adrift
  BY <1>4 DEF AllWorlds
<1> HIDE DEF p
<1>6. "stopped" \in Kinds
  BY DEF Kinds
<1>7. /\ v \in AllWorlds
      /\ v.st = p.st
      /\ v.gdb = p.gdb
      /\ v.intake = Append(p.intake, Record("stopped", 0, NoBreakpoint))
      /\ v.wanted = p.wanted
      /\ v.adrift = p.adrift
  BY <1>5, <1>6, SaysIs
<1> HIDE DEF v
<1> QED
  BY <1>3, <1>4, <1>5, <1>7, <1>g DEF Kin

\* An exit: a record and a number.
LEMMA ExitIs ==
    ASSUME NEW w \in AllWorlds
    PROVE  LET v == Exit(w)
           IN /\ v \in AllWorlds
              /\ Kin(w, v)
              /\ v.wanted = w.wanted
              /\ v.adrift = w.adrift
              /\ v.gdb = [w.gdb EXCEPT !.process = "none", !.stops = @ + 1]
              /\ v.intake = Append(w.intake, Record("exited", 0, NoBreakpoint))
<1> DEFINE k == w.gdb.stops + 1
           g == [w.gdb EXCEPT !.process = "none", !.stops = k]
           p == [w EXCEPT !.gdb = g]
           v == Says(p, "exited")
<1>1. w.gdb \in Gdbs /\ w.gdb.stops \in Nat
  BY DEF AllWorlds, Gdbs
<1>2. k \in Nat
  BY <1>1
<1>3. Exit(w) = v
  BY Zenon DEF Exit
<1>g. g = [w.gdb EXCEPT !.process = "none", !.stops = @ + 1]
  BY Zenon
<1> HIDE DEF k
<1>4. g \in Gdbs /\ g.inherited = w.gdb.inherited /\ g.late = w.gdb.late
  BY <1>1, <1>2 DEF Gdbs
<1> HIDE DEF g
<1>5. /\ p \in AllWorlds /\ p.st = w.st /\ p.gdb = g /\ p.intake = w.intake
      /\ p.wanted = w.wanted /\ p.adrift = w.adrift
  BY <1>4 DEF AllWorlds
<1> HIDE DEF p
<1>6. "exited" \in Kinds
  BY DEF Kinds
<1>7. /\ v \in AllWorlds
      /\ v.st = p.st
      /\ v.gdb = p.gdb
      /\ v.intake = Append(p.intake, Record("exited", 0, NoBreakpoint))
      /\ v.wanted = p.wanted
      /\ v.adrift = p.adrift
  BY <1>5, <1>6, SaysIs
<1> HIDE DEF v
<1> QED
  BY <1>3, <1>4, <1>5, <1>7, <1>g DEF Kin

\* gdb resumes the program.
Resumed(w) ==
    Says([w EXCEPT !.gdb.process = "running", !.gdb.entry = FALSE, !.gdb.resumes = @ + 1],
         "running")

\* A resume: a record and a number.
LEMMA ResumedIs ==
    ASSUME NEW w \in AllWorlds
    PROVE  LET v == Resumed(w)
           IN /\ v \in AllWorlds
              /\ Kin(w, v)
              /\ v.wanted = w.wanted
              /\ v.adrift = w.adrift
              /\ v.gdb = [w.gdb EXCEPT !.process = "running", !.entry = FALSE,
                                       !.resumes = @ + 1]
              /\ v.intake = Append(w.intake, Record("running", 0, NoBreakpoint))
<1> DEFINE k == w.gdb.resumes + 1
           g == [w.gdb EXCEPT !.process = "running", !.entry = FALSE, !.resumes = k]
           p == [w EXCEPT !.gdb = g]
           v == Says(p, "running")
<1>1. w.gdb \in Gdbs /\ w.gdb.resumes \in Nat
  BY DEF AllWorlds, Gdbs
<1>2. k \in Nat
  BY <1>1
<1>3. Resumed(w) = v
  BY Zenon DEF Resumed
<1>g. g = [w.gdb EXCEPT !.process = "running", !.entry = FALSE, !.resumes = @ + 1]
  BY Zenon
<1> HIDE DEF k
<1>4. g \in Gdbs /\ g.inherited = w.gdb.inherited /\ g.late = w.gdb.late
  BY <1>1, <1>2 DEF Gdbs
<1> HIDE DEF g
<1>5. /\ p \in AllWorlds /\ p.st = w.st /\ p.gdb = g /\ p.intake = w.intake
      /\ p.wanted = w.wanted /\ p.adrift = w.adrift
  BY <1>4 DEF AllWorlds
<1> HIDE DEF p
<1>6. "running" \in Kinds
  BY DEF Kinds
<1>7. /\ v \in AllWorlds
      /\ v.st = p.st
      /\ v.gdb = p.gdb
      /\ v.intake = Append(p.intake, Record("running", 0, NoBreakpoint))
      /\ v.wanted = p.wanted
      /\ v.adrift = p.adrift
  BY <1>5, <1>6, SaysIs
<1> HIDE DEF v
<1> QED
  BY <1>3, <1>4, <1>5, <1>7, <1>g DEF Kin

\* The program's stops, exits and resumes keep the invariant.
LEMMA ProgramBase ==
    ASSUME NEW s, NEW w, Base(s, w)
    PROVE  Base(s, Pause(w)) /\ Base(s, Exit(w)) /\ Base(s, Resumed(w))
<1>1. w \in AllWorlds /\ w.gdb \in Gdbs
  BY DEF Base, Shape, AllWorlds
<1>2. Base(s, Pause(w))
  <2> DEFINE v == Pause(w)
  <2>1. /\ v \in AllWorlds /\ Kin(w, v) /\ v.adrift = w.adrift
        /\ v.gdb = [w.gdb EXCEPT !.process = "stopped", !.stops = @ + 1]
        /\ v.intake = Append(w.intake, Record("stopped", 0, NoBreakpoint))
    BY <1>1, PauseIs
  <2> HIDE DEF v
  <2>2. v.gdb.table = w.gdb.table /\ v.gdb.next = w.gdb.next
    BY <1>1, <2>1 DEF Gdbs
  <2>3. "stopped" \in Kinds \ ToldKinds
    BY DEF Kinds, ToldKinds
  <2>4. Base(s, v)
    BY <2>1, <2>2, <2>3, SaysBase
  <2> QED
    BY <2>4 DEF v
<1>3. Base(s, Exit(w))
  <2> DEFINE v == Exit(w)
  <2>1. /\ v \in AllWorlds /\ Kin(w, v) /\ v.adrift = w.adrift
        /\ v.gdb = [w.gdb EXCEPT !.process = "none", !.stops = @ + 1]
        /\ v.intake = Append(w.intake, Record("exited", 0, NoBreakpoint))
    BY <1>1, ExitIs
  <2> HIDE DEF v
  <2>2. v.gdb.table = w.gdb.table /\ v.gdb.next = w.gdb.next
    BY <1>1, <2>1 DEF Gdbs
  <2>3. "exited" \in Kinds \ ToldKinds
    BY DEF Kinds, ToldKinds
  <2>4. Base(s, v)
    BY <2>1, <2>2, <2>3, SaysBase
  <2> QED
    BY <2>4 DEF v
<1>4. Base(s, Resumed(w))
  <2> DEFINE v == Resumed(w)
  <2>1. /\ v \in AllWorlds /\ Kin(w, v) /\ v.adrift = w.adrift
        /\ v.gdb = [w.gdb EXCEPT !.process = "running", !.entry = FALSE, !.resumes = @ + 1]
        /\ v.intake = Append(w.intake, Record("running", 0, NoBreakpoint))
    BY <1>1, ResumedIs
  <2> HIDE DEF v
  <2>2. v.gdb.table = w.gdb.table /\ v.gdb.next = w.gdb.next
    BY <1>1, <2>1 DEF Gdbs
  <2>3. "running" \in Kinds \ ToldKinds
    BY DEF Kinds, ToldKinds
  <2>4. Base(s, v)
    BY <2>1, <2>2, <2>3, SaysBase
  <2> QED
    BY <2>4 DEF v
<1> QED
  BY <1>2, <1>3, <1>4

\* A hit is counted, then the program stops,
HitStop(w, n) ==
    Says(Told([w EXCEPT !.gdb.process = "stopped", !.gdb.stops = @ + 1],
              "modified", n, w.gdb.table[n]), "stopped")

\* A hit is counted, then the program stops: two records.
LEMMA HitStopIs ==
    ASSUME NEW w \in AllWorlds, NEW n \in DOMAIN w.gdb.table
    PROVE  LET v == HitStop(w, n)
               told == Record("modified", n, w.gdb.table[n])
           IN /\ v \in AllWorlds
              /\ Kin(w, v)
              /\ v.wanted = w.wanted
              /\ v.adrift = w.adrift
              /\ v.gdb = [w.gdb EXCEPT !.process = "stopped", !.stops = @ + 1]
              /\ v.intake = Append(Append(w.intake, told), Record("stopped", 0, NoBreakpoint))
              /\ told \in Records
<1> DEFINE k == w.gdb.stops + 1
           g == [w.gdb EXCEPT !.process = "stopped", !.stops = k]
           bp == w.gdb.table[n]
           told == Record("modified", n, bp)
           p == [w EXCEPT !.gdb = g]
           q == Told(p, "modified", n, bp)
           v == Says(q, "stopped")
<1>1. w.gdb \in Gdbs /\ w.gdb.stops \in Nat /\ n \in Nat /\ bp \in Bps
  BY TableBp DEF AllWorlds, Gdbs
<1>2. k \in Nat
  BY <1>1
<1>3. HitStop(w, n) = v
  BY Zenon DEF HitStop
<1>g. g = [w.gdb EXCEPT !.process = "stopped", !.stops = @ + 1]
  BY Zenon
<1> HIDE DEF k, bp
<1>4. g \in Gdbs /\ g.inherited = w.gdb.inherited /\ g.late = w.gdb.late
  BY <1>1, <1>2 DEF Gdbs
<1> HIDE DEF g
<1>5. /\ p \in AllWorlds /\ p.st = w.st /\ p.gdb = g /\ p.intake = w.intake
      /\ p.wanted = w.wanted /\ p.adrift = w.adrift
  BY <1>4 DEF AllWorlds
<1> HIDE DEF p
<1>6. "stopped" \in Kinds /\ "modified" \in Kinds
  BY DEF Kinds, ToldKinds
<1>r. told \in Records
  BY <1>1, <1>6, RecordType
<1>7. /\ q \in AllWorlds
      /\ q.st = p.st
      /\ q.gdb = p.gdb
      /\ q.intake = Append(p.intake, told)
      /\ q.wanted = p.wanted
      /\ q.adrift = p.adrift
  BY <1>1, <1>5, <1>6, ToldIs
<1> HIDE DEF q, told
<1>8. /\ v \in AllWorlds
      /\ v.st = q.st
      /\ v.gdb = q.gdb
      /\ v.intake = Append(q.intake, Record("stopped", 0, NoBreakpoint))
      /\ v.wanted = q.wanted
      /\ v.adrift = q.adrift
  BY <1>6, <1>7, SaysIs
<1> HIDE DEF v
<1>9. /\ v \in AllWorlds
      /\ Kin(w, v)
      /\ v.wanted = w.wanted
      /\ v.adrift = w.adrift
      /\ v.gdb = g
      /\ v.intake = Append(Append(w.intake, told), Record("stopped", 0, NoBreakpoint))
  BY <1>4, <1>5, <1>7, <1>8 DEF Kin
<1> QED
  BY <1>3, <1>9, <1>g, <1>r DEF bp, told

\* and a temporary breakpoint is deleted.
LEMMA HitIs ==
    ASSUME NEW w \in AllWorlds, NEW n \in DOMAIN w.gdb.table
    PROVE  LET v == Hit(w, n)
               h == HitStop(w, n)
           IN /\ v \in AllWorlds
              /\ v.st = w.st
              /\ v.wanted = w.wanted
              /\ v.adrift = w.adrift
              /\ ~w.gdb.table[n].temporary => v = h
              /\ w.gdb.table[n].temporary =>
                    /\ v.gdb = [h.gdb EXCEPT !.table = Without(w.gdb.table, n)]
                    /\ v.intake = Append(h.intake, Record("deleted", n, w.gdb.table[n]))
<1> DEFINE h == HitStop(w, n)
           bp == w.gdb.table[n]
           t == Without(w.gdb.table, n)
           g == [h.gdb EXCEPT !.table = t]
           p == [h EXCEPT !.gdb = g]
           v == Told(p, "deleted", n, bp)
<1>1. /\ h \in AllWorlds
      /\ h.st = w.st
      /\ h.wanted = w.wanted
      /\ h.adrift = w.adrift
      /\ h.gdb = [w.gdb EXCEPT !.process = "stopped", !.stops = @ + 1]
  BY HitStopIs DEF Kin
<1>2. /\ w.gdb \in Gdbs /\ w.gdb.table \in Tables /\ n \in Nat /\ bp \in Bps
      /\ h.gdb \in Gdbs
  BY <1>1, TableBp DEF AllWorlds, Gdbs
<1>3. h.gdb.table = w.gdb.table
  BY <1>1, <1>2 DEF Gdbs
<1>4. t \in Tables
  BY <1>2, TableWithout
<1>5. CASE ~bp.temporary
  <2>1. Hit(w, n) = h
    BY <1>5, Zenon DEF Hit, HitStop
  <2> QED
    BY <1>1, <1>5, <2>1
<1>6. CASE bp.temporary
  <2>1. Hit(w, n) = v
    <3>1. Hit(w, n) = Told([h EXCEPT !.gdb.table = Without(@, n)], "deleted", n, bp)
      BY <1>6, Zenon DEF Hit, HitStop
    <3>2. [h EXCEPT !.gdb.table = Without(@, n)] = p
      BY <1>3, Zenon
    <3> QED
      BY <3>1, <3>2
  <2> HIDE DEF h, t
  <2>2. g \in Gdbs
    BY <1>2, <1>4 DEF Gdbs
  <2> HIDE DEF g, bp
  <2>3. /\ p \in AllWorlds /\ p.st = h.st /\ p.gdb = g /\ p.intake = h.intake
        /\ p.wanted = h.wanted /\ p.adrift = h.adrift
    BY <1>1, <2>2 DEF AllWorlds
  <2> HIDE DEF p
  <2>4. "deleted" \in Kinds
    BY DEF Kinds, ToldKinds
  <2>5. /\ v \in AllWorlds
        /\ v.st = p.st
        /\ v.gdb = p.gdb
        /\ v.intake = Append(p.intake, Record("deleted", n, bp))
        /\ v.wanted = p.wanted
        /\ v.adrift = p.adrift
    BY <1>2, <2>3, <2>4, ToldIs
  <2> HIDE DEF v
  <2> QED
    BY <1>1, <1>6, <2>1, <2>3, <2>5 DEF g, bp, t, h
<1> QED
  BY <1>5, <1>6

\* A hit that leaves its breakpoint keeps the invariant.
LEMMA HitStopBase ==
    ASSUME NEW s, NEW w, NEW n \in DOMAIN w.gdb.table, Base(s, w), ~w.gdb.table[n].pending
    PROVE  Base(s, HitStop(w, n))
<1> DEFINE k == w.gdb.stops + 1
           g == [w.gdb EXCEPT !.process = "stopped", !.stops = k]
           bp == w.gdb.table[n]
           told == Record("modified", n, bp)
           p == [w EXCEPT !.gdb = g]
           q == Told(p, "modified", n, bp)
           v == Says(q, "stopped")
<1>0. w \in AllWorlds /\ Shape(s, w)
  BY DEF Base, Shape
<1>1. /\ w.gdb \in Gdbs /\ w.gdb.stops \in Nat /\ n \in Nat /\ bp \in Bps
      /\ n \in DOMAIN w.gdb.table
  BY <1>0, TableBp DEF AllWorlds, Gdbs
<1>2. k \in Nat
  BY <1>1
<1>3. HitStop(w, n) = v
  BY Zenon DEF HitStop
<1>b. Good(bp) /\ bp.place # "name" /\ bp = w.gdb.table[n]
  BY <1>0 DEF Shape, Goods, Good
<1> HIDE DEF k, bp
<1>4. g \in Gdbs /\ g.inherited = w.gdb.inherited /\ g.late = w.gdb.late
      /\ g.table = w.gdb.table /\ g.next = w.gdb.next
  BY <1>1, <1>2 DEF Gdbs
<1> HIDE DEF g
<1>5. /\ p \in AllWorlds /\ Kin(w, p) /\ p.gdb = g /\ p.intake = w.intake
      /\ p.adrift = w.adrift
  BY <1>0, <1>4 DEF AllWorlds, Kin
<1> HIDE DEF p
<1>6. Base(s, p)
  BY <1>4, <1>5, SilentBase
<1>7. "stopped" \in Kinds \ ToldKinds /\ "modified" \in Kinds
  BY DEF Kinds, ToldKinds
<1>r. told \in Records /\ told.kind = "modified" /\ told.n = n /\ told.bp = bp
  BY <1>1, <1>7, RecordType
<1>8. /\ q \in AllWorlds
      /\ q.st = p.st
      /\ q.gdb = p.gdb
      /\ q.intake = Append(p.intake, told)
      /\ q.adrift = p.adrift
  BY <1>1, <1>5, <1>7, ToldIs
<1> HIDE DEF q, told
<1>9. Base(s, q)
  <2>1. Shape(s, p) /\ Kin(p, q)
    BY <1>6, <1>8 DEF Base, Kin
  <2>2. MovedTable(s, p, q) /\ q.gdb.next <= s.numbers + 1 /\ \A m : SameAt(p, q, m)
    <3>1. q.gdb.table = p.gdb.table /\ q.gdb.next = p.gdb.next
      BY <1>8
    <3> QED
      BY <1>8, <2>1, <3>1, SameTableMoves
  <2>3. n \in 1 .. s.numbers /\ n < q.gdb.next
    BY <1>0, <1>1, <1>4, <1>5, <1>8 DEF Shape, Sized
  <2>4. GoodRecord(s, told)
    BY <1>b, <1>r, <2>3 DEF GoodRecord, ToldKinds
  <2>5. Tells(told, q.gdb.table)
    BY <1>1, <1>b, <1>r, <1>4, <1>5, <1>8 DEF Tells
  <2>6. /\ told.kind \in ToldKinds => told.n < q.gdb.next /\ Tells(told, q.gdb.table)
        /\ told.kind \in {"created", "modified"} =>
              (told.bp.place = "name" => "typed" \in s.kinds)
    BY <1>b, <1>r, <2>3, <2>5
  <2>7. Moved(s, p, q, <<told>>)
    BY <1>8, <1>r, <2>1, <2>2, <2>4, <2>6, ToldMoves
  <2> QED
    BY <1>6, <2>7, MovedBase
<1>10. /\ v \in AllWorlds
       /\ v.st = q.st
       /\ v.gdb = q.gdb
       /\ v.intake = Append(q.intake, Record("stopped", 0, NoBreakpoint))
       /\ v.adrift = q.adrift
  BY <1>7, <1>8, SaysIs
<1> HIDE DEF v
<1>11. Base(s, v)
  <2>1. Kin(q, v) /\ v.gdb.table = q.gdb.table /\ v.gdb.next = q.gdb.next
    BY <1>10 DEF Kin
  <2> QED
    BY <1>7, <1>9, <1>10, <2>1, SaysBase
<1> QED
  BY <1>3, <1>11

\* So does one whose temporary breakpoint gdb deletes.
LEMMA HitBase ==
    ASSUME NEW s, NEW w, NEW n \in DOMAIN w.gdb.table, Base(s, w), ~w.gdb.table[n].pending
    PROVE  Base(s, Hit(w, n))
<1> DEFINE h == HitStop(w, n)
           bp == w.gdb.table[n]
           t == Without(w.gdb.table, n)
           v == Hit(w, n)
           rec == Record("deleted", n, bp)
<1>0. w \in AllWorlds /\ Shape(s, w) /\ n \in DOMAIN w.gdb.table
  BY DEF Base, Shape
<1>1. /\ v \in AllWorlds /\ v.st = w.st /\ v.adrift = w.adrift
      /\ ~bp.temporary => v = h
      /\ bp.temporary => v.gdb = [h.gdb EXCEPT !.table = t] /\ v.intake = Append(h.intake, rec)
  BY <1>0, HitIs
<1>2. /\ h \in AllWorlds /\ Kin(w, h) /\ h.adrift = w.adrift
      /\ h.gdb = [w.gdb EXCEPT !.process = "stopped", !.stops = @ + 1]
  BY <1>0, HitStopIs
<1>3. Base(s, h)
  BY HitStopBase
<1>4. CASE ~bp.temporary
  BY <1>1, <1>3, <1>4
<1>5. CASE bp.temporary
  <2>1. w.gdb \in Gdbs /\ w.gdb.table \in Tables /\ n \in Nat /\ bp \in Bps /\ h.gdb \in Gdbs
    BY <1>0, <1>2, TableBp DEF AllWorlds, Gdbs
  <2>2. h.gdb.table = w.gdb.table /\ h.gdb.next = w.gdb.next
    BY <1>2, <2>1 DEF Gdbs
  <2>t. DOMAIN t = DOMAIN w.gdb.table \ {n} /\ \A m \in DOMAIN w.gdb.table \ {n} : t[m] = w.gdb.table[m]
    BY <2>1, TableWithout
  <2>b. Good(bp) /\ Shape(s, h)
    BY <1>0, <1>3 DEF Shape, Goods, Base
  <2>k. "deleted" \in Kinds
    BY DEF Kinds, ToldKinds
  <2>r. rec \in Records /\ rec.kind = "deleted" /\ rec.n = n /\ rec.bp = bp
    BY <2>1, <2>k, RecordType
  <2> HIDE DEF h, bp, t, v, rec
  <2>3. v.gdb.table = t /\ v.gdb.next = h.gdb.next /\ v.gdb.late = h.gdb.late
        /\ v.gdb.inherited = h.gdb.inherited
    BY <1>1, <1>5, <2>1 DEF Gdbs
  <2>4. Kin(h, v) /\ v.adrift = h.adrift /\ v.intake = Append(h.intake, rec)
    BY <1>1, <1>2, <1>5, <2>3 DEF Kin
  <2>5. n \in 1 .. s.numbers /\ n < v.gdb.next /\ v.gdb.next <= s.numbers + 1
        /\ h.gdb.next <= v.gdb.next
    BY <1>0, <2>2, <2>3 DEF Shape, Sized
  <2>6. MovedTable(s, h, v)
    <3>1. \A m \in DOMAIN v.gdb.table : /\ m \in DOMAIN h.gdb.table
                                        /\ v.gdb.table[m] = h.gdb.table[m]
                                        /\ Good(h.gdb.table[m])
      BY <2>2, <2>3, <2>b, <2>t DEF Shape, Goods
    <3> QED
      BY <2>5, <3>1 DEF MovedTable, Alike
  <2>7. GoodRecord(s, rec)
    BY <2>5, <2>b, <2>r DEF GoodRecord, ToldKinds
  <2>8. Tells(rec, v.gdb.table)
    BY <2>3, <2>r, <2>t DEF Tells
  <2>9. \A m \in 1 .. s.numbers : m # rec.n => SameAt(h, v, m)
    BY <2>2, <2>3, <2>r, <2>t DEF SameAt
  <2>10. rec.n < v.gdb.next /\ rec.kind \notin {"created", "modified"}
    BY <2>5, <2>r
  <2>a. v \in AllWorlds /\ rec \in Records /\ Shape(s, h) /\ v.gdb.next <= s.numbers + 1
    BY <1>1, <2>5, <2>b, <2>r
  <2>c. \A m \in 1 .. s.numbers : rec.kind \notin ToldKinds \/ m # rec.n => SameAt(h, v, m)
    BY <2>9, <2>r DEF ToldKinds
  <2>11. Moved(s, h, v, <<rec>>)
    BY <2>4, <2>6, <2>7, <2>8, <2>10, <2>a, <2>c, ToldMoves
  <2>12. Base(s, v)
    BY <1>3, <2>11, MovedBase
  <2> QED
    BY <2>12 DEF v
<1> QED
  BY <1>4, <1>5

\* The program begins; gdb may put a breakpoint of its own on main first.
Overtaken(w) == \E i \in DOMAIN w.intake : w.intake[i].kind = "exited"

Begun(w, verb) ==
    [Ended(w) EXCEPT !.gdb.process = "running", !.gdb.entry = verb = "starti",
                     !.gdb.resumes = @ + 1, !.gdb.began = w.gdb.resumes,
                     !.gdb.overtaken = Overtaken(w)]

OnMain(w) ==
    Command("insert", 0, Breakpoint("main", TRUE, 0, "gdb", w.gdb.resumes), TRUE, FALSE)

\* The process of a run or a start, the old one ended.
LEMMA BegunIs ==
    ASSUME NEW w \in AllWorlds, NEW verb
    PROVE  LET v == Begun(w, verb)
           IN /\ v \in AllWorlds
              /\ v.st = w.st
              /\ v.wanted = w.wanted
              /\ v.adrift = w.adrift
              /\ v.intake = Ended(w).intake
              /\ SameRest(v.gdb, w.gdb)
              /\ v.gdb.table = w.gdb.table
              /\ v.gdb.process = "running"
              /\ v.gdb.entry = (verb = "starti")
              /\ v.gdb.resumes = w.gdb.resumes + 1
              /\ v.gdb.began = w.gdb.resumes
              /\ v.gdb.overtaken = Overtaken(w)
<1> DEFINE e == Ended(w)
           k == w.gdb.resumes + 1
           entry == verb = "starti"
           over == Overtaken(w)
           g == [w.gdb EXCEPT !.process = "running", !.entry = entry, !.resumes = k,
                              !.began = w.gdb.resumes, !.overtaken = over]
           v == [e EXCEPT !.gdb = g]
<1>1. w.gdb \in Gdbs /\ w.gdb.resumes \in Nat
  BY DEF AllWorlds, Gdbs
<1>2. k \in Nat
  BY <1>1
<1>3. entry \in BOOLEAN /\ over \in BOOLEAN
  BY DEF Overtaken
<1>4. /\ e \in AllWorlds /\ e.st = w.st /\ e.gdb = w.gdb
      /\ e.wanted = w.wanted /\ e.adrift = w.adrift
  BY EndedIs
<1>5. Begun(w, verb) = v
  BY <1>4, Zenon DEF Begun
<1>k. k = w.gdb.resumes + 1
  OBVIOUS
<1>e. entry = (verb = "starti")
  OBVIOUS
<1> HIDE DEF k, entry, over
<1>6. /\ g \in Gdbs
      /\ SameRest(g, w.gdb)
      /\ g.table = w.gdb.table
      /\ g.process = "running"
      /\ g.entry = entry
      /\ g.resumes = k
      /\ g.began = w.gdb.resumes
      /\ g.overtaken = over
  BY <1>1, <1>2, <1>3 DEF Gdbs, SameRest
<1> HIDE DEF g, e
<1>7. /\ v \in AllWorlds /\ v.st = e.st /\ v.gdb = g /\ v.intake = e.intake
      /\ v.wanted = e.wanted /\ v.adrift = e.adrift
  BY <1>4, <1>6 DEF AllWorlds
<1> HIDE DEF v
<1> QED
  BY <1>4, <1>5, <1>6, <1>7, <1>k, <1>e DEF e, over

\* It keeps the invariant.
LEMMA BegunBase ==
    ASSUME NEW s, NEW w, NEW verb, Base(s, w)
    PROVE  Base(s, Begun(w, verb))
<1> DEFINE e == Ended(w)
           v == Begun(w, verb)
<1>1. w \in AllWorlds
  BY DEF Base, Shape
<1>2. /\ e \in AllWorlds /\ e.st = w.st /\ e.gdb = w.gdb /\ e.adrift = w.adrift
      /\ Base(s, e)
  BY <1>1, EndedIs, EndedBase
<1>3. /\ v \in AllWorlds
      /\ v.st = w.st
      /\ v.adrift = w.adrift
      /\ v.intake = e.intake
      /\ SameRest(v.gdb, w.gdb)
      /\ v.gdb.table = w.gdb.table
  BY <1>1, BegunIs
<1> HIDE DEF e, v
<1>4. Kin(e, v) /\ v.gdb.next = e.gdb.next
  BY <1>2, <1>3 DEF Kin, SameRest
<1>5. Base(s, v)
  BY <1>2, <1>3, <1>4, SilentBase
<1> QED
  BY <1>5 DEF v

\* gdb's own breakpoint on main is asked for by nobody.
LEMMA OnMainApart ==
    ASSUME NEW s, NEW w \in AllWorlds
    PROVE  /\ Apart(s, OnMain(w), FALSE)
           /\ OnMain(w).verb = "insert"
           /\ OnMain(w).typed
           /\ ~OnMain(w).wish
           /\ OnMain(w).bp.tag = 0
           /\ OnMain(w).bp.place = "main"
           /\ OnMain(w).bp.by = "gdb"
           /\ OnMain(w).bp.at = w.gdb.resumes
<1> DEFINE bp == Breakpoint("main", TRUE, 0, "gdb", w.gdb.resumes)
<1>1. w.gdb.resumes \in Nat
  BY DEF AllWorlds, Gdbs
<1>2. bp \in Bps
  BY <1>1, BreakpointType
<1>3. bp.tag = 0 /\ bp.place = "main" /\ bp.by = "gdb" /\ bp.at = w.gdb.resumes
      /\ bp.temporary
  BY DEF Breakpoint
<1> HIDE DEF bp
<1>4. OnMain(w) = [verb |-> "insert", n |-> 0, bp |-> bp, typed |-> TRUE, wish |-> FALSE]
  BY DEF OnMain, Command, bp
<1>5. OnMain(w) \in Commands
  BY <1>2, <1>4 DEF Commands, Verbs
<1> QED
  BY <1>3, <1>4, <1>5 DEF Apart, Legit

\* A record about the process keeps the invariant.
LEMMA SayBase ==
    ASSUME NEW s, NEW w, NEW kind \in Kinds \ ToldKinds, Base(s, w)
    PROVE  Base(s, Says(w, kind))
<1> DEFINE v == Says(w, kind)
<1>1. w \in AllWorlds
  BY DEF Base, Shape
<1>2. /\ v \in AllWorlds
      /\ v.st = w.st
      /\ v.gdb = w.gdb
      /\ v.intake = Append(w.intake, Record(kind, 0, NoBreakpoint))
      /\ v.adrift = w.adrift
  BY <1>1, SaysIs
<1> HIDE DEF v
<1>3. Kin(w, v) /\ v.gdb.table = w.gdb.table /\ v.gdb.next = w.gdb.next
  BY <1>2 DEF Kin
<1>4. Base(s, v)
  BY <1>2, <1>3, SaysBase
<1> QED
  BY <1>4 DEF v

\* A run, with or without gdb's breakpoint on main, keeps the invariant.
LEMMA StartBase ==
    ASSUME NEW s, NEW w, NEW verb, Base(s, w), verb = "runMain" => w.gdb.next <= s.numbers
    PROVE  Base(s, Start(w, verb))
<1> DEFINE b == Begun(w, verb)
           c == OnMain(w)
           m == Insert(b, c, FALSE)
<1>1. w \in AllWorlds
  BY DEF Base, Shape
<1>2. Base(s, b)
  BY BegunBase
<1>3. Start(w, verb) = Says(IF verb = "runMain" THEN m ELSE b, "running")
  BY Zenon DEF Start, Begun, Overtaken, OnMain, Ended
<1>k. "running" \in Kinds \ ToldKinds
  BY DEF Kinds, ToldKinds
<1>4. CASE verb # "runMain"
  <2>1. Base(s, Says(b, "running"))
    BY <1>2, <1>k, SayBase
  <2> QED
    BY <1>3, <1>4, <2>1
<1>5. CASE verb = "runMain"
  <2>1. b.gdb.next = w.gdb.next
    BY <1>1, BegunIs DEF SameRest
  <2>2. Apart(s, c, FALSE) /\ c.verb = "insert"
    BY <1>1, OnMainApart
  <2>3. b.gdb.next <= s.numbers
    BY <1>5, <2>1
  <2> HIDE DEF b, c
  <2>4. Base(s, m)
    BY <1>2, <2>2, <2>3, InsertApart
  <2> HIDE DEF m
  <2>5. Base(s, Says(m, "running"))
    BY <1>k, <2>4, SayBase
  <2> QED
    BY <1>3, <1>5, <2>5
<1> QED
  BY <1>4, <1>5

\* Whether a command is told of, when it is not one the actor waits for.
Unanswered(cmd, unheard) ==
    cmd.verb \in {"insert", "insertNow", "delete", "enable"} => cmd.typed \/ unheard

\* What gdb does with each command it accepts.
LEMMA ExecuteIs ==
    ASSUME NEW w, NEW cmd \in Commands, NEW unheard, Accepts(w, cmd)
    PROVE  /\ cmd.verb \in {"insert", "insertNow"} =>
                 /\ w.gdb.next <= setting.numbers
                 /\ Execute(w, cmd, unheard) = Insert(w, cmd, unheard)
           /\ cmd.verb = "delete" =>
                 /\ cmd.n \in DOMAIN w.gdb.table
                 /\ Execute(w, cmd, unheard) = Delete(w, cmd, unheard)
           /\ cmd.verb = "enable" =>
                 /\ cmd.n \in DOMAIN w.gdb.table
                 /\ Execute(w, cmd, unheard) = Enable(w, cmd, unheard)
           /\ cmd.verb = "continue" =>
                 /\ w.gdb.process = "stopped"
                 /\ Execute(w, cmd, unheard) = Resumed(w)
           /\ cmd.verb = "load" =>
                 /\ w.gdb.process # "running"
                 /\ Execute(w, cmd, unheard) = Load(w)
           /\ cmd.verb = "list" => Execute(w, cmd, unheard) = w
           /\ cmd.verb \in {"run", "runMain", "starti"} =>
                 /\ w.gdb.process # "running"
                 /\ cmd.verb = "runMain" => w.gdb.next <= setting.numbers
                 /\ Execute(w, cmd, unheard) = Start(w, cmd.verb)
           /\ cmd.verb = "insertNow" => ~Made(w, cmd).pending
           /\ \/ cmd.verb \in {"insert", "insertNow"}
              \/ cmd.verb \in {"delete", "enable", "continue", "load", "list"}
              \/ cmd.verb \in {"run", "runMain", "starti"}
<1>1. cmd.verb \in Verbs
  BY DEF Commands
<1>2. CASE cmd.verb \in {"insert", "insertNow"}
  <2>1. /\ w.gdb.next <= setting.numbers
        /\ cmd.verb = "insertNow" => ~Made(w, cmd).pending
    BY <1>2 DEF Accepts, CanMake, Made
  <2>2. Execute(w, cmd, unheard) = Insert(w, cmd, unheard)
    BY <1>2 DEF Execute
  <2> QED
    BY <1>2, <2>1, <2>2
<1>3. CASE cmd.verb = "delete"
  <2>1. cmd.n \in DOMAIN w.gdb.table
    BY <1>3 DEF Accepts
  <2>2. Execute(w, cmd, unheard) = Delete(w, cmd, unheard)
    BY <1>3 DEF Execute
  <2> QED
    BY <1>3, <2>1, <2>2
<1>4. CASE cmd.verb = "enable"
  <2>1. cmd.n \in DOMAIN w.gdb.table
    BY <1>4 DEF Accepts
  <2>2. Execute(w, cmd, unheard) = Enable(w, cmd, unheard)
    BY <1>4 DEF Execute
  <2> QED
    BY <1>4, <2>1, <2>2
<1>5. CASE cmd.verb = "continue"
  <2>1. w.gdb.process = "stopped"
    BY <1>5 DEF Accepts
  <2>2. Execute(w, cmd, unheard) = Resumed(w)
    BY <1>5 DEF Execute, Resumed
  <2> QED
    BY <1>5, <2>1, <2>2
<1>6. CASE cmd.verb = "load"
  <2>1. w.gdb.process # "running"
    BY <1>6 DEF Accepts
  <2>2. Execute(w, cmd, unheard) = Load(w)
    BY <1>6 DEF Execute
  <2> QED
    BY <1>6, <2>1, <2>2
<1>7. CASE cmd.verb = "list"
  <2>2. Execute(w, cmd, unheard) = w
    BY <1>7 DEF Execute
  <2> QED
    BY <1>7, <2>2
<1>8. CASE cmd.verb \in {"run", "runMain", "starti"}
  <2>1. /\ w.gdb.process # "running"
        /\ cmd.verb = "runMain" => w.gdb.next <= setting.numbers
    BY <1>8 DEF Accepts, CanMake
  <2>2. Execute(w, cmd, unheard) = Start(w, cmd.verb)
    BY <1>8 DEF Execute
  <2> QED
    BY <1>8, <2>1, <2>2
<1> QED
  BY <1>1, <1>2, <1>3, <1>4, <1>5, <1>6, <1>7, <1>8 DEF Verbs

\* A command gdb refuses does nothing.
LEMMA ExecuteRefused ==
    ASSUME NEW w, NEW cmd, NEW unheard, ~Accepts(w, cmd)
    PROVE  Execute(w, cmd, unheard) = w
BY Zenon DEF Execute

\* A command executed late, or typed at the console, keeps the invariant.
LEMMA ExecuteBase ==
    ASSUME NEW w, NEW cmd, NEW unheard \in BOOLEAN, Base(setting, w), Legit(setting, cmd),
           Unanswered(cmd, unheard), unheard => setting.late # 0
    PROVE  Base(setting, Execute(w, cmd, unheard))
<1>0. cmd \in Commands
  BY DEF Legit
<1>1. CASE ~Accepts(w, cmd)
  BY <1>1, ExecuteRefused
<1>2. CASE Accepts(w, cmd)
  <2>1. CASE cmd.verb \in {"insert", "insertNow", "delete", "enable"}
    <3>1. Apart(setting, cmd, unheard)
      BY <2>1 DEF Apart, Unanswered
    <3>2. CASE cmd.verb \in {"insert", "insertNow"}
      <4>1. /\ w.gdb.next <= setting.numbers
            /\ Execute(w, cmd, unheard) = Insert(w, cmd, unheard)
        BY <1>0, <1>2, <3>2, ExecuteIs
      <4> QED
        BY <3>1, <3>2, <4>1, InsertApart
    <3>3. CASE cmd.verb = "delete"
      <4>1. /\ cmd.n \in DOMAIN w.gdb.table
            /\ Execute(w, cmd, unheard) = Delete(w, cmd, unheard)
        BY <1>0, <1>2, <3>3, ExecuteIs
      <4> QED
        BY <3>1, <3>3, <4>1, DeleteApart
    <3>4. CASE cmd.verb = "enable"
      <4>1. /\ cmd.n \in DOMAIN w.gdb.table
            /\ Execute(w, cmd, unheard) = Enable(w, cmd, unheard)
        BY <1>0, <1>2, <3>4, ExecuteIs
      <4> QED
        BY <3>1, <3>4, <4>1, EnableApart
    <3> QED
      BY <2>1, <3>2, <3>3, <3>4
  <2>2. CASE cmd.verb = "continue"
    BY <1>0, <1>2, <2>2, ExecuteIs, ProgramBase
  <2>3. CASE cmd.verb = "load"
    BY <1>0, <1>2, <2>3, ExecuteIs, LoadBase
  <2>4. CASE cmd.verb = "list"
    BY <1>0, <1>2, <2>4, ExecuteIs
  <2>5. CASE cmd.verb \in {"run", "runMain", "starti"}
    <3>1. /\ cmd.verb = "runMain" => w.gdb.next <= setting.numbers
          /\ Execute(w, cmd, unheard) = Start(w, cmd.verb)
      BY <1>0, <1>2, <2>5, ExecuteIs
    <3> QED
      BY <3>1, StartBase
  <2> QED
    BY <1>0, <1>2, <2>1, <2>2, <2>3, <2>4, <2>5, ExecuteIs
<1> QED
  BY <1>1, <1>2

\* What the program does during a handler keeps the invariant.
LEMMA MeanwhileBase ==
    ASSUME NEW w, NEW v \in Meanwhile(w), Base(setting, w)
    PROVE  Base(setting, v)
<1>1. \/ v = w \/ v = Pause(w) \/ v = Exit(w)
      \/ \E n \in Numbers : CanHit(w.gdb, n) /\ v = Hit(w, n)
  BY DEF Meanwhile
<1>2. ASSUME NEW n \in Numbers, CanHit(w.gdb, n)
      PROVE  Base(setting, Hit(w, n))
  <2>1. n \in DOMAIN w.gdb.table /\ ~w.gdb.table[n].pending
    BY <1>2 DEF CanHit
  <2> QED
    BY <2>1, HitBase
<1> QED
  BY <1>1, <1>2, ProgramBase

\* The commands that wait in gdb may change; the invariant is about what they
\* could still do.
LEMMA LateBase ==
    ASSUME NEW s, NEW w, NEW v, Base(s, w), v \in AllWorlds, v.st = w.st,
           v.gdb.table = w.gdb.table, v.gdb.next = w.gdb.next,
           v.gdb.inherited = w.gdb.inherited,
           v.intake = w.intake, v.adrift = w.adrift, Lates(s, v),
           Tame(s, v) => \A n \in Doomed(v) : n < v.gdb.next
    PROVE  Base(s, v)
<1>1. Shape(s, v)
  BY DEF Base, Shape, Sized, Goods
<1>2. Agree(s, v)
  BY DEF Base, Agree, AgreesAt, Shows, Queued, Hidden
<1>3. Follows(s, v)
  BY DEF Base, Follows, FollowsAt
<1>4. Same(s, v)
  <2>1. Same(s, w) /\ (Tame(s, w) <=> Tame(s, v))
    BY DEF Base, Tame
  <2> QED
    BY <2>1 DEF Same, NamesAt
<1>5. NamesShown(s, v)
  BY DEF Base, NamesShown
<1> QED
  BY <1>1, <1>2, <1>3, <1>4, <1>5 DEF Base

\* A command that may be left to a gdb that is late.
Fit(s, w, cmd) ==
    /\ Legit(s, cmd)
    /\ cmd.verb = "delete" /\ ~cmd.wish /\ Tame(s, w) => cmd.n < w.gdb.next

Postponed(w, cmd) == [w EXCEPT !.gdb.late = Append(@, cmd)]

\* A command that timed out waits, and nothing else changes.
LEMMA PostponedIs ==
    ASSUME NEW w \in AllWorlds, NEW cmd \in Commands
    PROVE  LET v == Postponed(w, cmd)
           IN /\ v \in AllWorlds
              /\ v.st = w.st
              /\ v.intake = w.intake
              /\ v.wanted = w.wanted
              /\ v.adrift = w.adrift
              /\ v.gdb = [w.gdb EXCEPT !.late = Append(w.gdb.late, cmd)]
<1> DEFINE q == Append(w.gdb.late, cmd)
           g == [w.gdb EXCEPT !.late = q]
           v == [w EXCEPT !.gdb = g]
<1>1. w.gdb \in Gdbs /\ w.gdb.late \in Seq(Commands)
  BY DEF AllWorlds, Gdbs
<1>2. q \in Seq(Commands)
  BY <1>1, AppendProperties
<1>3. Postponed(w, cmd) = v
  BY Zenon DEF Postponed
<1>q. q = Append(w.gdb.late, cmd)
  OBVIOUS
<1> HIDE DEF q
<1>4. g \in Gdbs
  BY <1>1, <1>2 DEF Gdbs
<1>g. g = [w.gdb EXCEPT !.late = q]
  OBVIOUS
<1> HIDE DEF g
<1>5. /\ v \in AllWorlds /\ v.st = w.st /\ v.intake = w.intake
      /\ v.wanted = w.wanted /\ v.adrift = w.adrift /\ v.gdb = g
  BY <1>4 DEF AllWorlds
<1> HIDE DEF v
<1> QED
  BY <1>3, <1>5, <1>q, <1>g

\* That keeps the invariant.
LEMMA PostponedBase ==
    ASSUME NEW s, NEW w, NEW cmd, Base(s, w), Fit(s, w, cmd), s.late # 0
    PROVE  Base(s, Postponed(w, cmd))
<1> DEFINE v == Postponed(w, cmd)
<1>1. w \in AllWorlds /\ cmd \in Commands /\ Shape(s, w) /\ Legit(s, cmd)
  BY DEF Base, Shape, Fit, Legit
<1>2. w.gdb \in Gdbs /\ w.gdb.late \in Seq(Commands)
  BY <1>1 DEF AllWorlds, Gdbs
<1>3. /\ v \in AllWorlds
      /\ v.st = w.st
      /\ v.intake = w.intake
      /\ v.adrift = w.adrift
      /\ v.gdb = [w.gdb EXCEPT !.late = Append(w.gdb.late, cmd)]
  BY <1>1, PostponedIs
<1> HIDE DEF v
<1>4. /\ v.gdb.table = w.gdb.table /\ v.gdb.next = w.gdb.next
      /\ v.gdb.inherited = w.gdb.inherited
      /\ v.gdb.late = Append(w.gdb.late, cmd)
  BY <1>2, <1>3 DEF Gdbs
<1>5. ASSUME NEW i \in 1 .. Len(v.gdb.late)
      PROVE  (i \in 1 .. Len(w.gdb.late) /\ v.gdb.late[i] = w.gdb.late[i]) \/ v.gdb.late[i] = cmd
  <2>1. /\ Len(v.gdb.late) = Len(w.gdb.late) + 1
        /\ \A j \in 1 .. Len(w.gdb.late) : v.gdb.late[j] = w.gdb.late[j]
        /\ v.gdb.late[Len(w.gdb.late) + 1] = cmd
    BY <1>2, <1>4, AppendProperties
  <2>2. Len(w.gdb.late) \in Nat
    BY <1>2, LenProperties
  <2> QED
    BY <2>1, <2>2
<1>6. Lates(s, v)
  BY <1>1, <1>5 DEF Lates, Shape
<1>7. ASSUME Tame(s, v), NEW n \in Doomed(v)
      PROVE  n < v.gdb.next
  <2>1. Tame(s, w)
    BY <1>4, <1>7 DEF Tame
  <2>2. PICK i \in 1 .. Len(v.gdb.late) : v.gdb.late[i].verb = "delete" /\ ~v.gdb.late[i].wish
                                          /\ v.gdb.late[i].n = n
    BY <1>7 DEF Doomed
  <2>3. CASE v.gdb.late[i] = cmd
    BY <1>4, <2>1, <2>2, <2>3 DEF Fit
  <2>4. CASE i \in 1 .. Len(w.gdb.late) /\ v.gdb.late[i] = w.gdb.late[i]
    <3>1. n \in Doomed(w)
      BY <1>7, <2>2, <2>4 DEF Doomed
    <3> QED
      BY <1>4, <2>1, <3>1 DEF Base, Same
  <2> QED
    BY <1>5, <2>3, <2>4
<1>8. Base(s, v)
  BY <1>3, <1>4, <1>6, <1>7, LateBase
<1> QED
  BY <1>8 DEF v

\* What a command may come to.
Succeeds(w, cmd, r) ==
    r.ok /\ w.gdb.up /\ w.gdb.late = <<>> /\ Accepts(w, cmd) /\ r.w = Execute(w, cmd, FALSE)

Left(w, cmd, v) ==
    \/ v = w
    \/ setting.late # 0 /\ v = Postponed(w, cmd)
    \/ setting.late # 0 /\ w.gdb.late = <<>> /\ v \in Meanwhile(Execute(w, cmd, TRUE))

Fails(w, cmd, r) == ~r.ok /\ Left(w, cmd, r.w)

\* gdb refuses none of the commands it has no reason of its own to, and answers in time.
Obeys(w, cmd, r) ==
    setting.late = 0 /\ (~setting.refuse \/ cmd.verb \in {"delete", "enable", "list"}) /\ w.gdb.up
        => (~r.ok => ~Accepts(w, cmd))

\* A command succeeds, or fails in one of three ways; gdb refuses without a
\* reason only what it may.
LEMMA SendIs ==
    ASSUME NEW w, NEW cmd, NEW r \in Send(w, cmd), Base(setting, w)
    PROVE  (Succeeds(w, cmd, r) \/ Fails(w, cmd, r)) /\ Obeys(w, cmd, r)
<1>0. setting.late \in Nat /\ Len(w.gdb.late) \in Nat /\ w \in AllWorlds
      /\ (setting.late = 0 => w.gdb.late = <<>>)
  <2>1. w.gdb.late \in Seq(Commands)
    BY DEF Base, Shape, AllWorlds, Gdbs
  <2>2. Len(w.gdb.late) \in Nat
    BY <2>1, LenProperties
  <2> QED
    BY <2>2 DEF Base, Shape, Sized, Lates
<1>1. CASE ~w.gdb.up
  <2>1. r = [ok |-> FALSE, w |-> w]
    BY <1>1 DEF Send
  <2> QED
    BY <1>1, <2>1 DEF Fails, Left, Obeys
<1>2. CASE w.gdb.up /\ r \in Answered(w, cmd)
  <2>1. w.gdb.late = <<>>
    BY <1>2 DEF Answered
  <2>2. \/ r = [ok |-> Accepts(w, cmd), w |-> Execute(w, cmd, FALSE)]
        \/ /\ r = [ok |-> FALSE, w |-> w]
           /\ setting.refuse /\ cmd.verb \notin {"delete", "enable", "list"}
    BY <1>2, <2>1 DEF Answered
  <2>3. CASE r = [ok |-> Accepts(w, cmd), w |-> Execute(w, cmd, FALSE)]
    <3>1. r.w = Execute(w, cmd, FALSE) /\ r.ok = Accepts(w, cmd)
      BY <2>3
    <3>2. CASE Accepts(w, cmd)
      BY <1>2, <2>1, <3>1, <3>2 DEF Succeeds, Obeys
    <3>3. CASE ~Accepts(w, cmd)
      <4>1. r.w = w
        BY <3>1, <3>3, ExecuteRefused
      <4> QED
        BY <3>1, <3>3, <4>1 DEF Fails, Left, Obeys
    <3> QED
      BY <3>2, <3>3
  <2>4. CASE r = [ok |-> FALSE, w |-> w] /\ setting.refuse
             /\ cmd.verb \notin {"delete", "enable", "list"}
    BY <2>4 DEF Fails, Left, Obeys
  <2> QED
    BY <2>2, <2>3, <2>4
<1>3. CASE w.gdb.up /\ \E v \in TimedOut(w, cmd) : r = [ok |-> FALSE, w |-> v]
  <2>1. PICK v \in TimedOut(w, cmd) : r = [ok |-> FALSE, w |-> v]
    BY <1>3
  <2>2. ~(Len(w.gdb.late) >= setting.late)
    BY <2>1 DEF TimedOut
  <2>3. setting.late # 0
    BY <1>0, <2>2
  <2>4. \/ v = Postponed(w, cmd)
        \/ w.gdb.late = <<>> /\ v \in Meanwhile(Execute(w, cmd, TRUE))
    BY <2>1, <2>2 DEF TimedOut, Postponed
  <2> QED
    BY <2>1, <2>3, <2>4 DEF Fails, Left, Obeys
<1>4. r \in Answered(w, cmd) \/ (\E v \in TimedOut(w, cmd) : r = [ok |-> FALSE, w |-> v]) \/ ~w.gdb.up
  BY DEF Send
<1> QED
  BY <1>1, <1>2, <1>3, <1>4

\* A command that failed keeps the invariant, whatever gdb did of it.
LEMMA LeftBase ==
    ASSUME NEW w, NEW cmd, NEW v, Base(setting, w), Fit(setting, w, cmd), Left(w, cmd, v)
    PROVE  Base(setting, v)
<1>1. CASE v = w
  BY <1>1
<1>2. CASE setting.late # 0 /\ v = Postponed(w, cmd)
  BY <1>2, PostponedBase
<1>3. CASE setting.late # 0 /\ v \in Meanwhile(Execute(w, cmd, TRUE))
  <2>1. Base(setting, Execute(w, cmd, TRUE))
    BY <1>3, ExecuteBase DEF Fit, Unanswered
  <2> QED
    BY <1>3, <2>1, MeanwhileBase
<1> QED
  BY <1>1, <1>2, <1>3 DEF Left

\* A command that leaves no trace but what gdb tells.
LEMMA SendBase ==
    ASSUME NEW w, NEW cmd, NEW r \in Send(w, cmd), Base(setting, w), Fit(setting, w, cmd),
           Unanswered(cmd, FALSE)
    PROVE  Base(setting, r.w)
<1>1. CASE Succeeds(w, cmd, r)
  <2>1. Base(setting, Execute(w, cmd, FALSE))
    BY ExecuteBase DEF Fit
  <2> QED
    BY <1>1, <2>1 DEF Succeeds
<1>2. CASE Fails(w, cmd, r)
  BY <1>2, LeftBase DEF Fails
<1> QED
  BY <1>1, <1>2, SendIs

-----------------------------------------------------------------------------
(* What the actor hears of a breakpoint it asked for, it notes.            *)

SameBut(w, v, n) ==
    \A m \in Nat : m # n =>
        /\ m \in DOMAIN v.gdb.table <=> m \in DOMAIN w.gdb.table
        /\ m \in DOMAIN w.gdb.table => v.gdb.table[m] = w.gdb.table[m]
        /\ m \in DOMAIN v.st.mirror <=> m \in DOMAIN w.st.mirror
        /\ m \in DOMAIN w.st.mirror => v.st.mirror[m] = w.st.mirror[m]
        /\ m \in v.st.ours <=> m \in w.st.ours
        /\ m \in v.adrift <=> m \in w.adrift

GoodAt(s, v, n) ==
    /\ n \in 1 .. s.numbers
    /\ n < v.gdb.next
    /\ n \in DOMAIN v.gdb.table => Good(v.gdb.table[n])
    /\ n \in DOMAIN v.st.mirror => Good(v.st.mirror[n])
    /\ n \in DOMAIN v.gdb.table /\ n \in v.st.ours => v.gdb.table[n].by # "gdb"

NotedAt(s, w, v, n) ==
    /\ n \in DOMAIN v.gdb.table =>
          \/ n \in DOMAIN w.gdb.table /\ Alike(v.gdb.table[n], w.gdb.table[n])
          \/ n = w.gdb.next
    /\ n \in w.adrift => n \in v.adrift
    /\ n \in v.adrift \/ (~Queued(w, n) /\ Shows(v, n))
    /\ Tame(s, w) /\ n \in DOMAIN v.st.mirror /\ v.st.mirror[n].place = "name"
          /\ n \in DOMAIN v.gdb.table =>
             /\ v.gdb.table[n].place = "name"
             /\ v.gdb.table[n].tag = v.st.mirror[n].tag
             /\ s.late = 0 /\ "typed" \notin s.kinds =>
                   v.gdb.table[n].enabled = v.st.mirror[n].enabled
    /\ s.late = 0 /\ n \notin w.gdb.inherited /\ n \in DOMAIN v.gdb.table
          /\ v.gdb.table[n].place = "name" =>
             /\ n \in DOMAIN v.st.mirror
             /\ v.st.mirror[n].place = "name"
             /\ v.gdb.table[n].temporary => n \in v.st.ours

Touched(s, w, v, n) ==
    /\ v \in AllWorlds
    /\ v.gdb.late = w.gdb.late
    /\ v.gdb.inherited = w.gdb.inherited
    /\ v.intake = w.intake
    /\ w.gdb.next <= v.gdb.next /\ v.gdb.next <= s.numbers + 1
    /\ SameBut(w, v, n)
    /\ GoodAt(s, v, n)
    /\ NotedAt(s, w, v, n)

\* Numbers everywhere, so that they can be compared.
LEMMA ShapeNat ==
    ASSUME NEW s, NEW w, Shape(s, w)
    PROVE  /\ \A n \in DOMAIN w.gdb.table : n \in Nat
           /\ \A n \in DOMAIN w.st.mirror : n \in Nat
           /\ \A n \in w.st.ours : n \in Nat
           /\ \A n \in w.adrift : n \in Nat
           /\ \A i \in 1 .. Len(w.intake) : w.intake[i] \in Records /\ w.intake[i].n \in Nat
           /\ DOMAIN w.intake = 1 .. Len(w.intake)
           /\ w.gdb.next \in Nat /\ s.numbers \in Nat
<1>1. w.gdb.table \in Tables /\ w.st.mirror \in Tables /\ w.st.ours \subseteq Nat
      /\ w.adrift \subseteq Nat /\ w.intake \in Seq(Records) /\ w.gdb.next \in Nat
  BY DEF Shape, AllWorlds, Gdbs, Mirrors
<1>2. ASSUME NEW i \in 1 .. Len(w.intake)
      PROVE  w.intake[i] \in Records /\ w.intake[i].n \in Nat
  <2>1. w.intake[i] \in Records
    BY <1>1, ElementOfSeq
  <2> QED
    BY <2>1 DEF Records
<1>3. DOMAIN w.intake = 1 .. Len(w.intake)
  BY <1>1, LenProperties
<1>4. /\ \A n \in DOMAIN w.gdb.table : n \in Nat
      /\ \A n \in DOMAIN w.st.mirror : n \in Nat
  BY <1>1, TableIs
<1>5. s.numbers \in Nat
  BY DEF Shape, Sized
<1> QED
  BY <1>1, <1>2, <1>3, <1>4, <1>5

\* A change of gdb's table and the mirror at one number keeps types and bounds.
LEMMA TouchedShape ==
    ASSUME NEW s, NEW w, NEW v, NEW n, Shape(s, w), Touched(s, w, v, n)
    PROVE  Shape(s, v)
<1>1. /\ v \in AllWorlds /\ w \in AllWorlds
      /\ v.gdb.late = w.gdb.late
      /\ v.gdb.inherited = w.gdb.inherited
      /\ v.intake = w.intake
      /\ SameBut(w, v, n)
  BY DEF Shape, Touched
<1>2. /\ w.gdb.next \in Nat /\ v.gdb.next \in Nat /\ s.numbers \in Nat
      /\ w.gdb.next <= v.gdb.next /\ v.gdb.next <= s.numbers + 1
      /\ n \in 1 .. s.numbers /\ n < v.gdb.next /\ n \in Nat
      /\ w.gdb.next \in 1 .. s.numbers + 1
  BY <1>1 DEF Touched, GoodAt, AllWorlds, Gdbs, Shape, Sized
<1>n. /\ \A m \in DOMAIN v.gdb.table : m \in Nat
      /\ \A m \in DOMAIN v.st.mirror : m \in Nat
      /\ \A m \in v.st.ours : m \in Nat
      /\ \A m \in v.adrift : m \in Nat
  <2>1. v.gdb.table \in Tables /\ v.st.mirror \in Tables /\ v.st.ours \subseteq Nat
        /\ v.adrift \subseteq Nat
    BY <1>1 DEF AllWorlds, Gdbs, Mirrors
  <2> QED
    BY <2>1, TableIs
<1>3. Sized(s, v)
  <2>1. \A m \in DOMAIN v.gdb.table : m \in 1 .. v.gdb.next - 1
    <3> TAKE m \in DOMAIN v.gdb.table
    <3>1. CASE m = n
      BY <1>2, <3>1
    <3>2. CASE m # n
      <4>1. m \in 1 .. w.gdb.next - 1
        BY <1>1, <1>n, <3>2 DEF SameBut, Shape, Sized
      <4> QED
        BY <1>2, <4>1
    <3> QED
      BY <3>1, <3>2
  <2>2. \A m \in v.st.ours : m \in 1 .. v.gdb.next - 1
    <3> TAKE m \in v.st.ours
    <3>1. CASE m = n
      BY <1>2, <3>1
    <3>2. CASE m # n
      <4>1. m \in 1 .. w.gdb.next - 1
        BY <1>1, <1>n, <3>2 DEF SameBut, Shape, Sized
      <4> QED
        BY <1>2, <4>1
    <3> QED
      BY <3>1, <3>2
  <2>3. \A m \in DOMAIN v.st.mirror : m \in 1 .. s.numbers
    BY <1>1, <1>2, <1>n DEF SameBut, Shape, Sized
  <2>4. \A m \in v.adrift : m \in 1 .. s.numbers
    BY <1>1, <1>2, <1>n DEF SameBut, Shape, Sized
  <2>5. v.gdb.next \in 1 .. s.numbers + 1
    BY <1>2
  <2> QED
    BY <1>1, <2>1, <2>2, <2>3, <2>4, <2>5 DEF Shape, Sized
<1>4. Goods(s, v)
  <2>1. \A m \in DOMAIN v.gdb.table : Good(v.gdb.table[m])
    BY <1>1, <1>n DEF SameBut, Shape, Goods, Touched, GoodAt
  <2>2. \A m \in DOMAIN v.st.mirror : Good(v.st.mirror[m])
    BY <1>1, <1>n DEF SameBut, Shape, Goods, Touched, GoodAt
  <2>3. \A m \in DOMAIN v.gdb.table : m \in v.st.ours => v.gdb.table[m].by # "gdb"
    BY <1>1, <1>n DEF SameBut, Shape, Goods, Touched, GoodAt
  <2> QED
    BY <1>1, <2>1, <2>2, <2>3 DEF Shape, Goods
<1>5. Lates(s, v)
  BY <1>1 DEF Shape, Lates
<1> QED
  BY <1>1, <1>3, <1>4, <1>5 DEF Shape

\* It leaves what the records say true.
LEMMA TouchedFollows ==
    ASSUME NEW s, NEW w, NEW v, NEW n, Shape(s, w), Follows(s, w), Touched(s, w, v, n)
    PROVE  Follows(s, v)
<1>1. /\ v.gdb.inherited = w.gdb.inherited
      /\ v.intake = w.intake
      /\ SameBut(w, v, n)
      /\ NotedAt(s, w, v, n)
  BY DEF Touched
<1>2. w.gdb.next \in Nat /\ v.gdb.next \in Nat /\ s.numbers \in Nat
      /\ w.gdb.next <= v.gdb.next
  BY DEF Touched, AllWorlds, Gdbs, Shape, Sized
<1> SUFFICES ASSUME NEW m \in 1 .. s.numbers, m \notin v.adrift \/ m \notin v.gdb.inherited,
                    NEW i \in 1 .. Len(v.intake), v.intake[i].n = m
             PROVE  /\ m < v.gdb.next
                    /\ m \in DOMAIN v.gdb.table => /\ v.intake[i].kind # "deleted"
                                                   /\ Alike(v.intake[i].bp, v.gdb.table[m])
  BY DEF Follows, FollowsAt
<1>3. m \in Nat
  BY <1>2
<1>4. m \notin w.adrift \/ m \notin w.gdb.inherited
  BY <1>1, <1>3 DEF SameBut, NotedAt
<1>5. /\ m < w.gdb.next
      /\ m \in DOMAIN w.gdb.table => /\ w.intake[i].kind # "deleted"
                                     /\ Alike(w.intake[i].bp, w.gdb.table[m])
  BY <1>1, <1>4 DEF Follows, FollowsAt
<1>6. m < v.gdb.next
  BY <1>2, <1>5
<1>7. ASSUME m \in DOMAIN v.gdb.table
      PROVE  m \in DOMAIN w.gdb.table /\ Alike(v.gdb.table[m], w.gdb.table[m])
  <2>1. m # w.gdb.next
    BY <1>2, <1>5
  <2> QED
    BY <1>1, <1>3, <1>7, <2>1 DEF SameBut, NotedAt, Alike
<1> QED
  BY <1>1, <1>5, <1>6, <1>7 DEF Alike

\* It leaves the mirror in agreement with gdb.
LEMMA TouchedAgree ==
    ASSUME NEW s, NEW w, NEW v, NEW n, Shape(s, w), Agree(s, w), Touched(s, w, v, n)
    PROVE  Agree(s, v)
<1>1. /\ v.intake = w.intake
      /\ SameBut(w, v, n)
      /\ NotedAt(s, w, v, n)
  BY DEF Touched
<1> SUFFICES ASSUME NEW m \in 1 .. s.numbers, m \notin v.adrift
             PROVE  AgreesAt(v, m)
  BY DEF Agree
<1>2. m \in Nat /\ DOMAIN w.intake = 1 .. Len(w.intake)
  BY ShapeNat
<1>3. CASE m = n
  <2>1. ~Queued(w, n) /\ Shows(v, n)
    BY <1>1, <1>3 DEF NotedAt
  <2>2. \A i \in 1 .. Len(w.intake) : w.intake[i].n # n
    BY <1>2, <2>1 DEF Queued
  <2> QED
    BY <1>1, <1>3, <2>1, <2>2 DEF AgreesAt, Shows
<1>4. CASE m # n
  <2>1. m \notin w.adrift
    BY <1>1, <1>2, <1>4 DEF SameBut
  <2>2. AgreesAt(w, m)
    BY <2>1 DEF Agree
  <2>3. /\ m \in DOMAIN v.gdb.table <=> m \in DOMAIN w.gdb.table
        /\ m \in DOMAIN w.gdb.table => v.gdb.table[m] = w.gdb.table[m]
        /\ m \in DOMAIN v.st.mirror <=> m \in DOMAIN w.st.mirror
        /\ m \in DOMAIN w.st.mirror => v.st.mirror[m] = w.st.mirror[m]
        /\ m \in v.st.ours <=> m \in w.st.ours
    BY <1>1, <1>2, <1>4 DEF SameBut
  <2>4. \A i \in 1 .. Len(v.intake) :
           v.intake[i].n = m /\ LastAbout(v.intake, i) => Tells(v.intake[i], v.gdb.table)
    BY <1>1, <2>2, <2>3 DEF AgreesAt, Tells
  <2>5. m \in DOMAIN w.gdb.table =>
           (Hidden(v, m, v.gdb.table[m]) <=> Hidden(w, m, w.gdb.table[m]))
    BY <2>3 DEF Hidden
  <2>6. ~Queued(v, m) => Shows(v, m)
    BY <1>1, <2>2, <2>3, <2>5 DEF AgreesAt, Shows, Queued
  <2> QED
    BY <2>2, <2>3, <2>4, <2>5, <2>6 DEF AgreesAt
<1> QED
  BY <1>3, <1>4

\* It leaves names where the mirror has them.
LEMMA TouchedSame ==
    ASSUME NEW s, NEW w, NEW v, NEW n, Shape(s, w), Same(s, w), Touched(s, w, v, n)
    PROVE  Same(s, v)
<1>1. /\ v.gdb.inherited = w.gdb.inherited
      /\ v.gdb.late = w.gdb.late
      /\ v.intake = w.intake
      /\ SameBut(w, v, n)
      /\ NotedAt(s, w, v, n)
      /\ n < v.gdb.next
      /\ v \in AllWorlds
  BY DEF Touched, GoodAt
<1>2. w.gdb.next \in Nat /\ v.gdb.next \in Nat /\ s.numbers \in Nat
      /\ w.gdb.next <= v.gdb.next
  BY DEF Touched, AllWorlds, Gdbs, Shape, Sized
<1>n. \A m \in DOMAIN v.st.mirror : m \in Nat
  <2>1. v.st.mirror \in Tables
    BY <1>1 DEF AllWorlds, Mirrors
  <2> QED
    BY <2>1, TableIs
<1> SUFFICES ASSUME Tame(s, v)
             PROVE  Same(s, v)
  BY DEF Same
<1>3. Tame(s, w)
  BY <1>1 DEF Tame
<1>4. \A m \in Doomed(v) : m < v.gdb.next
  <2>1. Doomed(v) = Doomed(w)
    BY <1>1 DEF Doomed
  <2>2. \A m \in Doomed(w) : m \in Nat /\ m < w.gdb.next
    BY <1>3 DEF Same, Doomed
  <2> QED
    BY <1>2, <2>1, <2>2
<1>5. ASSUME NEW m \in Nat, NEW bp, NamesAt(s, w, m, bp), m # n
      PROVE  NamesAt(s, v, m, bp)
  <2>1. m < w.gdb.next => m < v.gdb.next
    BY <1>2
  <2>2. /\ m \in DOMAIN v.gdb.table <=> m \in DOMAIN w.gdb.table
        /\ m \in DOMAIN w.gdb.table => v.gdb.table[m] = w.gdb.table[m]
    BY <1>1, <1>5 DEF SameBut
  <2> QED
    BY <1>5, <2>1, <2>2 DEF NamesAt
<1>6. ASSUME NEW m \in DOMAIN v.st.mirror
      PROVE  /\ NamesAt(s, v, m, v.st.mirror[m])
             /\ s.late = 0 /\ "typed" \notin s.kinds =>
                   (v.st.mirror[m].place = "name" /\ m \in DOMAIN v.gdb.table =>
                       v.st.mirror[m].enabled = v.gdb.table[m].enabled)
  <2>1. CASE m = n
    BY <1>1, <1>3, <2>1 DEF NotedAt, NamesAt
  <2>2. CASE m # n
    <3>1. /\ m \in Nat
          /\ m \in DOMAIN w.st.mirror /\ v.st.mirror[m] = w.st.mirror[m]
          /\ m \in DOMAIN v.gdb.table <=> m \in DOMAIN w.gdb.table
          /\ m \in DOMAIN w.gdb.table => v.gdb.table[m] = w.gdb.table[m]
      BY <1>1, <1>n, <2>2 DEF SameBut
    <3>2. NamesAt(s, w, m, w.st.mirror[m])
      BY <1>3, <3>1 DEF Same
    <3>3. NamesAt(s, v, m, v.st.mirror[m])
      BY <1>5, <2>2, <3>1, <3>2
    <3>4. s.late = 0 /\ "typed" \notin s.kinds =>
             (w.st.mirror[m].place = "name" /\ m \in DOMAIN w.gdb.table =>
                 w.st.mirror[m].enabled = w.gdb.table[m].enabled)
      BY <1>3, <3>1 DEF Same
    <3> QED
      BY <3>1, <3>3, <3>4
  <2> QED
    BY <2>1, <2>2
<1>7. ASSUME NEW i \in 1 .. Len(v.intake), v.intake[i].kind \in {"created", "modified"}
      PROVE  /\ NamesAt(s, v, v.intake[i].n, v.intake[i].bp)
             /\ v.intake[i].bp.place = "name" => "typed" \in s.kinds
  <2>1. /\ NamesAt(s, w, w.intake[i].n, w.intake[i].bp)
        /\ w.intake[i].bp.place = "name" => "typed" \in s.kinds
    BY <1>1, <1>3, <1>7 DEF Same
  <2>2. w.intake[i].n \in Nat
    BY <1>1, ShapeNat
  <2>3. CASE w.intake[i].n # n
    BY <1>1, <1>5, <2>1, <2>2, <2>3
  <2>4. CASE w.intake[i].n = n
    <3>1. w.intake[i].bp.place = "name" => n # w.gdb.next
      <4>1. w.intake[i].bp.place = "name" => n < w.gdb.next
        BY <2>1, <2>4 DEF NamesAt
      <4> QED
        BY <1>2, <2>2, <2>4, <4>1
    <3>2. NamesAt(s, v, n, w.intake[i].bp)
      BY <1>1, <2>1, <2>4, <3>1 DEF NamesAt, NotedAt, Alike
    <3> QED
      BY <1>1, <2>1, <2>4, <3>2
  <2> QED
    BY <2>3, <2>4
<1> QED
  BY <1>4, <1>6, <1>7 DEF Same

\* It makes no breakpoint on a name unheard of.
LEMMA TouchedNames ==
    ASSUME NEW s, NEW w, NEW v, NEW n, Shape(s, w), NamesShown(s, w), Touched(s, w, v, n)
    PROVE  NamesShown(s, v)
<1> SUFFICES ASSUME s.late = 0, NEW m \in DOMAIN v.gdb.table,
                    m \notin v.gdb.inherited, v.gdb.table[m].place = "name"
             PROVE  /\ m \in DOMAIN v.st.mirror
                    /\ v.st.mirror[m].place = "name"
                    /\ v.gdb.table[m].temporary => m \in v.st.ours
  BY DEF NamesShown
<1>1. v.gdb.inherited = w.gdb.inherited /\ SameBut(w, v, n) /\ NotedAt(s, w, v, n)
      /\ v \in AllWorlds
  BY DEF Touched
<1>2. CASE m = n
  BY <1>1, <1>2 DEF NotedAt
<1>3. CASE m # n
  <2>1. v.gdb.table \in Tables
    BY <1>1 DEF AllWorlds, Gdbs
  <2>2. m \in Nat
    BY <2>1, TableIs
  <2> QED
    BY <1>1, <1>3, <2>2 DEF SameBut, NamesShown
<1> QED
  BY <1>2, <1>3

\* A change of gdb's table and the mirror at one number keeps the invariant.
LEMMA TouchedBase ==
    ASSUME NEW s, NEW w, NEW v, NEW n, Base(s, w), Touched(s, w, v, n)
    PROVE  Base(s, v)
BY TouchedShape, TouchedFollows, TouchedAgree, TouchedSame, TouchedNames DEF Base

\* All the actor knows but its breakpoints.
SameActor(a, b) ==
    /\ a.runState = b.runState
    /\ a.exe = b.exe
    /\ a.deferred = b.deferred
    /\ a.issued = b.issued
    /\ a.missed = b.missed

\* The actor's breakpoints replaced.
Mirrored(w, t, o) == [w EXCEPT !.st = [w.st EXCEPT !.mirror = t, !.ours = o]]

\* Another mirror leaves everything else.
LEMMA MirroredIs ==
    ASSUME NEW w \in AllWorlds, NEW t \in Tables, NEW o \in SUBSET Nat
    PROVE  LET v == Mirrored(w, t, o)
           IN /\ v \in AllWorlds
              /\ v.st.mirror = t
              /\ v.st.ours = o
              /\ SameActor(v.st, w.st)
              /\ v.gdb = w.gdb
              /\ v.intake = w.intake
              /\ v.wanted = w.wanted
              /\ v.adrift = w.adrift
<1> DEFINE a == [w.st EXCEPT !.mirror = t, !.ours = o]
           v == [w EXCEPT !.st = a]
<1>1. w.st \in Mirrors
  BY DEF AllWorlds
<1>2. a \in Mirrors /\ a.mirror = t /\ a.ours = o /\ SameActor(a, w.st)
  BY <1>1 DEF Mirrors, SameActor
<1>3. Mirrored(w, t, o) = v
  BY DEF Mirrored
<1> HIDE DEF a
<1>4. /\ v \in AllWorlds /\ v.st = a /\ v.gdb = w.gdb /\ v.intake = w.intake
      /\ v.wanted = w.wanted /\ v.adrift = w.adrift
  BY <1>2 DEF AllWorlds
<1> HIDE DEF v
<1> QED
  BY <1>2, <1>3, <1>4

\* Forgetting a breakpoint takes it from the mirror and from the server's own.
LEMMA ForgetIs ==
    ASSUME NEW w \in AllWorlds, NEW n \in Nat
    PROVE  LET v == Forget(w, n)
           IN /\ v \in AllWorlds
              /\ v.st.mirror = Without(w.st.mirror, n)
              /\ v.st.ours = w.st.ours \ {n}
              /\ SameActor(v.st, w.st)
              /\ v.gdb = w.gdb
              /\ v.intake = w.intake
              /\ v.wanted = w.wanted
              /\ v.adrift = w.adrift
<1> DEFINE t == Without(w.st.mirror, n)
           o == w.st.ours \ {n}
<1>1. w.st \in Mirrors /\ w.st.mirror \in Tables /\ w.st.ours \in SUBSET Nat
  BY DEF AllWorlds, Mirrors
<1>2. t \in Tables /\ o \in SUBSET Nat
  BY <1>1, TableWithout
<1>3. Forget(w, n) = Mirrored(w, t, o)
  <2>1. Forget(w, n) = [w EXCEPT !.st.mirror = t, !.st.ours = o]
    BY Zenon DEF Forget
  <2>2. [w EXCEPT !.st.mirror = t, !.st.ours = o] = Mirrored(w, t, o)
    BY <1>1 DEF Mirrored, AllWorlds, Mirrors
  <2> QED
    BY <2>1, <2>2
<1> HIDE DEF t, o
<1> QED
  BY <1>2, <1>3, MirroredIs DEF t, o

\* The breakpoint just made, noted.
Registered(v) ==
    Mirrored(v, With(v.st.mirror, Newest(v), v.gdb.table[Newest(v)]), v.st.ours \cup {Newest(v)})

\* Registering a breakpoint the server made, as the code does it, by its
\* definition here.
LEMMA OursIs ==
    ASSUME NEW w \in AllWorlds
    PROVE  [w EXCEPT !.st.ours = @ \cup {Newest(w)},
                     !.st.mirror = With(@, Newest(w), w.gdb.table[Newest(w)])] = Registered(w)
<1> DEFINE t == With(w.st.mirror, Newest(w), w.gdb.table[Newest(w)])
           o == w.st.ours \cup {Newest(w)}
<1>1. [w EXCEPT !.st.ours = @ \cup {Newest(w)},
                !.st.mirror = With(@, Newest(w), w.gdb.table[Newest(w)])]
          = [w EXCEPT !.st.ours = o, !.st.mirror = t]
  BY Zenon
<1>2. Registered(w) = Mirrored(w, t, o)
  BY DEF Registered
<1> HIDE DEF t, o
<1>3. [w EXCEPT !.st.ours = o, !.st.mirror = t] = Mirrored(w, t, o)
  BY DEF Mirrored, AllWorlds, Mirrors
<1> QED
  BY <1>1, <1>2, <1>3

\* An insert that was answered is in gdb's table and in the mirror.
LEMMA RegisteredIs ==
    ASSUME NEW w \in AllWorlds, NEW cmd \in Commands, ~cmd.typed
    PROVE  LET v == Registered(Insert(w, cmd, FALSE))
               n == w.gdb.next
               bp == Made(w, cmd)
           IN /\ v \in AllWorlds
              /\ v.gdb.table = With(w.gdb.table, n, bp)
              /\ v.gdb.next = n + 1
              /\ SameStatus(v.gdb, w.gdb)
              /\ v.st.mirror = With(w.st.mirror, n, bp)
              /\ v.st.ours = w.st.ours \cup {n}
              /\ SameActor(v.st, w.st)
              /\ v.intake = w.intake
              /\ v.wanted = Wished(w, bp.tag, cmd.wish)
              /\ v.adrift = w.adrift \cup Lost(w, cmd, n, FALSE)
<1> DEFINE n == w.gdb.next
           bp == Made(w, cmd)
           i == Insert(w, cmd, FALSE)
           v == Registered(i)
<1>1. w.gdb \in Gdbs /\ w.gdb.table \in Tables /\ n \in Nat /\ w.st.mirror \in Tables
      /\ w.st.ours \in SUBSET Nat
  BY DEF AllWorlds, Gdbs, Mirrors
<1>2. bp \in Bps
  BY MadeIs
<1>3. /\ i \in AllWorlds
      /\ i.st = w.st
      /\ i.gdb.table = With(w.gdb.table, n, bp)
      /\ i.gdb.next = n + 1
      /\ SameStatus(i.gdb, w.gdb)
      /\ i.wanted = Wished(w, bp.tag, cmd.wish)
      /\ i.adrift = w.adrift \cup Lost(w, cmd, n, FALSE)
      /\ i.intake = w.intake
  BY InsertIs
<1> HIDE DEF n, bp, i
<1>4. With(w.gdb.table, n, bp)[n] = bp
  BY <1>1, <1>2, TableWith
<1>5. Newest(i) = n
  BY <1>1, <1>3 DEF Newest
<1>6. i.gdb.table[Newest(i)] = bp
  BY <1>3, <1>4, <1>5
<1> DEFINE t == With(w.st.mirror, n, bp)
           o == w.st.ours \cup {n}
<1>7. t \in Tables /\ o \in SUBSET Nat
  BY <1>1, <1>2, TableWith
<1>8. v = Mirrored(i, t, o)
  BY <1>3, <1>5, <1>6 DEF Registered
<1> HIDE DEF t, o, v
<1>9. /\ v \in AllWorlds
      /\ v.st.mirror = t
      /\ v.st.ours = o
      /\ SameActor(v.st, i.st)
      /\ v.gdb = i.gdb
      /\ v.intake = i.intake
      /\ v.wanted = i.wanted
      /\ v.adrift = i.adrift
  <2>1. i \in AllWorlds /\ t \in Tables /\ o \in SUBSET Nat
    BY <1>3, <1>7
  <2> DEFINE u == Mirrored(i, t, o)
  <2>2. /\ u \in AllWorlds
        /\ u.st.mirror = t
        /\ u.st.ours = o
        /\ SameActor(u.st, i.st)
        /\ u.gdb = i.gdb
        /\ u.intake = i.intake
        /\ u.wanted = i.wanted
        /\ u.adrift = i.adrift
    BY <2>1, MirroredIs
  <2> HIDE DEF u
  <2>3. v = u
    BY <1>8 DEF u
  <2> QED
    BY <2>2, <2>3
<1> QED
  BY <1>3, <1>9 DEF t, o, v, i, n, bp

\* A table with one breakpoint put in it, or taken from it.
Put(u, t, n, bp) ==
    /\ DOMAIN u = DOMAIN t \cup {n}
    /\ u[n] = bp
    /\ \A m \in DOMAIN t : m # n => u[m] = t[m]

Cut(u, t, n) ==
    /\ DOMAIN u = DOMAIN t \ {n}
    /\ \A m \in DOMAIN t : m # n => u[m] = t[m]

\* With makes the first.
LEMMA PutTable ==
    ASSUME NEW t \in Tables, NEW n \in Nat, NEW bp \in Bps, NEW u, u = With(t, n, bp)
    PROVE  Put(u, t, n, bp)
BY TableWith DEF Put

\* Without makes the second.
LEMMA CutTable ==
    ASSUME NEW t \in Tables, NEW n \in Nat, NEW u, u = Without(t, n)
    PROVE  Cut(u, t, n)
<1>1. DOMAIN Without(t, n) = DOMAIN t \ {n}
      /\ \A m \in DOMAIN t \ {n} : Without(t, n)[m] = t[m]
  BY TableWithout
<1> QED
  BY <1>1 DEF Cut

\* An insert that was answered changes gdb and the mirror at the new number.
LEMMA RegisteredTouches ==
    ASSUME NEW s, NEW w, NEW cmd, Base(s, w), Legit(s, cmd), ~cmd.typed,
           cmd.verb \in {"insert", "insertNow"}, cmd.bp.by # "gdb", w.gdb.next <= s.numbers
    PROVE  Touched(s, w, Registered(Insert(w, cmd, FALSE)), w.gdb.next)
<1> DEFINE n == w.gdb.next
           bp == Made(w, cmd)
           v == Registered(Insert(w, cmd, FALSE))
<1>1. /\ w \in AllWorlds /\ Shape(s, w) /\ cmd \in Commands
      /\ w.gdb.table \in Tables /\ w.st.mirror \in Tables /\ n \in Nat /\ s.numbers \in Nat
  BY DEF Base, Shape, AllWorlds, Gdbs, Mirrors, Legit, Sized
<1>2. /\ v \in AllWorlds
      /\ v.gdb.table = With(w.gdb.table, n, bp)
      /\ v.gdb.next = n + 1
      /\ SameStatus(v.gdb, w.gdb)
      /\ v.st.mirror = With(w.st.mirror, n, bp)
      /\ v.st.ours = w.st.ours \cup {n}
      /\ v.intake = w.intake
      /\ v.adrift = w.adrift \cup Lost(w, cmd, n, FALSE)
  BY <1>1, RegisteredIs
<1>3. /\ bp \in Bps /\ Alike(bp, cmd.bp)
      /\ bp.place = "name" => bp.pending
  BY <1>1, MadeIs
<1>n. n = w.gdb.next
  OBVIOUS
<1> HIDE DEF n, bp, v
<1>4. n \in 1 .. s.numbers /\ n < v.gdb.next /\ v.gdb.next <= s.numbers + 1
      /\ w.gdb.next <= v.gdb.next
  BY <1>1, <1>2, <1>n DEF Shape, Sized
<1>5. Good(bp) /\ bp.by # "gdb"
  BY <1>3 DEF Good, Alike, Legit
<1>6. /\ \A m : m \in DOMAIN v.gdb.table <=> m = n \/ m \in DOMAIN w.gdb.table
      /\ v.gdb.table[n] = bp
      /\ \A m \in DOMAIN w.gdb.table : m # n => v.gdb.table[m] = w.gdb.table[m]
  <2>1. Put(v.gdb.table, w.gdb.table, n, bp)
    BY <1>1, <1>2, <1>3, PutTable
  <2> QED
    BY <2>1 DEF Put
<1>7. /\ \A m : m \in DOMAIN v.st.mirror <=> m = n \/ m \in DOMAIN w.st.mirror
      /\ v.st.mirror[n] = bp
      /\ \A m \in DOMAIN w.st.mirror : m # n => v.st.mirror[m] = w.st.mirror[m]
  <2>1. Put(v.st.mirror, w.st.mirror, n, bp)
    BY <1>1, <1>2, <1>3, PutTable
  <2> QED
    BY <2>1 DEF Put
<1>8. \A m : m \in v.adrift <=> m \in w.adrift \/ (m = n /\ Queued(w, n))
  BY <1>2 DEF Lost
<1>9. SameBut(w, v, n)
  BY <1>2, <1>6, <1>7, <1>8 DEF SameBut
<1>10. GoodAt(s, v, n)
  BY <1>4, <1>5, <1>6, <1>7 DEF GoodAt
<1>11. Shows(v, n)
  BY <1>2, <1>6, <1>7 DEF Shows, Hidden
<1>12. NotedAt(s, w, v, n)
  BY <1>2, <1>6, <1>7, <1>8, <1>11, <1>n DEF NotedAt
<1>13. Touched(s, w, v, n)
  BY <1>2, <1>4, <1>9, <1>10, <1>12 DEF Touched, SameStatus
<1> QED
  BY <1>13 DEF v, n

\* So it keeps the invariant.
LEMMA RegisteredBase ==
    ASSUME NEW s, NEW w, NEW cmd, Base(s, w), Legit(s, cmd), ~cmd.typed,
           cmd.verb \in {"insert", "insertNow"}, cmd.bp.by # "gdb", w.gdb.next <= s.numbers
    PROVE  Base(s, Registered(Insert(w, cmd, FALSE)))
BY RegisteredTouches, TouchedBase

\* A delete that was answered takes a breakpoint from gdb's table and from the
\* mirror.
LEMMA DroppedIs ==
    ASSUME NEW w \in AllWorlds, NEW cmd \in Commands, ~cmd.typed, cmd.n \in DOMAIN w.gdb.table
    PROVE  LET v == Forget(Delete(w, cmd, FALSE), cmd.n)
               n == cmd.n
           IN /\ v \in AllWorlds
              /\ v.gdb.table = Without(w.gdb.table, n)
              /\ v.gdb.next = w.gdb.next
              /\ SameStatus(v.gdb, w.gdb)
              /\ v.st.mirror = Without(w.st.mirror, n)
              /\ v.st.ours = w.st.ours \ {n}
              /\ SameActor(v.st, w.st)
              /\ v.intake = w.intake
              /\ v.wanted = {u \in w.wanted : cmd.wish => u.tag # w.gdb.table[n].tag}
              /\ v.adrift = w.adrift \cup Lost(w, cmd, n, FALSE)
<1> DEFINE n == cmd.n
           i == Delete(w, cmd, FALSE)
           v == Forget(i, n)
<1>1. n \in Nat
  BY DEF Commands
<1>2. /\ i \in AllWorlds
      /\ i.st = w.st
      /\ i.gdb.table = Without(w.gdb.table, n)
      /\ i.gdb.next = w.gdb.next
      /\ SameStatus(i.gdb, w.gdb)
      /\ i.wanted = {u \in w.wanted : cmd.wish => u.tag # w.gdb.table[n].tag}
      /\ i.adrift = w.adrift \cup Lost(w, cmd, n, FALSE)
      /\ i.intake = w.intake
  BY DeleteIs
<1> HIDE DEF i, n
<1>3. /\ v \in AllWorlds
      /\ v.st.mirror = Without(i.st.mirror, n)
      /\ v.st.ours = i.st.ours \ {n}
      /\ SameActor(v.st, i.st)
      /\ v.gdb = i.gdb
      /\ v.intake = i.intake
      /\ v.wanted = i.wanted
      /\ v.adrift = i.adrift
  <2>1. i \in AllWorlds
    BY <1>2
  <2> QED
    BY <1>1, <2>1, ForgetIs
<1> HIDE DEF v
<1> QED
  BY <1>2, <1>3 DEF v, i, n

\* It changes both at that number.
LEMMA DroppedTouches ==
    ASSUME NEW s, NEW w, NEW cmd, Base(s, w), Legit(s, cmd), ~cmd.typed,
           cmd.verb = "delete", cmd.n \in DOMAIN w.gdb.table
    PROVE  Touched(s, w, Forget(Delete(w, cmd, FALSE), cmd.n), cmd.n)
<1> DEFINE n == cmd.n
           v == Forget(Delete(w, cmd, FALSE), n)
<1>1. /\ w \in AllWorlds /\ Shape(s, w) /\ cmd \in Commands
      /\ w.gdb.table \in Tables /\ w.st.mirror \in Tables
      /\ n \in DOMAIN w.gdb.table
  BY DEF Base, Shape, AllWorlds, Gdbs, Mirrors, Legit
<1>2. /\ v \in AllWorlds
      /\ v.gdb.table = Without(w.gdb.table, n)
      /\ v.gdb.next = w.gdb.next
      /\ SameStatus(v.gdb, w.gdb)
      /\ v.st.mirror = Without(w.st.mirror, n)
      /\ v.st.ours = w.st.ours \ {n}
      /\ v.intake = w.intake
      /\ v.adrift = w.adrift \cup Lost(w, cmd, n, FALSE)
  BY <1>1, DroppedIs
<1>3. n \in Nat
  BY <1>1 DEF Commands
<1> HIDE DEF n, v
<1>4. n \in 1 .. s.numbers /\ n < v.gdb.next /\ v.gdb.next <= s.numbers + 1
      /\ w.gdb.next <= v.gdb.next
  BY <1>1, <1>2 DEF Shape, Sized
<1>6. Cut(v.gdb.table, w.gdb.table, n) /\ Cut(v.st.mirror, w.st.mirror, n)
  BY <1>1, <1>2, <1>3, CutTable
<1>8. \A m : m \in v.adrift <=> m \in w.adrift \/ (m = n /\ Queued(w, n))
  BY <1>2 DEF Lost
<1>9. SameBut(w, v, n)
  BY <1>2, <1>6, <1>8 DEF SameBut, Cut
<1>10. GoodAt(s, v, n)
  BY <1>4, <1>6 DEF GoodAt, Cut
<1>11. Shows(v, n)
  BY <1>6 DEF Shows, Cut
<1>12. NotedAt(s, w, v, n)
  BY <1>6, <1>8, <1>11 DEF NotedAt, Cut
<1>13. Touched(s, w, v, n)
  BY <1>2, <1>4, <1>9, <1>10, <1>12 DEF Touched, SameStatus
<1> QED
  BY <1>13 DEF v, n

\* So it keeps the invariant.
LEMMA DroppedBase ==
    ASSUME NEW s, NEW w, NEW cmd, Base(s, w), Legit(s, cmd), ~cmd.typed,
           cmd.verb = "delete", cmd.n \in DOMAIN w.gdb.table
    PROVE  Base(s, Forget(Delete(w, cmd, FALSE), cmd.n))
BY DroppedTouches, TouchedBase

\* gdb's own breakpoint on main, of which the actor keeps no note.
LEMMA HiddenTouches ==
    ASSUME NEW s, NEW w, NEW cmd, Base(s, w), Legit(s, cmd), ~cmd.typed,
           cmd.verb \in {"insert", "insertNow"}, cmd.bp.by = "gdb", w.gdb.next <= s.numbers
    PROVE  Touched(s, w, Insert(w, cmd, FALSE), w.gdb.next)
<1> DEFINE n == w.gdb.next
           bp == Made(w, cmd)
           v == Insert(w, cmd, FALSE)
<1>1. /\ w \in AllWorlds /\ Shape(s, w) /\ cmd \in Commands
      /\ w.gdb.table \in Tables /\ n \in Nat /\ s.numbers \in Nat
  BY DEF Base, Shape, AllWorlds, Gdbs, Legit, Sized
<1>2. /\ v \in AllWorlds
      /\ v.st = w.st
      /\ v.gdb.table = With(w.gdb.table, n, bp)
      /\ v.gdb.next = n + 1
      /\ SameStatus(v.gdb, w.gdb)
      /\ v.intake = w.intake
      /\ v.adrift = w.adrift \cup Lost(w, cmd, n, FALSE)
  BY <1>1, InsertIs
<1>3. /\ bp \in Bps /\ Alike(bp, cmd.bp)
      /\ bp.place = "name" => bp.pending
  BY <1>1, MadeIs
<1>n. n = w.gdb.next
  OBVIOUS
<1> HIDE DEF n, bp, v
<1>4. n \in 1 .. s.numbers /\ n < v.gdb.next /\ v.gdb.next <= s.numbers + 1
      /\ w.gdb.next <= v.gdb.next
  BY <1>1, <1>2, <1>n DEF Shape, Sized
<1>5. Good(bp) /\ bp.by = "gdb" /\ bp.place = "main" /\ bp.temporary
  BY <1>3 DEF Good, Alike, Legit
<1>6. Put(v.gdb.table, w.gdb.table, n, bp)
  BY <1>1, <1>2, <1>3, PutTable
<1>7. n \notin DOMAIN w.gdb.table /\ n \notin v.st.ours
  BY <1>1, <1>2, <1>n DEF Shape, Sized
<1>8. \A m : m \in v.adrift <=> m \in w.adrift \/ (m = n /\ Queued(w, n))
  BY <1>2 DEF Lost
<1>9. SameBut(w, v, n)
  BY <1>2, <1>6, <1>8 DEF SameBut, Put
<1>10. GoodAt(s, v, n)
  BY <1>1, <1>2, <1>4, <1>5, <1>6, <1>7 DEF GoodAt, Put, Shape, Goods
<1>11. n \notin v.adrift => ~Queued(w, n) /\ Shows(v, n)
  <2> SUFFICES ASSUME n \notin v.adrift
               PROVE  ~Queued(w, n) /\ Shows(v, n)
    OBVIOUS
  <2>1. n \notin w.adrift /\ ~Queued(w, n)
    BY <1>8
  <2>2. Shows(w, n)
    BY <1>4, <2>1 DEF Base, Agree, AgreesAt
  <2>3. n \notin DOMAIN v.st.mirror
    BY <1>2, <1>7, <2>2 DEF Shows
  <2> QED
    BY <1>5, <1>6, <1>7, <2>1, <2>3 DEF Shows, Hidden, Put
<1>12. Tame(s, w) => (n \in DOMAIN v.st.mirror => v.st.mirror[n].place # "name")
  <2> SUFFICES ASSUME Tame(s, w), n \in DOMAIN v.st.mirror, v.st.mirror[n].place = "name"
               PROVE  FALSE
    OBVIOUS
  <2>1. n < w.gdb.next
    BY <1>2 DEF Base, Same, NamesAt
  <2> QED
    BY <1>1, <1>n, <2>1
<1>13. NotedAt(s, w, v, n)
  BY <1>5, <1>6, <1>8, <1>11, <1>12, <1>n DEF NotedAt, Put
<1>14. Touched(s, w, v, n)
  BY <1>2, <1>4, <1>9, <1>10, <1>13 DEF Touched, SameStatus
<1> QED
  BY <1>14 DEF v, n

\* A breakpoint of gdb's own the mirror hides keeps the invariant.
LEMMA HiddenBase ==
    ASSUME NEW s, NEW w, NEW cmd, Base(s, w), Legit(s, cmd), ~cmd.typed,
           cmd.verb \in {"insert", "insertNow"}, cmd.bp.by = "gdb", w.gdb.next <= s.numbers
    PROVE  Base(s, Insert(w, cmd, FALSE))
BY HiddenTouches, TouchedBase

\* A breakpoint enabled or disabled, noted if it is shown.
Noted(v, n, on) == Mirrored(v, With(v.st.mirror, n, Turned(v.st.mirror[n], on)), v.st.ours)

\* The mirror's entry enabled or disabled, and nothing else.
LEMMA NotedIs ==
    ASSUME NEW w \in AllWorlds, NEW n \in DOMAIN w.st.mirror, NEW on \in BOOLEAN
    PROVE  LET v == Noted(w, n, on)
           IN /\ v \in AllWorlds
              /\ v.st.mirror = With(w.st.mirror, n, Turned(w.st.mirror[n], on))
              /\ v.st.ours = w.st.ours
              /\ SameActor(v.st, w.st)
              /\ v.gdb = w.gdb
              /\ v.intake = w.intake
              /\ v.wanted = w.wanted
              /\ v.adrift = w.adrift
<1> DEFINE b == Turned(w.st.mirror[n], on)
           t == With(w.st.mirror, n, b)
           o == w.st.ours
           v == Noted(w, n, on)
<1>1. w.st \in Mirrors /\ w.st.mirror \in Tables /\ o \in SUBSET Nat
  BY DEF AllWorlds, Mirrors
<1>2. w.st.mirror[n] \in Bps /\ n \in Nat
  BY <1>1, TableBp
<1>3. b \in Bps
  BY <1>2, TurnedIs
<1> HIDE DEF b
<1>4. t \in Tables
  BY <1>1, <1>2, <1>3, TableWith
<1>5. v = Mirrored(w, t, o)
  BY Zenon DEF Noted, b
<1> HIDE DEF t, o, v
<1>6. /\ v \in AllWorlds
      /\ v.st.mirror = t
      /\ v.st.ours = o
      /\ SameActor(v.st, w.st)
      /\ v.gdb = w.gdb
      /\ v.intake = w.intake
      /\ v.wanted = w.wanted
      /\ v.adrift = w.adrift
  BY <1>1, <1>4, <1>5, MirroredIs
<1> QED
  BY <1>6 DEF v, t, o, b

\* What the code assigns is that.
LEMMA SetIs ==
    ASSUME NEW w \in AllWorlds, NEW n \in DOMAIN w.st.mirror, NEW on \in BOOLEAN
    PROVE  [w EXCEPT !.st.mirror[n].enabled = on] = Noted(w, n, on)
<1> DEFINE b == Turned(w.st.mirror[n], on)
           t == With(w.st.mirror, n, b)
           r == [w.st.mirror EXCEPT ![n] = b]
<1>1. w.st \in Mirrors /\ w.st.mirror \in Tables
  BY DEF AllWorlds, Mirrors
<1>2. [w EXCEPT !.st.mirror[n].enabled = on] = [w EXCEPT !.st.mirror = r]
  BY Zenon DEF Turned
<1>3. t = r
  <2>1. w.st.mirror = [m \in DOMAIN w.st.mirror |-> w.st.mirror[m]]
    BY <1>1, TableIs
  <2> HIDE DEF b
  <2>2. DOMAIN w.st.mirror \cup {n} = DOMAIN w.st.mirror
    OBVIOUS
  <2> QED
    BY <2>1, <2>2 DEF With
<1>4. Noted(w, n, on) = Mirrored(w, t, w.st.ours)
  BY Zenon DEF Noted
<1> HIDE DEF t, r
<1>5. [w EXCEPT !.st.mirror = r] = Mirrored(w, r, w.st.ours)
  BY <1>1 DEF Mirrored, AllWorlds, Mirrors
<1> QED
  BY <1>2, <1>3, <1>4, <1>5

\* An enable that was answered changes gdb and the mirror at its number.
LEMMA SwitchTouches ==
    ASSUME NEW s, NEW w, NEW cmd, NEW v, Base(s, w), Legit(s, cmd), ~cmd.typed,
           cmd.verb = "enable", cmd.n \in DOMAIN w.gdb.table,
           cmd.n \in DOMAIN w.st.mirror =>
              v = Noted(Enable(w, cmd, FALSE), cmd.n, cmd.bp.enabled),
           cmd.n \notin DOMAIN w.st.mirror => v = Enable(w, cmd, FALSE)
    PROVE  Touched(s, w, v, cmd.n)
<1> DEFINE n == cmd.n
           on == cmd.bp.enabled
           old == w.gdb.table[n]
           bp == Turned(old, on)
           e == Enable(w, cmd, FALSE)
           b == Turned(w.st.mirror[n], on)
<1>1. /\ w \in AllWorlds /\ Shape(s, w) /\ cmd \in Commands
      /\ w.gdb.table \in Tables /\ w.st.mirror \in Tables /\ on \in BOOLEAN
      /\ n \in DOMAIN w.gdb.table
  BY DEF Base, Shape, AllWorlds, Gdbs, Mirrors, Legit, Commands, Bps
<1>2. /\ e \in AllWorlds
      /\ e.st = w.st
      /\ e.gdb.table = With(w.gdb.table, n, bp)
      /\ e.gdb.next = w.gdb.next
      /\ SameStatus(e.gdb, w.gdb)
      /\ e.intake = w.intake
      /\ e.adrift = w.adrift \cup Lost(w, cmd, n, FALSE)
  BY <1>1, EnableIs
<1>3. n \in Nat /\ old \in Bps
  BY <1>1, TableBp
<1>t. bp \in Bps /\ Alike(bp, old) /\ bp.enabled = on /\ bp.pending = old.pending
  <2> HIDE DEF old, on
  <2> QED
    BY <1>1, <1>3, TurnedIs
<1>m. n \in DOMAIN w.st.mirror =>
         /\ b \in Bps /\ Alike(b, w.st.mirror[n]) /\ b.enabled = on
         /\ b.pending = w.st.mirror[n].pending
  <2> SUFFICES ASSUME n \in DOMAIN w.st.mirror
               PROVE  /\ b \in Bps /\ Alike(b, w.st.mirror[n]) /\ b.enabled = on
                      /\ b.pending = w.st.mirror[n].pending
    OBVIOUS
  <2>1. w.st.mirror[n] \in Bps
    BY <1>1, TableBp
  <2> HIDE DEF on, n
  <2> QED
    BY <1>1, <2>1, TurnedIs
<1>o. n \in DOMAIN w.st.mirror /\ w.st.mirror[n] = old => b = bp
  OBVIOUS
<1>v. /\ v \in AllWorlds
      /\ v.gdb = e.gdb
      /\ v.intake = w.intake
      /\ v.adrift = e.adrift
      /\ v.st.ours = w.st.ours
      /\ n \in DOMAIN w.st.mirror => v.st.mirror = With(w.st.mirror, n, b)
      /\ n \notin DOMAIN w.st.mirror => v.st.mirror = w.st.mirror
  <2>1. CASE n \notin DOMAIN w.st.mirror
    <3>1. v = e
      BY <2>1
    <3> HIDE DEF e, n
    <3> QED
      BY <1>2, <2>1, <3>1
  <2>2. CASE n \in DOMAIN w.st.mirror
    <3>1. v = Noted(e, n, on)
      BY <2>2
    <3>2. n \in DOMAIN e.st.mirror /\ e.st.mirror = w.st.mirror
      BY <1>2, <2>2
    <3>e. e \in AllWorlds /\ on \in BOOLEAN
      BY <1>1, <1>2
    <3> HIDE DEF e, n, on
    <3>3. /\ v \in AllWorlds
          /\ v.st.mirror = With(e.st.mirror, n, Turned(e.st.mirror[n], on))
          /\ v.st.ours = e.st.ours
          /\ v.gdb = e.gdb
          /\ v.intake = e.intake
          /\ v.adrift = e.adrift
      <4> DEFINE u == Noted(e, n, on)
      <4>1. /\ u \in AllWorlds
            /\ u.st.mirror = With(e.st.mirror, n, Turned(e.st.mirror[n], on))
            /\ u.st.ours = e.st.ours
            /\ u.gdb = e.gdb
            /\ u.intake = e.intake
            /\ u.adrift = e.adrift
        BY <3>2, <3>e, NotedIs
      <4> HIDE DEF u
      <4>2. v = u
        BY <3>1 DEF u
      <4> QED
        BY <4>1, <4>2
    <3> QED
      BY <1>2, <2>2, <3>2, <3>3
  <2> QED
    BY <2>1, <2>2
<1>g. n \in DOMAIN w.gdb.table /\ old = w.gdb.table[n]
  BY <1>1
<1> HIDE DEF n, old, on, bp, e, b
<1>4. n \in 1 .. s.numbers /\ n < v.gdb.next /\ v.gdb.next <= s.numbers + 1
      /\ w.gdb.next <= v.gdb.next
  BY <1>1, <1>2, <1>v DEF Shape, Sized
<1>6. Put(v.gdb.table, w.gdb.table, n, bp)
  BY <1>1, <1>2, <1>3, <1>t, <1>v, PutTable
<1>7. n \in DOMAIN w.st.mirror => Put(v.st.mirror, w.st.mirror, n, b)
  BY <1>1, <1>3, <1>m, <1>v, PutTable
<1>8. \A m : m \in v.adrift <=> m \in w.adrift \/ (m = n /\ Queued(w, n))
  <2>1. Lost(w, cmd, n, FALSE) = {m \in {n} : Queued(w, n)}
    BY DEF Lost
  <2> QED
    BY <1>2, <1>v, <2>1
<1>9. SameBut(w, v, n)
  BY <1>6, <1>7, <1>8, <1>v DEF SameBut, Put
<1>10. GoodAt(s, v, n)
  <2>1. Good(old) /\ (n \in w.st.ours => old.by # "gdb")
    BY <1>1, <1>g DEF Shape, Goods
  <2>2. n \in DOMAIN w.st.mirror => Good(w.st.mirror[n])
    BY <1>1 DEF Shape, Goods
  <2>3. Good(bp) /\ (n \in w.st.ours => bp.by # "gdb")
    BY <2>1, <1>t DEF Good, Alike
  <2>4. n \in DOMAIN w.st.mirror => Good(b)
    BY <2>2, <1>m DEF Good, Alike
  <2> QED
    BY <1>4, <1>6, <1>7, <1>v, <2>3, <2>4 DEF GoodAt, Put
<1>11. n \notin v.adrift => ~Queued(w, n) /\ Shows(v, n)
  <2> SUFFICES ASSUME n \notin v.adrift
               PROVE  ~Queued(w, n) /\ Shows(v, n)
    OBVIOUS
  <2>1. n \notin w.adrift /\ ~Queued(w, n)
    BY <1>8
  <2>2. Shows(w, n)
    BY <1>4, <2>1 DEF Base, Agree, AgreesAt
  <2>3. Hidden(v, n, v.gdb.table[n]) <=> Hidden(w, n, old)
    BY <1>6, <1>t, <1>v DEF Hidden, Put, Alike
  <2>4. CASE n \in DOMAIN w.st.mirror
    <3>1. b = bp
      BY <1>g, <1>o, <2>2, <2>4 DEF Shows
    <3> QED
      BY <1>6, <1>7, <1>g, <2>1, <2>2, <2>3, <2>4, <3>1 DEF Shows, Put
  <2>5. CASE n \notin DOMAIN w.st.mirror
    BY <1>6, <1>g, <1>v, <2>1, <2>2, <2>3, <2>5 DEF Shows, Put
  <2> QED
    BY <2>4, <2>5
<1>12. Tame(s, w) /\ n \in DOMAIN v.st.mirror /\ v.st.mirror[n].place = "name" =>
          /\ bp.place = "name"
          /\ bp.tag = v.st.mirror[n].tag
          /\ bp.enabled = v.st.mirror[n].enabled
  <2> SUFFICES ASSUME Tame(s, w), n \in DOMAIN v.st.mirror, v.st.mirror[n].place = "name"
               PROVE  /\ bp.place = "name"
                      /\ bp.tag = v.st.mirror[n].tag
                      /\ bp.enabled = v.st.mirror[n].enabled
    OBVIOUS
  <2>1. n \in DOMAIN w.st.mirror
    BY <1>v
  <2>2. v.st.mirror[n] = b /\ Alike(b, w.st.mirror[n]) /\ b.enabled = on
    BY <1>7, <1>m, <2>1 DEF Put
  <2>3. w.st.mirror[n].place = "name"
    BY <2>2 DEF Alike
  <2>4. old.place = "name" /\ old.tag = w.st.mirror[n].tag
    BY <1>g, <2>1, <2>3 DEF Base, Same, NamesAt
  <2> QED
    BY <1>t, <2>2, <2>4 DEF Alike
<1>13. s.late = 0 /\ n \notin w.gdb.inherited /\ bp.place = "name" =>
          /\ n \in DOMAIN v.st.mirror
          /\ v.st.mirror[n].place = "name"
          /\ bp.temporary => n \in v.st.ours
  <2> SUFFICES ASSUME s.late = 0, n \notin w.gdb.inherited, bp.place = "name"
               PROVE  /\ n \in DOMAIN v.st.mirror
                      /\ v.st.mirror[n].place = "name"
                      /\ bp.temporary => n \in v.st.ours
    OBVIOUS
  <2>1. old.place = "name" /\ (bp.temporary <=> old.temporary)
    BY <1>t DEF Alike
  <2>2. /\ n \in DOMAIN w.st.mirror
        /\ w.st.mirror[n].place = "name"
        /\ old.temporary => n \in w.st.ours
    BY <1>g, <2>1 DEF Base, NamesShown
  <2> QED
    BY <1>7, <1>m, <1>v, <2>1, <2>2 DEF Put, Alike
<1>14. NotedAt(s, w, v, n)
  BY <1>6, <1>8, <1>11, <1>12, <1>13, <1>g, <1>t DEF NotedAt, Put
<1>15. Touched(s, w, v, n)
  BY <1>2, <1>4, <1>9, <1>10, <1>14, <1>v DEF Touched, SameStatus
<1> QED
  BY <1>15 DEF n

\* So it keeps the invariant.
LEMMA SwitchBase ==
    ASSUME NEW s, NEW w, NEW cmd, NEW v, Base(s, w), Legit(s, cmd), ~cmd.typed,
           cmd.verb = "enable", cmd.n \in DOMAIN w.gdb.table,
           cmd.n \in DOMAIN w.st.mirror =>
              v = Noted(Enable(w, cmd, FALSE), cmd.n, cmd.bp.enabled),
           cmd.n \notin DOMAIN w.st.mirror => v = Enable(w, cmd, FALSE)
    PROVE  Base(s, v)
BY SwitchTouches, TouchedBase

-----------------------------------------------------------------------------
(* What the handlers come to.                                              *)

Inserting(verb, bp, wish) == Command(verb, 0, bp, FALSE, wish)
Deleting(n, wish) == Command("delete", n, NoBreakpoint, FALSE, wish)

Heard(w, cmd) == w.gdb.up /\ w.gdb.late = <<>> /\ Accepts(w, cmd)

InsertOk(w, cmd, v) == Heard(w, cmd) /\ v = Registered(Insert(w, cmd, FALSE))

\* A command has the fields it was given.
LEMMA CommandType ==
    ASSUME NEW verb \in Verbs, NEW n \in Nat, NEW bp \in Bps, NEW typed \in BOOLEAN,
           NEW wish \in BOOLEAN
    PROVE  /\ Command(verb, n, bp, typed, wish) \in Commands
           /\ Command(verb, n, bp, typed, wish).verb = verb
           /\ Command(verb, n, bp, typed, wish).n = n
           /\ Command(verb, n, bp, typed, wish).bp = bp
           /\ Command(verb, n, bp, typed, wish).typed = typed
           /\ Command(verb, n, bp, typed, wish).wish = wish
BY DEF Command, Commands

\* A command without a breakpoint can be sent in every state.
LEMMA PlainIs ==
    ASSUME NEW verb \in Verbs \ {"insert", "insertNow", "delete", "enable"}, NEW s, NEW w
    PROVE  /\ Plain(verb) \in Commands
           /\ Plain(verb).verb = verb
           /\ ~Plain(verb).typed
           /\ ~Plain(verb).wish
           /\ Legit(s, Plain(verb))
           /\ Fit(s, w, Plain(verb))
           /\ Unanswered(Plain(verb), FALSE)
<1> DEFINE c == Plain(verb)
<1> DEFINE b == NoBreakpoint
<1>b. b \in Bps
  BY NoBreakpointType
<1>c. c = Command(verb, 0, b, FALSE, FALSE)
  BY DEF Plain
<1> HIDE DEF b
<1>1. /\ c \in Commands
      /\ c.verb = verb
      /\ ~c.typed
      /\ ~c.wish
  BY <1>b, <1>c DEF Command, Commands
<1> HIDE DEF c
<1>2. Legit(s, c)
  BY <1>1 DEF Legit
<1>3. Fit(s, w, c) /\ Unanswered(c, FALSE)
  BY <1>1, <1>2 DEF Fit, Unanswered
<1> QED
  BY <1>1, <1>2, <1>3 DEF c

\* What gdb executes while the actor waits.
LEMMA AnsweredIs ==
    ASSUME NEW w, NEW cmd \in Commands, Accepts(w, cmd)
    PROVE  /\ cmd.verb \in {"insert", "insertNow"} =>
                 /\ w.gdb.next <= setting.numbers
                 /\ Execute(w, cmd, FALSE) = Insert(w, cmd, FALSE)
           /\ cmd.verb = "delete" =>
                 /\ cmd.n \in DOMAIN w.gdb.table
                 /\ Execute(w, cmd, FALSE) = Delete(w, cmd, FALSE)
           /\ cmd.verb = "enable" =>
                 /\ cmd.n \in DOMAIN w.gdb.table
                 /\ Execute(w, cmd, FALSE) = Enable(w, cmd, FALSE)
           /\ cmd.verb = "continue" =>
                 /\ w.gdb.process = "stopped"
                 /\ Execute(w, cmd, FALSE) = Resumed(w)
           /\ cmd.verb = "load" =>
                 /\ w.gdb.process # "running"
                 /\ Execute(w, cmd, FALSE) = Load(w)
           /\ cmd.verb = "list" => Execute(w, cmd, FALSE) = w
           /\ cmd.verb \in {"run", "runMain", "starti"} =>
                 /\ w.gdb.process # "running"
                 /\ cmd.verb = "runMain" => w.gdb.next <= setting.numbers
                 /\ Execute(w, cmd, FALSE) = Start(w, cmd.verb)
<1>1. PICK f : f = FALSE
  OBVIOUS
<1>2. Execute(w, cmd, f) = Execute(w, cmd, FALSE)
      /\ Insert(w, cmd, f) = Insert(w, cmd, FALSE)
      /\ Delete(w, cmd, f) = Delete(w, cmd, FALSE)
      /\ Enable(w, cmd, f) = Enable(w, cmd, FALSE)
  BY <1>1, Zenon
<1> HIDE <1>1
<1>3. /\ cmd.verb \in {"insert", "insertNow"} =>
            w.gdb.next <= setting.numbers /\ Execute(w, cmd, f) = Insert(w, cmd, f)
      /\ cmd.verb = "delete" =>
            cmd.n \in DOMAIN w.gdb.table /\ Execute(w, cmd, f) = Delete(w, cmd, f)
      /\ cmd.verb = "enable" =>
            cmd.n \in DOMAIN w.gdb.table /\ Execute(w, cmd, f) = Enable(w, cmd, f)
      /\ cmd.verb = "continue" =>
            w.gdb.process = "stopped" /\ Execute(w, cmd, f) = Resumed(w)
      /\ cmd.verb = "load" =>
            w.gdb.process # "running" /\ Execute(w, cmd, f) = Load(w)
      /\ cmd.verb = "list" => Execute(w, cmd, f) = w
      /\ cmd.verb \in {"run", "runMain", "starti"} =>
            /\ w.gdb.process # "running"
            /\ cmd.verb = "runMain" => w.gdb.next <= setting.numbers
            /\ Execute(w, cmd, f) = Start(w, cmd.verb)
  BY ExecuteIs
<1> QED
  BY <1>2, <1>3

\* InsertBreakpoint registers what it made, or the command failed.
LEMMA InsertBreakpointIs ==
    ASSUME NEW w, NEW verb \in {"insert", "insertNow"}, NEW bp \in Bps, NEW wish \in BOOLEAN,
           Base(setting, w), NEW r \in InsertBreakpoint(w, verb, bp, wish)
    PROVE  LET cmd == Inserting(verb, bp, wish)
           IN \/ r.ok /\ InsertOk(w, cmd, r.w)
              \/ Fails(w, cmd, r) /\ Obeys(w, cmd, r)
<1> DEFINE cmd == Inserting(verb, bp, wish)
           Ours(v) == [v EXCEPT !.st.ours = @ \cup {Newest(v)},
                                !.st.mirror = With(@, Newest(v), v.gdb.table[Newest(v)])]
<1>1. cmd \in Commands /\ cmd.verb = verb
  BY DEF Inserting, Verbs, Command, Commands
<1>2. PICK x \in Send(w, cmd) : r = IF x.ok THEN [x EXCEPT !.w = Ours(x.w)] ELSE x
  BY Zenon DEF InsertBreakpoint, Inserting
<1>3. (Succeeds(w, cmd, x) \/ Fails(w, cmd, x)) /\ Obeys(w, cmd, x)
  BY SendIs
<1>4. CASE Fails(w, cmd, x)
  <2>1. r = x
    BY <1>2, <1>4 DEF Fails
  <2> QED
    BY <1>3, <1>4, <2>1
<1>5. CASE Succeeds(w, cmd, x)
  <2>1. x.w = Execute(w, cmd, FALSE) /\ Heard(w, cmd) /\ x.ok
    BY <1>5 DEF Succeeds, Heard
  <2>2. Execute(w, cmd, FALSE) = Insert(w, cmd, FALSE)
    <3>1. Accepts(w, cmd)
      BY <2>1 DEF Heard
    <3>2. cmd.verb \in {"insert", "insertNow"}
      BY <1>1
    <3> HIDE DEF cmd, Ours
    <3> QED
      BY <1>1, <3>1, <3>2, AnsweredIs
  <2>3. w \in AllWorlds
    BY DEF Base, Shape
  <2>4. Insert(w, cmd, FALSE) \in AllWorlds
    BY <1>1, <2>3, InsertIs
  <2>5. Ours(x.w) = Registered(x.w)
    <3> DEFINE u == x.w
    <3> SUFFICES Ours(u) = Registered(u)
      OBVIOUS
    <3>1. u \in AllWorlds
      BY <2>1, <2>2, <2>4
    <3> HIDE DEF u
    <3> QED
      BY <3>1, OursIs, Zenon
  <2>6. r = [x EXCEPT !.w = Ours(x.w)]
    BY <1>2, <2>1
  <2>7. \E o, u : x = [ok |-> o, w |-> u]
    BY DEF Send, Answered
  <2> HIDE DEF Ours
  <2>8. r.ok /\ r.w = Registered(x.w)
    BY <2>1, <2>5, <2>6, <2>7
  <2> QED
    BY <2>1, <2>2, <2>8 DEF InsertOk
<1> QED
  BY <1>3, <1>4, <1>5

DropOk(w, n, wish, v) ==
    /\ Heard(w, Deleting(n, wish))
    /\ n \in DOMAIN w.gdb.table
    /\ v = Forget(Delete(w, Deleting(n, wish), FALSE), n)

DropFails(w, n, wish, v) ==
    /\ Left(w, Deleting(n, wish), v)
    /\ setting.late = 0 /\ w.gdb.up => n \notin DOMAIN w.gdb.table

\* The delete that is sent.
LEMMA DeletingIs ==
    ASSUME NEW n \in Nat, NEW wish \in BOOLEAN
    PROVE  /\ Deleting(n, wish) \in Commands
           /\ Deleting(n, wish).verb = "delete"
           /\ Deleting(n, wish).n = n
           /\ ~Deleting(n, wish).typed
           /\ Deleting(n, wish).wish = wish
BY NoBreakpointType DEF Deleting, Command, Commands, Verbs

\* DropBreakpoint forgets what gdb deleted, or the command failed.
LEMMA DropBreakpointIs ==
    ASSUME NEW w, NEW n \in Nat, NEW wish \in BOOLEAN, Base(setting, w),
           NEW v \in DropBreakpoint(w, n, wish)
    PROVE  DropOk(w, n, wish, v) \/ DropFails(w, n, wish, v)
<1> DEFINE cmd == Deleting(n, wish)
<1>1. PICK r \in Send(w, cmd) : v = IF r.ok THEN Forget(r.w, n) ELSE r.w
  BY DEF DropBreakpoint, Deleting, SendThen, SendThenElse, Follow, Done
<1>2. /\ cmd \in Commands
      /\ cmd.verb = "delete"
      /\ cmd.n = n
  BY DeletingIs
<1> HIDE DEF cmd
<1>3. (Succeeds(w, cmd, r) \/ Fails(w, cmd, r)) /\ Obeys(w, cmd, r)
  BY SendIs
<1>4. CASE Succeeds(w, cmd, r)
  <2>1. Heard(w, cmd) /\ r.w = Execute(w, cmd, FALSE) /\ v = Forget(r.w, n)
    BY <1>1, <1>4 DEF Succeeds, Heard
  <2>2. Accepts(w, cmd)
    BY <2>1 DEF Heard
  <2>3. n \in DOMAIN w.gdb.table /\ Execute(w, cmd, FALSE) = Delete(w, cmd, FALSE)
    BY <1>2, <2>2, AnsweredIs
  <2> QED
    BY <2>1, <2>3 DEF DropOk, cmd
<1>5. CASE Fails(w, cmd, r)
  <2>1. ~r.ok /\ Left(w, cmd, v)
    BY <1>1, <1>5 DEF Fails
  <2>2. ASSUME setting.late = 0, w.gdb.up
        PROVE  n \notin DOMAIN w.gdb.table
    <3>1. ~Accepts(w, cmd)
      BY <1>2, <1>3, <2>1, <2>2 DEF Obeys
    <3> QED
      BY <1>2, <3>1 DEF Accepts
  <2> QED
    BY <2>1, <2>2 DEF DropFails, cmd
<1> QED
  BY <1>3, <1>4, <1>5

\* DropBreakpoint keeps the invariant.
LEMMA DropBase ==
    ASSUME NEW w, NEW n \in 1 .. setting.numbers, NEW wish \in BOOLEAN, Base(setting, w),
           ~wish /\ Tame(setting, w) => n < w.gdb.next,
           NEW v \in DropBreakpoint(w, n, wish)
    PROVE  Base(setting, v)
<1> DEFINE cmd == Deleting(n, wish)
<1>n. n \in Nat
  BY DEF Base, Shape, Sized
<1>1. /\ cmd \in Commands
      /\ cmd.verb = "delete"
      /\ cmd.n = n
      /\ ~cmd.typed
      /\ cmd.wish = wish
  BY <1>n, DeletingIs
<1>2. DropOk(w, n, wish, v) \/ DropFails(w, n, wish, v)
  BY <1>n, DropBreakpointIs
<1>3. (/\ n \in DOMAIN w.gdb.table /\ v = Forget(Delete(w, cmd, FALSE), n)) \/ Left(w, cmd, v)
  BY <1>2 DEF DropOk, DropFails
<1> HIDE DEF cmd
<1>4. Legit(setting, cmd) /\ Fit(setting, w, cmd)
  BY <1>1 DEF Legit, Fit
<1>5. CASE n \in DOMAIN w.gdb.table /\ v = Forget(Delete(w, cmd, FALSE), n)
  BY <1>1, <1>4, <1>5, DroppedBase
<1>6. CASE Left(w, cmd, v)
  BY <1>4, <1>6, LeftBase
<1> QED
  BY <1>3, <1>5, <1>6

\* What the actor knows besides its breakpoints, and what users asked for, do
\* not matter to the mirror.
LEMMA ActorBase ==
    ASSUME NEW s, NEW w, NEW v, Base(s, w), v \in AllWorlds,
           v.st.mirror = w.st.mirror, v.st.ours = w.st.ours,
           v.gdb = w.gdb, v.intake = w.intake, v.adrift = w.adrift
    PROVE  Base(s, v)
<1>1. Shape(s, v)
  BY DEF Base, Shape, Sized, Goods, Lates
<1>2. Agree(s, v)
  BY DEF Base, Agree, AgreesAt, Shows, Queued, Hidden
<1>3. Follows(s, v)
  BY DEF Base, Follows, FollowsAt
<1>4. Same(s, v)
  <2>1. Same(s, w) /\ (Tame(s, w) <=> Tame(s, v)) /\ Doomed(v) = Doomed(w)
    BY DEF Base, Tame, Doomed
  <2> QED
    BY <2>1 DEF Same, NamesAt
<1>5. NamesShown(s, v)
  BY DEF Base, NamesShown
<1> QED
  BY <1>1, <1>2, <1>3, <1>4, <1>5 DEF Base

\* The list gdb answers, taken for the mirror.
Seen(w) == {n \in DOMAIN w.gdb.table : ~Hidden(w, n, w.gdb.table[n])}
SeenTable(w) == [n \in Seen(w) |-> w.gdb.table[n]]
Listed(w) == [w EXCEPT !.st.mirror = SeenTable(w),
                       !.adrift = {n \in w.adrift : Queued(w, n)}]

\* After a list the mirror is what gdb shows, and what has no record queued is
\* no longer adrift.
LEMMA ListedIs ==
    ASSUME NEW w \in AllWorlds
    PROVE  LET v == Listed(w)
           IN /\ v \in AllWorlds
              /\ v.st.mirror = SeenTable(w)
              /\ v.st.ours = w.st.ours
              /\ SameActor(v.st, w.st)
              /\ v.gdb = w.gdb
              /\ v.intake = w.intake
              /\ v.wanted = w.wanted
              /\ v.adrift = {n \in w.adrift : Queued(w, n)}
<1> DEFINE t == SeenTable(w)
           a == {n \in w.adrift : Queued(w, n)}
           m == [w.st EXCEPT !.mirror = t]
           v == [w EXCEPT !.st = m, !.adrift = a]
<1>1. w.st \in Mirrors /\ w.gdb.table \in Tables /\ w.adrift \in SUBSET Nat
  BY DEF AllWorlds, Gdbs
<1>2. t \in Tables
  <2>1. /\ DOMAIN w.gdb.table \subseteq Nat
        /\ \A n \in DOMAIN w.gdb.table : w.gdb.table[n] \in Bps
    BY <1>1, TableIs
  <2>2. Seen(w) \subseteq DOMAIN w.gdb.table
    BY DEF Seen
  <2>3. t \in [Seen(w) -> Bps]
    BY <2>1, <2>2 DEF SeenTable
  <2>4. Seen(w) \in SUBSET Nat
    BY <2>1, <2>2
  <2> QED
    BY <2>3, <2>4 DEF Tables
<1>3. Listed(w) = v
  BY Zenon DEF Listed
<1>a. a \in SUBSET Nat
  BY <1>1
<1> HIDE DEF t, a
<1>4. m \in Mirrors /\ m.mirror = t /\ m.ours = w.st.ours /\ SameActor(m, w.st)
  BY <1>1, <1>2 DEF Mirrors, SameActor
<1> HIDE DEF m
<1>5. /\ v \in AllWorlds
      /\ v.st = m
      /\ v.gdb = w.gdb
      /\ v.intake = w.intake
      /\ v.wanted = w.wanted
      /\ v.adrift = a
  BY <1>4, <1>a DEF AllWorlds
<1> QED
  BY <1>3, <1>4, <1>5 DEF a, t

\* That keeps the invariant.
LEMMA ListedBase ==
    ASSUME NEW s, NEW w, Base(s, w)
    PROVE  Base(s, Listed(w))
<1> DEFINE v == Listed(w)
<1>1. w \in AllWorlds /\ Shape(s, w)
  BY DEF Base, Shape
<1>2. /\ v \in AllWorlds
      /\ v.st.mirror = SeenTable(w)
      /\ v.st.ours = w.st.ours
      /\ v.gdb = w.gdb
      /\ v.intake = w.intake
      /\ v.adrift = {n \in w.adrift : Queued(w, n)}
  BY <1>1, ListedIs
<1> HIDE DEF v
<1>3. /\ DOMAIN v.st.mirror = Seen(w)
      /\ \A n \in Seen(w) : v.st.mirror[n] = w.gdb.table[n]
  BY <1>2 DEF SeenTable
<1>4. \A n \in Seen(w) : n \in DOMAIN w.gdb.table /\ n \in 1 .. s.numbers /\ n < w.gdb.next
  <2> SUFFICES ASSUME NEW n \in Seen(w)
               PROVE  n \in DOMAIN w.gdb.table /\ n \in 1 .. s.numbers /\ n < w.gdb.next
    OBVIOUS
  <2>1. n \in DOMAIN w.gdb.table
    BY DEF Seen
  <2>2. n \in 1 .. w.gdb.next - 1 /\ w.gdb.next \in 1 .. s.numbers + 1 /\ s.numbers \in Nat
    BY <1>1, <2>1 DEF Shape, Sized
  <2> QED
    BY <2>1, <2>2
<1>5. Shape(s, v)
  <2>1. Sized(s, v)
    BY <1>1, <1>2, <1>3, <1>4 DEF Shape, Sized
  <2>2. Goods(s, v)
    BY <1>1, <1>2, <1>3, <1>4 DEF Shape, Goods
  <2>3. Lates(s, v)
    BY <1>1, <1>2 DEF Shape, Lates
  <2> QED
    BY <1>2, <2>1, <2>2, <2>3 DEF Shape
<1>6. \A n : n \in DOMAIN v.st.mirror
                <=> n \in DOMAIN v.gdb.table /\ ~Hidden(v, n, v.gdb.table[n])
  BY <1>2, <1>3 DEF Seen, Hidden
<1>7. \A n : Shows(v, n)
  BY <1>2, <1>3, <1>4, <1>6 DEF Shows
<1>8. \A n : n \in w.adrift /\ n \notin v.adrift => ~Queued(v, n)
  BY <1>2 DEF Queued
<1>9. Agree(s, v)
  <2> SUFFICES ASSUME NEW n \in 1 .. s.numbers, n \notin v.adrift
               PROVE  AgreesAt(v, n)
    BY DEF Agree
  <2>1. ASSUME NEW i \in 1 .. Len(v.intake), v.intake[i].n = n, LastAbout(v.intake, i)
        PROVE  Tells(v.intake[i], v.gdb.table)
    <3>1. DOMAIN w.intake = 1 .. Len(w.intake)
      BY <1>1, ShapeNat
    <3>2. Queued(v, n)
      BY <1>2, <2>1, <3>1 DEF Queued
    <3>3. n \notin w.adrift
      BY <1>8, <3>2
    <3> QED
      BY <1>2, <2>1, <3>3 DEF Base, Agree, AgreesAt
  <2> QED
    BY <1>6, <1>7, <2>1 DEF AgreesAt
<1>10. Follows(s, v)
  <2> SUFFICES ASSUME NEW n \in 1 .. s.numbers, n \notin v.adrift \/ n \notin v.gdb.inherited,
                      NEW i \in 1 .. Len(v.intake), v.intake[i].n = n
               PROVE  /\ n < v.gdb.next
                      /\ n \in DOMAIN v.gdb.table => /\ v.intake[i].kind # "deleted"
                                                     /\ Alike(v.intake[i].bp, v.gdb.table[n])
    BY DEF Follows, FollowsAt
  <2>1. DOMAIN w.intake = 1 .. Len(w.intake)
    BY <1>1, ShapeNat
  <2>2. Queued(v, n)
    BY <1>2, <2>1 DEF Queued
  <2>3. n \notin w.adrift \/ n \notin w.gdb.inherited
    BY <1>2, <1>8, <2>2
  <2> QED
    BY <1>2, <2>3 DEF Base, Follows, FollowsAt
<1>11. Same(s, v)
  <2> SUFFICES ASSUME Tame(s, v)
               PROVE  /\ \A n \in Doomed(v) : n < v.gdb.next
                      /\ \A n \in DOMAIN v.st.mirror : NamesAt(s, v, n, v.st.mirror[n])
                      /\ s.late = 0 /\ "typed" \notin s.kinds =>
                            \A n \in DOMAIN v.st.mirror :
                                v.st.mirror[n].place = "name" /\ n \in DOMAIN v.gdb.table =>
                                    v.st.mirror[n].enabled = v.gdb.table[n].enabled
                      /\ \A i \in 1 .. Len(v.intake) :
                            v.intake[i].kind \in {"created", "modified"} =>
                                /\ NamesAt(s, v, v.intake[i].n, v.intake[i].bp)
                                /\ v.intake[i].bp.place = "name" => "typed" \in s.kinds
    BY DEF Same
  <2>1. Same(s, w) /\ Tame(s, w) /\ Doomed(v) = Doomed(w)
    BY <1>2 DEF Base, Tame, Doomed
  <2>2. \A n \in DOMAIN v.st.mirror : NamesAt(s, v, n, v.st.mirror[n])
    BY <1>2, <1>3, <1>4 DEF NamesAt
  <2>3. \A n \in DOMAIN v.st.mirror : v.st.mirror[n] = v.gdb.table[n]
    BY <1>2, <1>3
  <2> QED
    BY <1>2, <2>1, <2>2, <2>3 DEF Same, NamesAt
<1>12. NamesShown(s, v)
  <2> SUFFICES ASSUME s.late = 0, NEW n \in DOMAIN v.gdb.table, n \notin v.gdb.inherited,
                      v.gdb.table[n].place = "name"
               PROVE  /\ n \in DOMAIN v.st.mirror
                      /\ v.st.mirror[n].place = "name"
                      /\ v.gdb.table[n].temporary => n \in v.st.ours
    BY DEF NamesShown
  <2>1. v.gdb.table[n].temporary => n \in v.st.ours
    BY <1>2 DEF Base, NamesShown
  <2>2. n \in DOMAIN v.st.mirror
    BY <1>6, <2>1 DEF Hidden
  <2> QED
    BY <1>2, <1>3, <2>1, <2>2
<1> QED
  BY <1>5, <1>9, <1>10, <1>11, <1>12 DEF Base, v

\* Reconcile lists, or the command failed.
LEMMA ReconcileIs ==
    ASSUME NEW w, Base(setting, w), NEW v \in Reconcile(w)
    PROVE  \/ w.gdb.up /\ w.gdb.late = <<>> /\ v = Listed(w)
           \/ Left(w, Plain("list"), v)
<1> DEFINE cmd == Plain("list")
<1>1. PICK r \in Send(w, cmd) : v = IF r.ok THEN Listed(r.w) ELSE r.w
  BY DEF Reconcile, SendThen, SendThenElse, Follow, Done, Listed, SeenTable, Seen
<1>2. cmd \in Commands /\ cmd.verb = "list"
  BY PlainIs DEF Verbs
<1> HIDE DEF cmd
<1>3. Succeeds(w, cmd, r) \/ Fails(w, cmd, r)
  BY SendIs
<1>4. CASE Succeeds(w, cmd, r)
  <2>1. /\ w.gdb.up /\ w.gdb.late = <<>> /\ Accepts(w, cmd)
        /\ r.w = Execute(w, cmd, FALSE) /\ v = Listed(r.w)
    BY <1>1, <1>4 DEF Succeeds
  <2>2. Execute(w, cmd, FALSE) = w
    BY <1>2, <2>1, AnsweredIs
  <2> QED
    BY <2>1, <2>2
<1>5. CASE Fails(w, cmd, r)
  BY <1>1, <1>5 DEF Fails, cmd
<1> QED
  BY <1>3, <1>4, <1>5

\* Reconcile keeps the invariant.
LEMMA ReconcileBase ==
    ASSUME NEW w, Base(setting, w), NEW v \in Reconcile(w)
    PROVE  Base(setting, v)
<1>1. Fit(setting, w, Plain("list"))
  BY PlainIs DEF Verbs
<1>2. CASE v = Listed(w)
  BY <1>2, ListedBase
<1>3. CASE Left(w, Plain("list"), v)
  BY <1>1, <1>3, LeftBase
<1> QED
  BY <1>2, <1>3, ReconcileIs

-----------------------------------------------------------------------------
(* What a command that failed leaves.                                      *)

\* What gdb does not change of the actor.
Goes(w, v) ==
    /\ v \in AllWorlds
    /\ v.st = w.st
    /\ v.gdb.inherited = w.gdb.inherited
    /\ w.gdb.next <= v.gdb.next

\* Moves of gdb behind one another.
LEMMA GoesOn ==
    ASSUME NEW w \in AllWorlds, NEW v, NEW u, Goes(w, v), Goes(v, u)
    PROVE  Goes(w, u)
<1>1. /\ w.gdb.next \in Nat
      /\ v.gdb.next \in Nat
      /\ u.gdb.next \in Nat
  BY DEF Goes, AllWorlds, Gdbs
<1> QED
  BY <1>1 DEF Goes

\* A run is one.
LEMMA StartGoes ==
    ASSUME NEW w \in AllWorlds, NEW verb
    PROVE  Goes(w, Start(w, verb)) /\ Start(w, verb).gdb.up = w.gdb.up
<1> DEFINE b == Begun(w, verb)
           c == OnMain(w)
           i == Insert(b, c, FALSE)
           p == IF verb = "runMain" THEN i ELSE b
<1>1. /\ b \in AllWorlds
      /\ b.st = w.st
      /\ SameRest(b.gdb, w.gdb)
  BY BegunIs
<1>2. c \in Commands
  BY OnMainApart DEF Apart, Legit
<1>3. Start(w, verb) = Says(p, "running")
  BY Zenon DEF Start, Begun, OnMain, Ended, Overtaken
<1>4. b.gdb.next = w.gdb.next /\ b.gdb.next \in Nat
  BY <1>1 DEF SameRest, AllWorlds, Gdbs
<1> HIDE DEF b, c
<1>5. /\ i \in AllWorlds
      /\ i.st = b.st
      /\ i.gdb.next = b.gdb.next + 1
      /\ SameStatus(i.gdb, b.gdb)
  BY <1>1, <1>2, InsertIs
<1> HIDE DEF i
<1>6. /\ p \in AllWorlds
      /\ p.st = w.st
      /\ p.gdb.inherited = w.gdb.inherited
      /\ p.gdb.up = w.gdb.up
      /\ p.gdb.next = w.gdb.next \/ p.gdb.next = w.gdb.next + 1
  BY <1>1, <1>4, <1>5 DEF SameStatus, SameRest
<1> HIDE DEF p
<1>7. /\ Says(p, "running") \in AllWorlds
      /\ Says(p, "running").st = p.st
      /\ Says(p, "running").gdb = p.gdb
  BY <1>6, SaysIs DEF Kinds
<1>8. w.gdb.next <= p.gdb.next
  BY <1>4, <1>6
<1> QED
  BY <1>3, <1>6, <1>7, <1>8 DEF Goes

\* What gdb executes is one.
LEMMA ExecuteGoes ==
    ASSUME NEW w, NEW cmd \in Commands, NEW unheard \in BOOLEAN, Base(setting, w)
    PROVE  Goes(w, Execute(w, cmd, unheard))
<1> DEFINE v == Execute(w, cmd, unheard)
<1>1. w \in AllWorlds /\ Shape(setting, w) /\ w.gdb.next \in Nat
  BY DEF Base, Shape, AllWorlds, Gdbs
<1>2. Goes(w, w)
  BY <1>1 DEF Goes
<1>3. CASE ~Accepts(w, cmd)
  BY <1>2, <1>3, ExecuteRefused
<1>4. CASE Accepts(w, cmd) /\ cmd.verb \in {"insert", "insertNow"}
  <2>1. v = Insert(w, cmd, unheard)
    BY <1>4, ExecuteIs
  <2> HIDE DEF v
  <2>2. /\ v \in AllWorlds
        /\ v.st = w.st
        /\ v.gdb.next = w.gdb.next + 1
        /\ SameStatus(v.gdb, w.gdb)
    BY <1>1, <2>1, InsertIs
  <2>3. w.gdb.next <= v.gdb.next
    BY <1>1, <2>2
  <2>4. Goes(w, v)
    BY <2>2, <2>3 DEF Goes, SameStatus
  <2> QED
    BY <2>4 DEF v
<1>5. CASE Accepts(w, cmd) /\ cmd.verb = "delete"
  <2>1. v = Delete(w, cmd, unheard) /\ cmd.n \in DOMAIN w.gdb.table
    BY <1>5, ExecuteIs
  <2> HIDE DEF v
  <2>2. /\ v \in AllWorlds
        /\ v.st = w.st
        /\ v.gdb.next = w.gdb.next
        /\ SameStatus(v.gdb, w.gdb)
    BY <1>1, <2>1, DeleteIs
  <2>3. Goes(w, v)
    BY <1>1, <2>2 DEF Goes, SameStatus
  <2> QED
    BY <2>3 DEF v
<1>6. CASE Accepts(w, cmd) /\ cmd.verb = "enable"
  <2>1. v = Enable(w, cmd, unheard) /\ cmd.n \in DOMAIN w.gdb.table
    BY <1>6, ExecuteIs
  <2> HIDE DEF v
  <2>2. /\ v \in AllWorlds
        /\ v.st = w.st
        /\ v.gdb.next = w.gdb.next
        /\ SameStatus(v.gdb, w.gdb)
    BY <1>1, <2>1, EnableIs
  <2>3. Goes(w, v)
    BY <1>1, <2>2 DEF Goes, SameStatus
  <2> QED
    BY <2>3 DEF v
<1>7. CASE Accepts(w, cmd) /\ cmd.verb = "continue"
  <2>1. v = Resumed(w)
    BY <1>7, ExecuteIs
  <2> HIDE DEF v
  <2>2. /\ v \in AllWorlds
        /\ Kin(w, v)
        /\ v.gdb = [w.gdb EXCEPT !.process = "running", !.entry = FALSE, !.resumes = @ + 1]
    BY <1>1, <2>1, ResumedIs
  <2>3. w.gdb \in Gdbs
    BY <1>1 DEF AllWorlds
  <2>4. v.gdb.next = w.gdb.next
    BY <2>2, <2>3 DEF Gdbs
  <2>5. Goes(w, v)
    BY <1>1, <2>2, <2>4 DEF Goes, Kin
  <2> QED
    BY <2>5 DEF v
<1>8. CASE Accepts(w, cmd) /\ cmd.verb = "load"
  <2>1. v = Load(w)
    BY <1>8, ExecuteIs
  <2> HIDE DEF v
  <2>2. /\ v \in AllWorlds
        /\ v.st = w.st
        /\ SameRest(v.gdb, w.gdb)
    BY <1>1, <2>1, LoadIs
  <2>3. Goes(w, v)
    BY <1>1, <2>2 DEF Goes, SameRest
  <2> QED
    BY <2>3 DEF v
<1>9. CASE Accepts(w, cmd) /\ cmd.verb = "list"
  BY <1>2, <1>9, ExecuteIs
<1>10. CASE Accepts(w, cmd) /\ cmd.verb \in {"run", "runMain", "starti"}
  <2>1. v = Start(w, cmd.verb)
    BY <1>10, ExecuteIs
  <2> QED
    BY <1>1, <2>1, StartGoes
<1>11. cmd.verb \in Verbs
  BY DEF Commands
<1> QED
  BY <1>3, <1>4, <1>5, <1>6, <1>7, <1>8, <1>9, <1>10, <1>11 DEF Verbs

\* What the program does during a handler is one.
LEMMA MeanwhileGoes ==
    ASSUME NEW w \in AllWorlds, NEW v \in Meanwhile(w)
    PROVE  Goes(w, v)
<1>0. w.gdb.next \in Nat /\ w.gdb \in Gdbs
  BY DEF AllWorlds, Gdbs
<1>1. Goes(w, w)
  BY <1>0 DEF Goes
<1>2. CASE v = Pause(w)
  <2>1. /\ v \in AllWorlds
        /\ Kin(w, v)
        /\ v.gdb = [w.gdb EXCEPT !.process = "stopped", !.stops = @ + 1]
    BY <1>2, PauseIs
  <2>2. v.gdb.next = w.gdb.next
    BY <1>0, <2>1 DEF Gdbs
  <2> QED
    BY <1>0, <2>1, <2>2 DEF Goes, Kin
<1>3. CASE v = Exit(w)
  <2>1. /\ v \in AllWorlds
        /\ Kin(w, v)
        /\ v.gdb = [w.gdb EXCEPT !.process = "none", !.stops = @ + 1]
    BY <1>3, ExitIs
  <2>2. v.gdb.next = w.gdb.next
    BY <1>0, <2>1 DEF Gdbs
  <2> QED
    BY <1>0, <2>1, <2>2 DEF Goes, Kin
<1>4. ASSUME NEW n \in Numbers, CanHit(w.gdb, n), v = Hit(w, n)
      PROVE  Goes(w, v)
  <2> DEFINE h == HitStop(w, n)
  <2>1. n \in DOMAIN w.gdb.table
    BY <1>4 DEF CanHit
  <2>2. /\ h \in AllWorlds
        /\ Kin(w, h)
        /\ h.gdb = [w.gdb EXCEPT !.process = "stopped", !.stops = @ + 1]
    BY <2>1, HitStopIs
  <2>3. /\ v \in AllWorlds
        /\ v.st = w.st
        /\ v.gdb = h.gdb \/ v.gdb = [h.gdb EXCEPT !.table = Without(w.gdb.table, n)]
    BY <1>4, <2>1, HitIs
  <2> HIDE DEF h
  <2>4. h.gdb.next = w.gdb.next /\ h.gdb.inherited = w.gdb.inherited /\ h.gdb \in Gdbs
    BY <1>0, <2>2 DEF Gdbs, Kin, AllWorlds
  <2>5. v.gdb.next = h.gdb.next /\ v.gdb.inherited = h.gdb.inherited
    BY <2>3, <2>4 DEF Gdbs
  <2> QED
    BY <1>0, <2>3, <2>4, <2>5 DEF Goes
<1> QED
  BY <1>1, <1>2, <1>3, <1>4 DEF Meanwhile

\* What a command that failed leaves is one.
LEMMA LeftGoes ==
    ASSUME NEW w, NEW cmd, NEW v, Base(setting, w), Legit(setting, cmd), Left(w, cmd, v)
    PROVE  Goes(w, v)
<1>0. w \in AllWorlds /\ w.gdb.next \in Nat /\ w.gdb \in Gdbs /\ cmd \in Commands
  BY DEF Base, Shape, AllWorlds, Gdbs, Legit
<1>1. CASE v = w
  BY <1>0, <1>1 DEF Goes
<1>2. CASE v = Postponed(w, cmd)
  <2>1. /\ v \in AllWorlds
        /\ v.st = w.st
        /\ v.gdb = [w.gdb EXCEPT !.late = Append(w.gdb.late, cmd)]
    BY <1>0, <1>2, PostponedIs
  <2>2. v.gdb.next = w.gdb.next /\ v.gdb.inherited = w.gdb.inherited
    BY <1>0, <2>1 DEF Gdbs
  <2> QED
    BY <1>0, <2>1, <2>2 DEF Goes
<1>3. CASE v \in Meanwhile(Execute(w, cmd, TRUE))
  <2>1. PICK u : u = Execute(w, cmd, TRUE)
    OBVIOUS
  <2>2. PICK t \in BOOLEAN : t = TRUE
    OBVIOUS
  <2>3. u = Execute(w, cmd, t)
    BY <2>1, <2>2
  <2>4. v \in Meanwhile(u)
    BY <1>3, <2>1
  <2> HIDE <2>1, <2>2
  <2>5. Goes(w, u)
    BY <1>0, <2>3, ExecuteGoes
  <2>6. Goes(u, v)
    BY <2>4, <2>5, MeanwhileGoes DEF Goes
  <2> QED
    BY <1>0, <2>5, <2>6, GoesOn
<1> QED
  BY <1>1, <1>2, <1>3 DEF Left

-----------------------------------------------------------------------------
(* Deferred breakpoints placed.                                            *)

\* The insert that is sent.
LEMMA InsertingIs ==
    ASSUME NEW verb \in {"insert", "insertNow"}, NEW bp \in Bps, NEW wish \in BOOLEAN
    PROVE  /\ Inserting(verb, bp, wish) \in Commands
           /\ Inserting(verb, bp, wish).verb = verb
           /\ Inserting(verb, bp, wish).bp = bp
           /\ ~Inserting(verb, bp, wish).typed
           /\ Inserting(verb, bp, wish).wish = wish
BY DEF Inserting, Command, Commands, Verbs

\* A breakpoint the actor may make and show.
Showable(bp) == bp \in Bps /\ bp.by # "gdb" /\ (bp.tag # 0 => ~bp.temporary)

\* The server may send it.
LEMMA InsertingFits ==
    ASSUME NEW verb \in {"insert", "insertNow"}, NEW bp, Showable(bp), NEW wish \in BOOLEAN,
           NEW s, NEW w
    PROVE  Fit(s, w, Inserting(verb, bp, wish)) /\ Legit(s, Inserting(verb, bp, wish))
<1> DEFINE cmd == Inserting(verb, bp, wish)
<1>1. /\ cmd \in Commands
      /\ cmd.verb = verb
      /\ cmd.bp = bp
      /\ ~cmd.typed
  BY InsertingIs DEF Showable
<1> HIDE DEF cmd
<1>2. Legit(s, cmd)
  BY <1>1 DEF Legit, Showable
<1> QED
  BY <1>1, <1>2 DEF Fit, cmd

\* An insert that was answered keeps the invariant.
LEMMA InsertOkIs ==
    ASSUME NEW w, NEW verb \in {"insert", "insertNow"}, NEW bp, Showable(bp),
           NEW wish \in BOOLEAN, Base(setting, w),
           NEW v, InsertOk(w, Inserting(verb, bp, wish), v)
    PROVE  /\ Base(setting, v)
           /\ w.gdb.next <= setting.numbers
           /\ verb = "insertNow" => ~Made(w, Inserting(verb, bp, wish)).pending
<1> DEFINE cmd == Inserting(verb, bp, wish)
<1>1. /\ cmd \in Commands
      /\ cmd.verb = verb
      /\ cmd.bp = bp
      /\ ~cmd.typed
  BY InsertingIs DEF Showable
<1>2. Legit(setting, cmd)
  BY InsertingFits
<1>3. Accepts(w, cmd) /\ v = Registered(Insert(w, cmd, FALSE))
  BY DEF InsertOk, Heard
<1> HIDE DEF cmd
<1>4. w.gdb.next <= setting.numbers
  BY <1>1, <1>3, AnsweredIs
<1>5. cmd.bp.by # "gdb"
  BY <1>1 DEF Showable
<1>6. Base(setting, v)
  BY <1>1, <1>2, <1>3, <1>4, <1>5, RegisteredBase
<1>7. verb = "insertNow" => ~Made(w, cmd).pending
  BY <1>1, <1>3 DEF Accepts, Made
<1> QED
  BY <1>4, <1>6, <1>7 DEF cmd

\* The actor's breakpoints but n are as they were, and so are those but k.
Onward(w, v, n, k) ==
    /\ v \in AllWorlds
    /\ v.gdb.inherited = w.gdb.inherited
    /\ w.gdb.next <= v.gdb.next
    /\ SameActor(v.st, w.st)
    /\ \A m \in DOMAIN w.st.mirror : m # n =>
          /\ m \in DOMAIN v.st.mirror
          /\ w.st.mirror[m].by # "gdb" => v.st.mirror[m].by # "gdb"
          /\ m # k => v.st.mirror[m] = w.st.mirror[m]

\* Steps of a placement behind one another.
LEMMA OnwardOn ==
    ASSUME NEW w \in AllWorlds, NEW v, NEW u, NEW n, NEW k,
           Onward(w, v, n, k), Onward(v, u, n, k)
    PROVE  Onward(w, u, n, k)
<1>1. /\ w.gdb.next \in Nat
      /\ v.gdb.next \in Nat
      /\ u.gdb.next \in Nat
      /\ w.gdb.next <= v.gdb.next
      /\ v.gdb.next <= u.gdb.next
  BY DEF Onward, AllWorlds, Gdbs
<1>2. w.gdb.next <= u.gdb.next
  BY <1>1
<1> QED
  BY <1>2 DEF Onward, SameActor

\* A move of gdb during a placement is such a step.
LEMMA GoesOnward ==
    ASSUME NEW w, NEW v, NEW n, NEW k, Goes(w, v)
    PROVE  Onward(w, v, n, k)
BY DEF Goes, Onward, SameActor

\* The insert of a placement is.
LEMMA InsertOkOnward ==
    ASSUME NEW w, NEW verb \in {"insert", "insertNow"}, NEW bp, Showable(bp),
           NEW wish \in BOOLEAN, Base(setting, w), NEW n,
           NEW v, InsertOk(w, Inserting(verb, bp, wish), v)
    PROVE  Onward(w, v, n, w.gdb.next)
<1> DEFINE cmd == Inserting(verb, bp, wish)
           k == w.gdb.next
<1>0. w \in AllWorlds /\ k \in Nat /\ w.st.mirror \in Tables
  BY DEF Base, Shape, AllWorlds, Gdbs, Mirrors
<1>1. /\ cmd \in Commands
      /\ cmd.bp = bp
      /\ ~cmd.typed
  BY InsertingIs DEF Showable
<1>2. v = Registered(Insert(w, cmd, FALSE))
  BY DEF InsertOk
<1> HIDE DEF cmd
<1>3. /\ v \in AllWorlds
      /\ v.gdb.next = k + 1
      /\ SameStatus(v.gdb, w.gdb)
      /\ v.st.mirror = With(w.st.mirror, k, Made(w, cmd))
      /\ SameActor(v.st, w.st)
  BY <1>0, <1>1, <1>2, RegisteredIs
<1>4. Made(w, cmd) \in Bps /\ Made(w, cmd).by # "gdb"
  BY <1>0, <1>1, MadeIs DEF Alike, Showable
<1>5. w.gdb.next <= v.gdb.next
  BY <1>0, <1>3
<1> HIDE DEF k
<1>6. Put(v.st.mirror, w.st.mirror, k, Made(w, cmd))
  BY <1>0, <1>3, <1>4, PutTable
<1>7. \A m \in DOMAIN w.st.mirror : m # n =>
         /\ m \in DOMAIN v.st.mirror
         /\ w.st.mirror[m].by # "gdb" => v.st.mirror[m].by # "gdb"
         /\ m # k => v.st.mirror[m] = w.st.mirror[m]
  BY <1>4, <1>6 DEF Put
<1>8. Onward(w, v, n, k)
  BY <1>3, <1>5, <1>7 DEF Onward, SameStatus
<1> QED
  BY <1>8 DEF k

\* Its delete is.
LEMMA DropOnward ==
    ASSUME NEW w, NEW n \in 1 .. setting.numbers, NEW wish \in BOOLEAN, Base(setting, w),
           NEW v \in DropBreakpoint(w, n, wish), NEW k
    PROVE  Onward(w, v, n, k)
<1> DEFINE cmd == Deleting(n, wish)
<1>n. n \in Nat /\ w \in AllWorlds /\ w.gdb.next \in Nat /\ w.st.mirror \in Tables
  BY SMTT(30) DEF Base, Shape, Sized, AllWorlds, Gdbs, Mirrors
<1>1. /\ cmd \in Commands
      /\ cmd.verb = "delete"
      /\ cmd.n = n
      /\ ~cmd.typed
  BY <1>n, DeletingIs
<1>2. DropOk(w, n, wish, v) \/ DropFails(w, n, wish, v)
  BY <1>n, DropBreakpointIs
<1>3. (/\ n \in DOMAIN w.gdb.table /\ v = Forget(Delete(w, cmd, FALSE), n)) \/ Left(w, cmd, v)
  BY <1>2 DEF DropOk, DropFails
<1> HIDE DEF cmd
<1>4. CASE n \in DOMAIN w.gdb.table /\ v = Forget(Delete(w, cmd, FALSE), n)
  <2>1. /\ v \in AllWorlds
        /\ v.gdb.next = w.gdb.next
        /\ SameStatus(v.gdb, w.gdb)
        /\ v.st.mirror = Without(w.st.mirror, n)
        /\ SameActor(v.st, w.st)
    BY <1>n, <1>1, <1>4, DroppedIs
  <2>2. Cut(v.st.mirror, w.st.mirror, n)
    BY <1>n, <2>1, CutTable
  <2>3. w.gdb.next <= v.gdb.next
    BY <1>n, <2>1
  <2> QED
    BY <2>1, <2>2, <2>3 DEF Cut, Onward, SameStatus
<1>5. CASE Left(w, cmd, v)
  <2>1. Legit(setting, cmd)
    BY <1>1 DEF Legit
  <2> QED
    BY <1>5, <2>1, LeftGoes, GoesOnward
<1> QED
  BY <1>3, <1>4, <1>5

\* What takes the place of n, and the command that disables it.
Placed(w, n) ==
    Breakpoint("address", w.st.mirror[n].temporary, w.st.mirror[n].tag,
               w.st.mirror[n].by, w.st.mirror[n].at)

Off(bp) == [bp EXCEPT !.enabled = FALSE]

Disabling(m, bp) == Command("enable", m, Off(bp), FALSE, FALSE)

Placeable(s, w, n) ==
    /\ n \in 1 .. s.numbers
    /\ n \in DOMAIN w.st.mirror
    /\ w.st.mirror[n].by # "gdb"
    /\ Tame(s, w) => n < w.gdb.next

DisableOk(w, m, bp, v) ==
    /\ Heard(w, Disabling(m, bp))
    /\ m \in DOMAIN w.gdb.table
    /\ v = Noted(Enable(w, Disabling(m, bp), FALSE), m, FALSE)

DisableFails(w, m, bp, v) ==
    /\ Left(w, Disabling(m, bp), v)
    /\ setting.late = 0 /\ w.gdb.up => m \notin DOMAIN w.gdb.table

\* The disable of a placement.
LEMMA DisablingIs ==
    ASSUME NEW m \in Nat, NEW bp \in Bps
    PROVE  /\ Disabling(m, bp) \in Commands
           /\ Disabling(m, bp).verb = "enable"
           /\ Disabling(m, bp).n = m
           /\ Disabling(m, bp).bp = Off(bp)
           /\ ~Disabling(m, bp).bp.enabled
           /\ ~Disabling(m, bp).typed
           /\ ~Disabling(m, bp).wish
           /\ Off(bp) \in Bps
<1> DEFINE off == Off(bp)
<1>1. off \in Bps /\ ~off.enabled
  BY DEF Off, Bps
<1> HIDE DEF off
<1>2. /\ Command("enable", m, off, FALSE, FALSE) \in Commands
      /\ Command("enable", m, off, FALSE, FALSE).verb = "enable"
      /\ Command("enable", m, off, FALSE, FALSE).n = m
      /\ Command("enable", m, off, FALSE, FALSE).bp = off
      /\ ~Command("enable", m, off, FALSE, FALSE).typed
      /\ ~Command("enable", m, off, FALSE, FALSE).wish
  BY <1>1 DEF Command, Commands, Verbs
<1> QED
  BY <1>1, <1>2 DEF Disabling, off

\* It disables in gdb and in the mirror, or the command failed.
LEMMA DisableIs ==
    ASSUME NEW w, NEW m \in DOMAIN w.st.mirror, NEW bp \in Bps, Base(setting, w),
           w.st.mirror[m] = bp,
           NEW r \in Send(w, Disabling(m, bp)), NEW v,
           v = IF r.ok THEN [r.w EXCEPT !.st.mirror = With(@, m, Off(bp))] ELSE r.w
    PROVE  DisableOk(w, m, bp, v) \/ DisableFails(w, m, bp, v)
<1> DEFINE cmd == Disabling(m, bp)
           u == Enable(w, cmd, FALSE)
           o == Off(bp)
<1>0. m \in Nat /\ w \in AllWorlds
  BY ShapeNat DEF Base, Shape
<1>1. /\ cmd \in Commands
      /\ cmd.verb = "enable"
      /\ cmd.n = m
      /\ o \in Bps
  BY <1>0, DisablingIs
<1> HIDE DEF cmd
<1>2. (Succeeds(w, cmd, r) \/ Fails(w, cmd, r)) /\ Obeys(w, cmd, r)
  BY SendIs DEF cmd
<1>3. CASE Succeeds(w, cmd, r)
  <2>1. Heard(w, cmd) /\ Accepts(w, cmd) /\ r.w = Execute(w, cmd, FALSE) /\ r.ok
    BY <1>3 DEF Succeeds, Heard
  <2>2. m \in DOMAIN w.gdb.table /\ Execute(w, cmd, FALSE) = u
    BY <1>1, <2>1, AnsweredIs
  <2>3. v = [u EXCEPT !.st.mirror = With(@, m, o)]
    BY <2>1, <2>2
  <2>4. u \in AllWorlds /\ u.st = w.st
    BY <1>0, <1>1, <2>2, EnableIs
  <2> HIDE DEF u, o
  <2>5. u.st \in Mirrors
    BY <2>4 DEF AllWorlds
  <2>6. v = [u EXCEPT !.st = [u.st EXCEPT !.mirror = With(u.st.mirror, m, o)]]
    BY <2>3, Zenon
  <2>7. [u.st EXCEPT !.mirror = With(u.st.mirror, m, o)]
          = [u.st EXCEPT !.mirror = With(u.st.mirror, m, o), !.ours = u.st.ours]
    <3> DEFINE t == With(u.st.mirror, m, o)
    <3> HIDE DEF t
    <3>1. [u.st EXCEPT !.mirror = t] = [u.st EXCEPT !.mirror = t, !.ours = u.st.ours]
      BY <2>5 DEF Mirrors
    <3> QED
      BY <3>1 DEF t
  <2>8. Turned(u.st.mirror[m], FALSE) = o
    BY <2>4 DEF Turned, Off, o
  <2>9. v = Noted(u, m, FALSE)
    BY <2>6, <2>7, <2>8, Zenon DEF Noted, Mirrored
  <2> QED
    BY <2>1, <2>2, <2>9 DEF DisableOk, cmd, u
<1>4. CASE Fails(w, cmd, r)
  <2>1. ~r.ok /\ Left(w, cmd, v)
    BY <1>4 DEF Fails
  <2>2. ASSUME setting.late = 0, w.gdb.up
        PROVE  m \notin DOMAIN w.gdb.table
    <3>1. ~Accepts(w, cmd)
      BY <1>1, <1>2, <2>1, <2>2 DEF Obeys
    <3> QED
      BY <1>1, <3>1 DEF Accepts
  <2> QED
    BY <2>1, <2>2 DEF DisableFails, cmd
<1> QED
  BY <1>2, <1>3, <1>4

\* It keeps the invariant.
LEMMA DisableBase ==
    ASSUME NEW w, NEW m \in DOMAIN w.st.mirror, NEW bp \in Bps, Base(setting, w),
           NEW v, DisableOk(w, m, bp, v) \/ DisableFails(w, m, bp, v)
    PROVE  Base(setting, v)
<1> DEFINE cmd == Disabling(m, bp)
<1>0. m \in Nat /\ m \in 1 .. setting.numbers
  BY ShapeNat DEF Base, Shape, Sized
<1>1. /\ cmd \in Commands
      /\ cmd.verb = "enable"
      /\ cmd.n = m
      /\ ~cmd.typed
      /\ cmd.bp.enabled = FALSE
  BY <1>0, DisablingIs DEF Commands, Bps
<1>2. \/ m \in DOMAIN w.gdb.table /\ v = Noted(Enable(w, cmd, FALSE), m, FALSE)
      \/ Left(w, cmd, v)
  BY DEF DisableOk, DisableFails
<1> HIDE DEF cmd
<1>3. Legit(setting, cmd) /\ Fit(setting, w, cmd)
  BY <1>0, <1>1 DEF Legit, Fit
<1>4. CASE m \in DOMAIN w.gdb.table /\ v = Noted(Enable(w, cmd, FALSE), m, FALSE)
  <2>1. cmd.n \in DOMAIN w.gdb.table
    BY <1>1, <1>4
  <2>2. v = Noted(Enable(w, cmd, FALSE), cmd.n, cmd.bp.enabled)
    BY <1>1, <1>4
  <2>3. cmd.n \in DOMAIN w.st.mirror
    BY <1>1
  <2> QED
    BY <1>1, <1>3, <2>1, <2>2, <2>3, SwitchBase
<1>5. CASE Left(w, cmd, v)
  BY <1>3, <1>5, LeftBase
<1> QED
  BY <1>2, <1>4, <1>5

\* It is a step of a placement.
LEMMA DisableOnward ==
    ASSUME NEW w, NEW m \in DOMAIN w.st.mirror, NEW bp \in Bps, Base(setting, w),
           NEW v, DisableOk(w, m, bp, v) \/ DisableFails(w, m, bp, v), NEW n
    PROVE  Onward(w, v, n, m)
<1> DEFINE cmd == Disabling(m, bp)
           u == Enable(w, cmd, FALSE)
<1>0. /\ m \in Nat
      /\ m \in 1 .. setting.numbers
      /\ w \in AllWorlds
      /\ w.gdb.next \in Nat
      /\ w.st.mirror \in Tables
      /\ w.st.mirror[m] \in Bps
  BY ShapeNat, TableBp DEF Base, Shape, Sized, AllWorlds, Mirrors, Gdbs
<1>1. /\ cmd \in Commands
      /\ cmd.verb = "enable"
      /\ cmd.n = m
  BY <1>0, DisablingIs
<1>2. \/ m \in DOMAIN w.gdb.table /\ v = Noted(u, m, FALSE)
      \/ Left(w, cmd, v)
  BY DEF DisableOk, DisableFails
<1> HIDE DEF cmd
<1>3. CASE m \in DOMAIN w.gdb.table /\ v = Noted(u, m, FALSE)
  <2>1. /\ u \in AllWorlds
        /\ u.st = w.st
        /\ u.gdb.next = w.gdb.next
        /\ SameStatus(u.gdb, w.gdb)
    BY <1>0, <1>1, <1>3, EnableIs
  <2> HIDE DEF u
  <2>2. PICK off \in BOOLEAN : off = FALSE
    OBVIOUS
  <2>3. v = Noted(u, m, off)
    BY <1>3, <2>2
  <2> HIDE <2>2
  <2>4. m \in DOMAIN u.st.mirror
    BY <2>1
  <2>5. /\ v \in AllWorlds
        /\ v.st.mirror = With(u.st.mirror, m, Turned(u.st.mirror[m], off))
        /\ SameActor(v.st, u.st)
        /\ v.gdb = u.gdb
    BY <2>1, <2>3, <2>4, NotedIs
  <2>6. /\ Turned(w.st.mirror[m], off) \in Bps
        /\ Turned(w.st.mirror[m], off).by = w.st.mirror[m].by
    BY <1>0, TurnedIs DEF Alike
  <2>7. Put(v.st.mirror, w.st.mirror, m, Turned(w.st.mirror[m], off))
    BY <1>0, <2>1, <2>5, <2>6, PutTable
  <2>8. w.gdb.next <= v.gdb.next
    BY <1>0, <2>1, <2>5
  <2>9. \A j \in DOMAIN w.st.mirror : j # n =>
           /\ j \in DOMAIN v.st.mirror
           /\ w.st.mirror[j].by # "gdb" => v.st.mirror[j].by # "gdb"
           /\ j # m => v.st.mirror[j] = w.st.mirror[j]
    BY <2>6, <2>7 DEF Put
  <2> QED
    BY <2>1, <2>5, <2>8, <2>9 DEF Onward, SameStatus
<1>4. CASE Left(w, cmd, v)
  <2>1. Legit(setting, cmd)
    BY <1>0, <1>1, DisablingIs DEF Legit, cmd
  <2> QED
    BY <1>4, <2>1, LeftGoes, GoesOnward
<1> QED
  BY <1>2, <1>3, <1>4

\* What is placed is the breakpoint on the name, on an address.
LEMMA PlacedIs ==
    ASSUME NEW s, NEW w, Base(s, w), NEW n \in DOMAIN w.st.mirror, w.st.mirror[n].by # "gdb"
    PROVE  /\ Showable(Placed(w, n))
           /\ Placed(w, n).place = "address"
           /\ Placed(w, n).temporary = w.st.mirror[n].temporary
           /\ Placed(w, n).tag = w.st.mirror[n].tag
           /\ Placed(w, n).by = w.st.mirror[n].by
           /\ Placed(w, n).at = w.st.mirror[n].at
           /\ Placed(w, n).enabled
           /\ ~Placed(w, n).pending
<1>1. w.st.mirror \in Tables /\ Good(w.st.mirror[n])
  BY DEF Base, Shape, Goods, AllWorlds, Mirrors
<1> DEFINE o == w.st.mirror[n]
           b == Breakpoint("address", o.temporary, o.tag, o.by, o.at)
<1>2. /\ o.temporary \in BOOLEAN
      /\ o.tag \in Nat
      /\ o.by \in {"user", "runTo", "gdb", "typed"}
      /\ o.at \in Nat
  BY <1>1, TableBp DEF Bps
<1>3. o.by # "gdb" /\ (o.tag # 0 => ~o.temporary)
  BY <1>1 DEF Good
<1>4. Placed(w, n) = b
  BY DEF Placed
<1> HIDE DEF o
<1>5. b \in Bps
  BY <1>2, BreakpointType
<1>6. /\ b.place = "address"
      /\ b.temporary = o.temporary
      /\ b.tag = o.tag
      /\ b.by = o.by
      /\ b.at = o.at
      /\ b.enabled
      /\ ~b.pending
  BY DEF Breakpoint, Waiting
<1> HIDE DEF b
<1>7. Showable(b)
  BY <1>3, <1>5, <1>6 DEF Showable
<1> QED
  BY <1>4, <1>6, <1>7 DEF o

InsertFails(w, verb, bp, wish, v) ==
    /\ Left(w, Inserting(verb, bp, wish), v)
    /\ setting.late = 0 /\ ~setting.refuse /\ w.gdb.up => ~Accepts(w, Inserting(verb, bp, wish))

\* A placement inserts, disables if it must, and drops the name; each may fail.
LEMMA PlaceOneIs ==
    ASSUME NEW w, NEW n, Base(setting, w), Placeable(setting, w, n), NEW v \in PlaceOne(w, n)
    PROVE  LET bp == Placed(w, n)
               k == w.gdb.next
           IN \/ InsertFails(w, "insertNow", bp, FALSE, v)
              \/ \E x : /\ InsertOk(w, Inserting("insertNow", bp, FALSE), x)
                        /\ w.st.mirror[n].enabled
                        /\ v \in DropBreakpoint(x, n, FALSE)
              \/ \E x, y : /\ InsertOk(w, Inserting("insertNow", bp, FALSE), x)
                           /\ ~w.st.mirror[n].enabled
                           /\ DisableOk(x, k, bp, y) \/ DisableFails(x, k, bp, y)
                           /\ v \in DropBreakpoint(y, n, FALSE)
<1> DEFINE bp == Placed(w, n)
           k == w.gdb.next
           cmd == Inserting("insertNow", bp, FALSE)
           Dis(x) == Send(x, Disabling(x.gdb.next - 1, bp))
           Note(x, u) == [u EXCEPT !.st.mirror = With(@, x.gdb.next - 1, Off(bp))]
<1>0. w \in AllWorlds /\ k \in Nat /\ n \in DOMAIN w.st.mirror /\ w.st.mirror[n].by # "gdb"
      /\ w.st.mirror \in Tables
  BY DEF Base, Shape, AllWorlds, Gdbs, Mirrors, Placeable
<1>1. Showable(bp) /\ bp \in Bps
  BY <1>0, PlacedIs DEF Showable
<1>2. PICK i \in InsertBreakpoint(w, "insertNow", bp, FALSE) :
         v \in IF i.ok
               THEN IF w.st.mirror[n].enabled
                    THEN DropBreakpoint(i.w, n, FALSE)
                    ELSE UNION {IF r.ok THEN DropBreakpoint(Note(i.w, r.w), n, FALSE)
                                        ELSE DropBreakpoint(r.w, n, FALSE) : r \in Dis(i.w)}
               ELSE {i.w}
  BY DEF PlaceOne, Placed, Follow, Done, SendThenElse, Newest, Disabling, Off
<1> HIDE DEF bp, k
<1>3. \/ i.ok /\ InsertOk(w, cmd, i.w)
      \/ Fails(w, cmd, i) /\ Obeys(w, cmd, i)
  BY <1>1, <1>2, InsertBreakpointIs
<1>c. cmd.verb = "insertNow"
  BY <1>1, InsertingIs
<1> HIDE DEF cmd
<1>4. CASE Fails(w, cmd, i) /\ Obeys(w, cmd, i)
  <2>1. ~i.ok /\ Left(w, cmd, i.w)
    BY <1>4 DEF Fails
  <2>2. v = i.w
    BY <1>2, <2>1
  <2>3. setting.late = 0 /\ ~setting.refuse /\ w.gdb.up => ~Accepts(w, cmd)
    BY <1>4, <2>1, <1>c DEF Obeys
  <2> QED
    BY <2>1, <2>2, <2>3 DEF InsertFails, bp, cmd
<1>5. CASE i.ok /\ InsertOk(w, cmd, i.w) /\ w.st.mirror[n].enabled
  BY <1>2, <1>5 DEF bp, cmd
<1>6. CASE i.ok /\ InsertOk(w, cmd, i.w) /\ ~w.st.mirror[n].enabled
  <2> DEFINE x == i.w
  <2>1. PICK r \in Dis(x) : v \in IF r.ok THEN DropBreakpoint(Note(x, r.w), n, FALSE)
                                          ELSE DropBreakpoint(r.w, n, FALSE)
    BY <1>2, <1>6
  <2>2. PICK y : y = IF r.ok THEN Note(x, r.w) ELSE r.w
    OBVIOUS
  <2>3. v \in DropBreakpoint(y, n, FALSE)
    BY <2>1, <2>2
  <2>4. InsertOk(w, cmd, x)
    BY <1>6
  <2> HIDE DEF x
  <2>5. /\ x \in AllWorlds
        /\ x.gdb.next = k + 1
        /\ x.st.mirror = With(w.st.mirror, k, Made(w, cmd))
    <3>1. cmd \in Commands /\ ~cmd.typed
      BY <1>1, InsertingIs DEF cmd
    <3>2. x = Registered(Insert(w, cmd, FALSE))
      BY <2>4 DEF InsertOk
    <3> QED
      BY <1>0, <3>1, <3>2, RegisteredIs DEF k
  <2>6. x.gdb.next - 1 = k
    BY <1>0, <2>5
  <2>7. Made(w, cmd) = bp
    <3>1. cmd.bp = bp
      BY <1>1, InsertingIs DEF cmd
    <3>2. bp.place = "address" /\ ~bp.pending
      BY <1>0, PlacedIs DEF bp
    <3>3. Resolved(w.gdb, bp) = bp
      BY <1>1, <3>2 DEF Resolved, Bps
    <3> QED
      BY <3>1, <3>3 DEF Made
  <2>8. k \in DOMAIN x.st.mirror /\ x.st.mirror[k] = bp
    <3>1. Put(x.st.mirror, w.st.mirror, k, bp)
      BY <1>0, <1>1, <2>5, <2>7, PutTable
    <3> QED
      BY <3>1 DEF Put
  <2>9. Base(setting, x)
    BY <1>1, <2>4, InsertOkIs DEF cmd
  <2>10. r \in Send(x, Disabling(k, bp))
    BY <2>1, <2>6
  <2>11. y = IF r.ok THEN [r.w EXCEPT !.st.mirror = With(@, k, Off(bp))] ELSE r.w
    BY <2>2, <2>6
  <2>12. DisableOk(x, k, bp, y) \/ DisableFails(x, k, bp, y)
    BY <1>1, <2>8, <2>9, <2>10, <2>11, DisableIs
  <2> QED
    BY <1>6, <2>3, <2>4, <2>12 DEF bp, k, cmd
<1> QED
  BY <1>3, <1>4, <1>5, <1>6

\* What the three come to, field by field.
LEMMA InsertOkPuts ==
    ASSUME NEW w \in AllWorlds, NEW verb \in {"insert", "insertNow"}, NEW bp \in Bps,
           NEW wish \in BOOLEAN, NEW v, InsertOk(w, Inserting(verb, bp, wish), v)
    PROVE  LET k == w.gdb.next
               made == Made(w, Inserting(verb, bp, wish))
           IN /\ v \in AllWorlds
              /\ w.gdb.up /\ w.gdb.late = <<>>
              /\ k \in Nat
              /\ v.gdb.next = k + 1
              /\ made = Resolved(w.gdb, bp)
              /\ made \in Bps
              /\ Alike(made, bp)
              /\ made.enabled = bp.enabled
              /\ Put(v.gdb.table, w.gdb.table, k, made)
              /\ Put(v.st.mirror, w.st.mirror, k, made)
              /\ v.st.ours = w.st.ours \cup {k}
              /\ SameStatus(v.gdb, w.gdb)
              /\ SameActor(v.st, w.st)
              /\ v.intake = w.intake
              /\ v.wanted = Wished(w, bp.tag, wish)
<1> DEFINE cmd == Inserting(verb, bp, wish)
           k == w.gdb.next
           made == Made(w, cmd)
<1>0. k \in Nat /\ w.st.mirror \in Tables /\ w.gdb.table \in Tables
  BY DEF AllWorlds, Gdbs, Mirrors
<1>1. /\ cmd \in Commands
      /\ cmd.bp = bp
      /\ ~cmd.typed
      /\ cmd.wish = wish
  BY InsertingIs
<1>2. v = Registered(Insert(w, cmd, FALSE)) /\ w.gdb.up /\ w.gdb.late = <<>>
  BY DEF InsertOk, Heard
<1> HIDE DEF cmd
<1>3. made = Resolved(w.gdb, bp)
  BY <1>1 DEF Made
<1>4. made \in Bps /\ Alike(made, bp) /\ made.enabled = bp.enabled
  BY <1>1, MadeIs
<1>5. /\ v \in AllWorlds
      /\ v.gdb.table = With(w.gdb.table, k, made)
      /\ v.gdb.next = k + 1
      /\ SameStatus(v.gdb, w.gdb)
      /\ v.st.mirror = With(w.st.mirror, k, made)
      /\ v.st.ours = w.st.ours \cup {k}
      /\ SameActor(v.st, w.st)
      /\ v.intake = w.intake
      /\ v.wanted = Wished(w, made.tag, cmd.wish)
  BY <1>1, <1>2, RegisteredIs
<1>6. made.tag = bp.tag
  BY <1>4 DEF Alike
<1> HIDE DEF k, made
<1>7. /\ Put(v.gdb.table, w.gdb.table, k, made)
      /\ Put(v.st.mirror, w.st.mirror, k, made)
  BY <1>0, <1>4, <1>5, PutTable
<1>8. v.wanted = Wished(w, bp.tag, wish)
  BY <1>1, <1>5, <1>6
<1> QED
  BY <1>0, <1>2, <1>3, <1>4, <1>5, <1>7, <1>8 DEF k, made, cmd

\* A drop that succeeded cuts one entry from both tables.
LEMMA DropOkCuts ==
    ASSUME NEW w \in AllWorlds, NEW n \in Nat, NEW wish \in BOOLEAN, NEW v,
           DropOk(w, n, wish, v)
    PROVE  /\ v \in AllWorlds
           /\ w.gdb.up /\ w.gdb.late = <<>>
           /\ n \in DOMAIN w.gdb.table
           /\ v.gdb.next = w.gdb.next
           /\ Cut(v.gdb.table, w.gdb.table, n)
           /\ Cut(v.st.mirror, w.st.mirror, n)
           /\ v.st.ours = w.st.ours \ {n}
           /\ SameStatus(v.gdb, w.gdb)
           /\ SameActor(v.st, w.st)
           /\ v.intake = w.intake
           /\ v.wanted = {u \in w.wanted : wish => u.tag # w.gdb.table[n].tag}
<1> DEFINE cmd == Deleting(n, wish)
<1>0. w.st.mirror \in Tables /\ w.gdb.table \in Tables
  BY DEF AllWorlds, Gdbs, Mirrors
<1>1. /\ cmd \in Commands
      /\ cmd.n = n
      /\ ~cmd.typed
      /\ cmd.wish = wish
  BY DeletingIs
<1>2. /\ v = Forget(Delete(w, cmd, FALSE), cmd.n)
      /\ w.gdb.up /\ w.gdb.late = <<>>
      /\ cmd.n \in DOMAIN w.gdb.table
  BY <1>1 DEF DropOk, Heard
<1> HIDE DEF cmd
<1>3. /\ v \in AllWorlds
      /\ v.gdb.table = Without(w.gdb.table, cmd.n)
      /\ v.gdb.next = w.gdb.next
      /\ SameStatus(v.gdb, w.gdb)
      /\ v.st.mirror = Without(w.st.mirror, cmd.n)
      /\ v.st.ours = w.st.ours \ {cmd.n}
      /\ SameActor(v.st, w.st)
      /\ v.intake = w.intake
      /\ v.wanted = {u \in w.wanted : cmd.wish => u.tag # w.gdb.table[cmd.n].tag}
  BY <1>1, <1>2, DroppedIs
<1>4. /\ Cut(v.gdb.table, w.gdb.table, n)
      /\ Cut(v.st.mirror, w.st.mirror, n)
  BY <1>0, <1>1, <1>3, CutTable
<1> QED
  BY <1>1, <1>2, <1>3, <1>4

\* A disable that succeeded changes one entry of both tables.
LEMMA DisableOkPuts ==
    ASSUME NEW w \in AllWorlds, NEW m \in DOMAIN w.st.mirror, NEW bp \in Bps, NEW v,
           DisableOk(w, m, bp, v)
    PROVE  /\ v \in AllWorlds
           /\ w.gdb.up /\ w.gdb.late = <<>>
           /\ m \in DOMAIN w.gdb.table
           /\ v.gdb.next = w.gdb.next
           /\ Put(v.gdb.table, w.gdb.table, m, Off(w.gdb.table[m]))
           /\ Put(v.st.mirror, w.st.mirror, m, Off(w.st.mirror[m]))
           /\ Alike(Off(w.gdb.table[m]), w.gdb.table[m])
           /\ ~Off(w.gdb.table[m]).enabled
           /\ v.st.ours = w.st.ours
           /\ SameStatus(v.gdb, w.gdb)
           /\ SameActor(v.st, w.st)
           /\ v.intake = w.intake
           /\ v.wanted = w.wanted
<1> DEFINE cmd == Disabling(m, bp)
           u == Enable(w, cmd, FALSE)
<1>0. /\ w.st.mirror \in Tables
      /\ w.gdb.table \in Tables
      /\ m \in Nat
      /\ w.st.mirror[m] \in Bps
  BY TableBp DEF AllWorlds, Gdbs, Mirrors
<1>1. /\ cmd \in Commands
      /\ cmd.n = m
      /\ cmd.bp.enabled = FALSE
      /\ ~cmd.typed
      /\ ~cmd.wish
  BY <1>0, DisablingIs DEF Commands, Bps
<1>2. /\ w.gdb.up /\ w.gdb.late = <<>>
      /\ m \in DOMAIN w.gdb.table
      /\ v = Noted(u, m, FALSE)
  BY DEF DisableOk, Heard
<1>3. w.gdb.table[m] \in Bps
  BY <1>0, <1>2, TableBp
<1> HIDE DEF cmd
<1>4. /\ u \in AllWorlds
      /\ u.st = w.st
      /\ u.gdb.table = With(w.gdb.table, cmd.n, Turned(w.gdb.table[cmd.n], cmd.bp.enabled))
      /\ u.gdb.next = w.gdb.next
      /\ SameStatus(u.gdb, w.gdb)
      /\ u.wanted = Switched(w, Turned(w.gdb.table[cmd.n], cmd.bp.enabled).tag,
                             cmd.bp.enabled, cmd.wish)
      /\ u.intake = w.intake
  BY <1>1, <1>2, EnableIs
<1> HIDE DEF u
<1>5. PICK off \in BOOLEAN : off = FALSE
  OBVIOUS
<1>6. v = Noted(u, m, off) /\ m \in DOMAIN u.st.mirror
  BY <1>2, <1>4, <1>5
<1>7. /\ v \in AllWorlds
      /\ v.st.mirror = With(u.st.mirror, m, Turned(u.st.mirror[m], off))
      /\ v.st.ours = u.st.ours
      /\ SameActor(v.st, u.st)
      /\ v.gdb = u.gdb
      /\ v.intake = u.intake
      /\ v.wanted = u.wanted
  <2> HIDE <1>5
  <2> QED
    BY <1>4, <1>6, NotedIs
<1>8. /\ Turned(w.gdb.table[m], off) = Off(w.gdb.table[m])
      /\ Turned(w.st.mirror[m], off) = Off(w.st.mirror[m])
  BY <1>5 DEF Turned, Off
<1>9. /\ Off(w.gdb.table[m]) \in Bps
      /\ Off(w.st.mirror[m]) \in Bps
      /\ Alike(Off(w.gdb.table[m]), w.gdb.table[m])
      /\ ~Off(w.gdb.table[m]).enabled
  BY <1>0, <1>3 DEF Off, Bps, Alike
<1>10. v.wanted = w.wanted
  BY <1>1, <1>4, <1>7 DEF Switched
<1>11. /\ v.gdb.table = With(w.gdb.table, m, Off(w.gdb.table[m]))
       /\ v.st.mirror = With(w.st.mirror, m, Off(w.st.mirror[m]))
  <2>1. cmd.bp.enabled = off
    BY <1>1, <1>5
  <2> QED
    BY <2>1, <1>1, <1>4, <1>7, <1>8
<1>12. /\ Put(v.gdb.table, w.gdb.table, m, Off(w.gdb.table[m]))
       /\ Put(v.st.mirror, w.st.mirror, m, Off(w.st.mirror[m]))
  BY <1>0, <1>9, <1>11, PutTable
<1> QED
  BY <1>2, <1>4, <1>7, <1>9, <1>10, <1>12

\* An insert that failed is a move of gdb.
LEMMA InsertFailsIs ==
    ASSUME NEW w, NEW verb \in {"insert", "insertNow"}, NEW bp, Showable(bp),
           NEW wish \in BOOLEAN, Base(setting, w), NEW v, InsertFails(w, verb, bp, wish, v)
    PROVE  Base(setting, v) /\ Goes(w, v)
<1> DEFINE cmd == Inserting(verb, bp, wish)
<1>1. Fit(setting, w, cmd) /\ Legit(setting, cmd)
  BY InsertingFits
<1>2. Left(w, cmd, v)
  BY DEF InsertFails
<1> HIDE DEF cmd
<1> QED
  BY <1>1, <1>2, LeftBase, LeftGoes

\* The placement of one breakpoint keeps the invariant and disturbs no other.
LEMMA PlaceOneBase ==
    ASSUME NEW w, NEW n, Base(setting, w), Placeable(setting, w, n), NEW v \in PlaceOne(w, n)
    PROVE  Base(setting, v) /\ Onward(w, v, n, w.gdb.next)
<1> DEFINE bp == Placed(w, n)
           k == w.gdb.next
           cmd == Inserting("insertNow", bp, FALSE)
<1>0. /\ w \in AllWorlds
      /\ k \in Nat
      /\ n \in DOMAIN w.st.mirror
      /\ w.st.mirror[n].by # "gdb"
      /\ n \in 1 .. setting.numbers
      /\ setting.numbers \in Nat
  BY DEF Base, Shape, Sized, AllWorlds, Gdbs, Placeable
<1>1. Showable(bp) /\ bp \in Bps
  BY <1>0, PlacedIs DEF Showable
<1>2. \/ InsertFails(w, "insertNow", bp, FALSE, v)
      \/ \E x : /\ InsertOk(w, cmd, x)
                /\ v \in DropBreakpoint(x, n, FALSE)
      \/ \E x, y : /\ InsertOk(w, cmd, x)
                   /\ DisableOk(x, k, bp, y) \/ DisableFails(x, k, bp, y)
                   /\ v \in DropBreakpoint(y, n, FALSE)
  BY PlaceOneIs
<1> HIDE DEF bp
<1>3. CASE InsertFails(w, "insertNow", bp, FALSE, v)
  BY <1>1, <1>3, InsertFailsIs, GoesOnward
<1>4. ASSUME NEW x, InsertOk(w, cmd, x)
      PROVE  /\ Base(setting, x)
             /\ Onward(w, x, n, k)
             /\ x \in AllWorlds
             /\ k \in DOMAIN x.st.mirror
  <2>1. Base(setting, x) /\ Onward(w, x, n, k)
    BY <1>1, <1>4, InsertOkIs, InsertOkOnward
  <2>2. Put(x.st.mirror, w.st.mirror, k, Made(w, cmd))
    BY <1>0, <1>1, <1>4, InsertOkPuts
  <2> QED
    BY <2>1, <2>2 DEF Onward, Put
<1>5. ASSUME NEW y, Base(setting, y), Onward(w, y, n, k), v \in DropBreakpoint(y, n, FALSE)
      PROVE  Base(setting, v) /\ Onward(w, v, n, k)
  <2>1. Tame(setting, y) => n < y.gdb.next
    <3>1. Tame(setting, y) => Tame(setting, w)
      BY <1>5 DEF Tame, Onward
    <3>2. Tame(setting, w) => n < w.gdb.next
      BY DEF Placeable
    <3>3. n \in Nat /\ w.gdb.next <= y.gdb.next /\ y.gdb.next \in Nat
      BY <1>0, <1>5 DEF Onward, AllWorlds, Gdbs
    <3> QED
      BY <1>0, <3>1, <3>2, <3>3
  <2>2. Base(setting, v) /\ Onward(y, v, n, k)
    BY <1>0, <1>5, <2>1, DropBase, DropOnward
  <2> QED
    BY <1>0, <1>5, <2>2, OnwardOn
<1>6. CASE \E x : /\ InsertOk(w, cmd, x)
                  /\ v \in DropBreakpoint(x, n, FALSE)
  BY <1>4, <1>5, <1>6
<1>7. CASE \E x, y : /\ InsertOk(w, cmd, x)
                     /\ DisableOk(x, k, bp, y) \/ DisableFails(x, k, bp, y)
                     /\ v \in DropBreakpoint(y, n, FALSE)
  <2>1. PICK x, y : /\ InsertOk(w, cmd, x)
                    /\ DisableOk(x, k, bp, y) \/ DisableFails(x, k, bp, y)
                    /\ v \in DropBreakpoint(y, n, FALSE)
    BY <1>7
  <2>2. /\ Base(setting, x)
        /\ Onward(w, x, n, k)
        /\ k \in DOMAIN x.st.mirror
    BY <1>4, <2>1
  <2> HIDE DEF k
  <2>3. Base(setting, y) /\ Onward(x, y, n, k)
    BY <1>1, <2>1, <2>2, DisableBase, DisableOnward
  <2>4. Onward(w, y, n, k)
    BY <1>0, <2>2, <2>3, OnwardOn
  <2> QED
    BY <1>5, <2>1, <2>3, <2>4 DEF k
<1> QED
  BY <1>2, <1>3, <1>6, <1>7

-----------------------------------------------------------------------------
(* Loops: a function defined by recursion on 0 .. k exists, and what each  *)
(* of its steps preserves holds of its values.                             *)

\* The order of the numbers is well-founded, so every set of numbers has a
\* least, and what holds of 0 and of each next number holds of all.
LEMMA Less == IsWellFoundedOn({p \in Nat \X Nat : p[1] < p[2]}, Nat)
<1>1. IsWellFoundedOn(OpToRel(<, Nat), Nat)
  BY NatLessThanWellFounded
<1> QED
  BY <1>1 DEF OpToRel

\* So every set of numbers has a least,
LEMMA Least ==
    ASSUME NEW T, T \subseteq Nat, T # {}
    PROVE  \E x \in T : \A y \in T : x <= y
<1>1. PICK R : R = {p \in Nat \X Nat : p[1] < p[2]}
  OBVIOUS
<1>2. IsWellFoundedOn(R, Nat)
  BY <1>1, Less
<1>3. PICK x \in T : \A y \in T : ~(<<y, x>> \in R)
  BY <1>2, WFMin
<1>4. ASSUME NEW y \in T PROVE x <= y
  <2>1. x \in Nat /\ y \in Nat /\ ~(<<y, x>> \in R)
    BY <1>3
  <2>2. y < x => <<y, x>> \in R
    BY <1>1, <2>1
  <2> QED
    BY <2>1, <2>2
<1> QED
  BY <1>4

\* and what holds of 0, and of the next number whenever it holds of one, holds
\* of all.
LEMMA Inductive ==
    ASSUME NEW S, 0 \in S, \A n \in Nat : n \in S => n + 1 \in S
    PROVE  Nat \subseteq S
<1>1. PICK T : T = {n \in Nat : n \notin S}
  OBVIOUS
<1>2. CASE T # {}
  <2>1. PICK x \in T : \A y \in T : x <= y
    BY <1>1, <1>2, Least
  <2>2. x \in Nat /\ x # 0 /\ x - 1 \in Nat /\ x - 1 \notin T
    BY <1>1, <2>1
  <2>3. x - 1 \in S /\ x - 1 + 1 = x
    BY <1>1, <2>2
  <2> QED
    BY <1>1, <2>1, <2>2, <2>3
<1> QED
  BY <1>1, <1>2

\* What is true of the world before the loop over the deferred breakpoints, and
\* kept by each placement in one order of them, is true after the last.
LEMMA PlaceLoop ==
    ASSUME NEW w, NEW order, NEW N \in Nat, NEW Q, w \in Q[0],
           \A n \in 1 .. N : \A v \in Q[n - 1] : PlaceOne(v, order[n]) \subseteq Q[n]
    PROVE  PlaceFirst(w, order, N) \subseteq Q[N]
<1> DEFINE Body(n, before) == UNION {PlaceOne(v, order[n]) : v \in before}
           F(g, k) == [n \in 0 .. k |-> IF n = 0 THEN {w} ELSE Body(n, g[n - 1])]
           A == CHOOSE g : g = F(g, N)
           E == {k \in Nat : \E g : g = F(g, k)}
           S == {n \in Nat : n <= N => A[n] \subseteq Q[n]}
<1>1. PlaceFirst(w, order, N) = A[N]
  BY DEF PlaceFirst
<1>b. ASSUME NEW n \in 1 .. N, NEW before, before \subseteq Q[n - 1]
      PROVE  Body(n, before) \subseteq Q[n]
  <2>1. \A v \in before : PlaceOne(v, order[n]) \subseteq Q[n]
    BY <1>b
  <2> QED
    BY <2>1
<1> HIDE DEF Body
<1>2. 0 \in E
  <2>1. [n \in 0 .. 0 |-> {w}] = F([n \in 0 .. 0 |-> {w}], 0)
    OBVIOUS
  <2> QED
    BY <2>1
<1>3. ASSUME NEW k \in Nat, k \in E
      PROVE  k + 1 \in E
  <2>1. PICK g : g = F(g, k)
    BY <1>3
  <2> DEFINE h == [n \in 0 .. k + 1 |-> IF n = k + 1 THEN Body(k + 1, g[k]) ELSE g[n]]
  <2>2. \A n \in 0 .. k : h[n] = g[n]
    OBVIOUS
  <2>3. h[k + 1] = Body(k + 1, h[k])
    BY <2>2
  <2>4. \A n \in 0 .. k : g[n] = IF n = 0 THEN {w} ELSE Body(n, g[n - 1])
    BY <2>1
  <2>5. \A n \in 0 .. k : n # 0 => n - 1 \in 0 .. k
    OBVIOUS
  <2>6. \A n \in 0 .. k + 1 : n \in 0 .. k \/ n = k + 1
    OBVIOUS
  <2>7. k + 1 # 0 /\ k + 1 - 1 = k
    OBVIOUS
  <2>8. h = [n \in 0 .. k + 1 |-> h[n]]
    OBVIOUS
  <2> HIDE DEF h
  <2>9. ASSUME NEW n \in 0 .. k + 1
        PROVE  h[n] = IF n = 0 THEN {w} ELSE Body(n, h[n - 1])
    <3>1. CASE n \in 0 .. k /\ n = 0
      BY <2>2, <2>4, <3>1
    <3>2. CASE n \in 0 .. k /\ n # 0
      <4>1. n - 1 \in 0 .. k
        BY <2>5, <3>2
      <4>2. h[n - 1] = g[n - 1] /\ h[n] = g[n]
        BY <2>2, <3>2, <4>1
      <4>3. g[n] = Body(n, g[n - 1])
        BY <2>4, <3>2
      <4> QED
        BY <3>2, <4>2, <4>3
    <3>3. CASE n = k + 1
      <4>1. n # 0 /\ n - 1 = k
        BY <2>7, <3>3
      <4>2. h[n] = Body(n, h[k])
        BY <2>3, <3>3
      <4> QED
        BY <4>1, <4>2
    <3> QED
      BY <2>6, <3>1, <3>2, <3>3
  <2>10. h = F(h, k + 1)
    BY <2>8, <2>9
  <2> QED
    BY <2>10
<1>4. N \in E
  BY <1>2, <1>3, Inductive
<1>5. A = F(A, N)
  BY <1>4
<1> HIDE DEF A
<1>6. 0 \in S
  BY <1>5
<1>7. ASSUME NEW n \in Nat, n \in S
      PROVE  n + 1 \in S
  <2> SUFFICES ASSUME n + 1 <= N
               PROVE  A[n + 1] \subseteq Q[n + 1]
    OBVIOUS
  <2>1. A[n] \subseteq Q[n]
    BY <1>7
  <2>2. n + 1 \in 0 .. N /\ n + 1 \in 1 .. N /\ n + 1 # 0 /\ n + 1 - 1 = n
    OBVIOUS
  <2>3. A[n + 1] = Body(n + 1, A[n])
    <3>1. \A m \in 0 .. N : m # 0 => A[m] = Body(m, A[m - 1])
      BY <1>5
    <3>2. A[n + 1] = Body(n + 1, A[n + 1 - 1])
      BY <2>2, <3>1
    <3> QED
      BY <2>2, <3>2
  <2> QED
    BY <1>b, <2>1, <2>2, <2>3
<1>8. N \in S
  BY <1>6, <1>7, Inductive
<1> QED
  BY <1>1, <1>8

\* The placements of the numbers in D, in every order.
Placements(w, D) ==
    UNION {PlaceFirst(w, order, Cardinality(D)) : order \in Bijection(1 .. Cardinality(D), D)}

\* So whatever the order, what is true when none has been placed, and kept when
\* one more is, is true when all have been.
LEMMA ResolveLoop ==
    ASSUME NEW w, NEW D, IsFiniteSet(D), NEW Q, w \in Q[{}],
           \A S \in SUBSET D : \A n \in D : n \notin S =>
              \A v \in Q[S] : PlaceOne(v, n) \subseteq Q[S \cup {n}]
    PROVE  Placements(w, D) \subseteq Q[D]
<1> DEFINE N == Cardinality(D)
<1>n. N \in Nat
  BY FS_CardinalityType
<1> HIDE DEF N
<1>1. ASSUME NEW order \in Bijection(1 .. N, D)
      PROVE  PlaceFirst(w, order, N) \subseteq Q[D]
  <2> DEFINE First(k) == {order[i] : i \in 1 .. k}
             P == [k \in 0 .. N |-> Q[First(k)]]
  <2>o. /\ \A i \in 1 .. N : order[i] \in D
        /\ \A i, j \in 1 .. N : order[i] = order[j] => i = j
        /\ \A n \in D : \E i \in 1 .. N : order[i] = n
    BY DEF Bijection, Injection, Surjection, IsInjective
  <2>1. First(0) = {}
    BY SMT
  <2>2. First(N) = D
    BY <2>o
  <2>3. ASSUME NEW k \in 1 .. N
        PROVE  /\ First(k - 1) \in SUBSET D
               /\ order[k] \notin First(k - 1)
               /\ First(k) = First(k - 1) \cup {order[k]}
    <3>1. \A i : i \in 1 .. k - 1 => i \in 1 .. N /\ i # k
      BY <1>n
    <3>2. \A i : i \in 1 .. k <=> i \in 1 .. k - 1 \/ i = k
      BY <1>n
    <3> QED
      BY <2>o, <3>1, <3>2
  <2>4. \A k \in 1 .. N : k \in 0 .. N /\ k - 1 \in 0 .. N
    BY <1>n
  <2>5. 0 \in 0 .. N /\ N \in 0 .. N
    BY <1>n
  <2> HIDE DEF First
  <2>6. w \in P[0] /\ P[N] = Q[D]
    BY <2>1, <2>2, <2>5
  <2>7. \A k \in 1 .. N : P[k] = Q[First(k)] /\ P[k - 1] = Q[First(k - 1)]
    BY <2>4
  <2> HIDE DEF P
  <2>8. ASSUME NEW k \in 1 .. N, NEW v \in P[k - 1]
        PROVE  PlaceOne(v, order[k]) \subseteq P[k]
    <3>1. order[k] \in D
      BY <2>o
    <3>2. v \in Q[First(k - 1)] /\ P[k] = Q[First(k - 1) \cup {order[k]}]
      BY <2>3, <2>7
    <3> QED
      BY <2>3, <3>1, <3>2
  <2>9. PlaceFirst(w, order, N) \subseteq P[N]
    BY <1>n, <2>6, <2>8, PlaceLoop
  <2> QED
    BY <2>6, <2>9
<1>2. Placements(w, D) = UNION {PlaceFirst(w, order, N) : order \in Bijection(1 .. N, D)}
  BY DEF Placements, N
<1> QED
  BY <1>1, <1>2

\* What the actor knows of the program may change without its tables.
OnlyStatus(w, v) ==
    /\ v \in AllWorlds
    /\ v.st.mirror = w.st.mirror
    /\ v.st.ours = w.st.ours
    /\ v.gdb = w.gdb
    /\ v.intake = w.intake
    /\ v.adrift = w.adrift
    /\ v.wanted = w.wanted

\* A change of the run state keeps the invariant.
LEMMA StatusBase ==
    ASSUME NEW s, NEW w, NEW v, Base(s, w), OnlyStatus(w, v)
    PROVE  Base(s, v)
BY ActorBase DEF OnlyStatus

\* Another state of the actor with the same tables is such a change.
LEMMA StatusIs ==
    ASSUME NEW w \in AllWorlds, NEW m \in Mirrors,
           m.mirror = w.st.mirror, m.ours = w.st.ours
    PROVE  OnlyStatus(w, [w EXCEPT !.st = m]) /\ [w EXCEPT !.st = m].st = m
<1> DEFINE v == [w EXCEPT !.st = m]
<1>1. /\ v \in AllWorlds
      /\ v.st = m
      /\ v.gdb = w.gdb
      /\ v.intake = w.intake
      /\ v.adrift = w.adrift
      /\ v.wanted = w.wanted
  BY DEF AllWorlds
<1> HIDE DEF v
<1>2. OnlyStatus(w, v) /\ v.st = m
  BY <1>1 DEF OnlyStatus
<1> QED
  BY <1>2 DEF v

\* The actor told which breakpoints it has missed.
Missing(w, M) == [w EXCEPT !.st.missed = M]

LEMMA MissingIs ==
    ASSUME NEW w \in AllWorlds, NEW M \in SUBSET Nat
    PROVE  /\ OnlyStatus(w, Missing(w, M))
           /\ Missing(w, M).st.runState = w.st.runState
           /\ Missing(w, M).st.deferred = w.st.deferred
           /\ Missing(w, M).st.exe = w.st.exe
           /\ Missing(w, M).st.missed = M
<1> DEFINE m == [w.st EXCEPT !.missed = M]
<1>1. Missing(w, M) = [w EXCEPT !.st = m]
  BY Zenon DEF Missing
<1>2. w.st \in Mirrors
  BY DEF AllWorlds
<1>3. /\ m \in Mirrors /\ m.mirror = w.st.mirror /\ m.ours = w.st.ours
      /\ m.runState = w.st.runState /\ m.deferred = w.st.deferred /\ m.exe = w.st.exe
      /\ m.missed = M
  BY <1>2 DEF Mirrors
<1> HIDE DEF m
<1> QED
  BY <1>1, <1>3, StatusIs

\* The world before the placement of those in D, which leaves the others.
Passing(w, D) == Missing(w, Deferred(w) \ D)

\* Where the loop stands when the numbers of S have been seen to.
Resolving(w, v, S) ==
    /\ Base(setting, v)
    /\ v.gdb.inherited = w.gdb.inherited
    /\ w.gdb.next <= v.gdb.next
    /\ SameActor(v.st, w.st)
    /\ \A m \in Deferred(w) : m \notin S => /\ m \in DOMAIN v.st.mirror
                                           /\ v.st.mirror[m].by # "gdb"

\* A deferred breakpoint is in the mirror, on a name, and not gdb's own.
LEMMA DeferredIs ==
    ASSUME NEW s, NEW w, Base(s, w), NEW n \in Deferred(w)
    PROVE  /\ n \in DOMAIN w.st.mirror
           /\ w.st.mirror[n].place = "name"
           /\ w.st.mirror[n].by # "gdb"
           /\ n \in 1 .. s.numbers
           /\ Tame(s, w) => n < w.gdb.next
<1>1. n \in DOMAIN w.st.mirror /\ w.st.mirror[n].place = "name"
  BY DEF Deferred
<1>2. w.st.mirror[n].by # "gdb"
  BY <1>1 DEF Base, Shape, Goods, Good
<1>3. n \in 1 .. s.numbers
  BY <1>1 DEF Base, Shape, Sized
<1>4. Tame(s, w) => n < w.gdb.next
  BY <1>1 DEF Base, Same, NamesAt
<1> QED
  BY <1>1, <1>2, <1>3, <1>4

\* Those still to come are as the mirror had them.
LEMMA ResolvingPlaceable ==
    ASSUME NEW w, Base(setting, w), NEW S, NEW n \in Deferred(w), n \notin S,
           NEW v, Resolving(w, v, S)
    PROVE  Placeable(setting, v, n)
<1>1. /\ n \in 1 .. setting.numbers
      /\ Tame(setting, w) => n < w.gdb.next
  BY DeferredIs
<1>n. n \in Nat /\ w.gdb.next \in Nat /\ v.gdb.next \in Nat /\ setting.numbers \in Nat
  BY <1>1 DEF Base, Shape, Sized, AllWorlds, Gdbs, Resolving
<1>3. n \in DOMAIN v.st.mirror /\ v.st.mirror[n].by # "gdb"
  BY DEF Resolving
<1>4. Tame(setting, v) => Tame(setting, w)
  BY DEF Resolving, Tame
<1>5. w.gdb.next <= v.gdb.next
  BY DEF Resolving
<1>6. Tame(setting, v) => n < v.gdb.next
  BY <1>1, <1>n, <1>4, <1>5
<1> QED
  BY <1>1, <1>3, <1>6 DEF Placeable

\* A placement is a step of the loop.
LEMMA ResolvingStep ==
    ASSUME NEW w, Base(setting, w), NEW S, NEW n \in Deferred(w), n \notin S,
           NEW v, Resolving(w, v, S), NEW u \in PlaceOne(v, n)
    PROVE  Resolving(w, u, S \cup {n})
<1>1. Placeable(setting, v, n)
  BY ResolvingPlaceable
<1>2. Base(setting, v) /\ v \in AllWorlds
  BY DEF Resolving, Base, Shape
<1>3. Base(setting, u) /\ Onward(v, u, n, v.gdb.next)
  BY <1>1, <1>2, PlaceOneBase
<1>n. w.gdb.next \in Nat /\ v.gdb.next \in Nat /\ u.gdb.next \in Nat
  BY <1>2, <1>3 DEF Base, Shape, AllWorlds, Gdbs
<1>4. w.gdb.next <= u.gdb.next
  <2>1. w.gdb.next <= v.gdb.next /\ v.gdb.next <= u.gdb.next
    BY <1>3 DEF Resolving, Onward
  <2> QED
    BY <1>n, <2>1
<1>5. ASSUME NEW m \in Deferred(w), m \notin S \cup {n}
      PROVE  m \in DOMAIN u.st.mirror /\ u.st.mirror[m].by # "gdb"
  BY <1>3, <1>5 DEF Resolving, Onward
<1>6. SameActor(u.st, w.st) /\ u.gdb.inherited = w.gdb.inherited
  BY <1>3 DEF Resolving, Onward, SameActor
<1> QED
  BY <1>3, <1>4, <1>5, <1>6 DEF Resolving

\* Where the loop begins.
LEMMA ResolvingStart ==
    ASSUME NEW w, Base(setting, w)
    PROVE  Resolving(w, w, {})
<1>1. \A m \in Deferred(w) : m \in DOMAIN w.st.mirror /\ w.st.mirror[m].by # "gdb"
  BY DeferredIs
<1>2. w.gdb.next \in Nat
  BY DEF Base, Shape, AllWorlds, Gdbs
<1> QED
  BY <1>1, <1>2 DEF Resolving, SameActor

\* The deferred breakpoints are numbers,
LEMMA DeferredNat ==
    ASSUME NEW w, Base(setting, w)
    PROVE  Deferred(w) \subseteq Nat
<1>1. \A n \in Deferred(w) : n \in 1 .. setting.numbers
  BY DeferredIs
<1>2. setting.numbers \in Nat
  BY DEF Base, Shape, Sized
<1> QED
  BY <1>1, <1>2

\* and finitely many.
LEMMA DeferredFinite ==
    ASSUME NEW w, Base(setting, w)
    PROVE  IsFiniteSet(Deferred(w))
<1>1. Deferred(w) \subseteq 1 .. setting.numbers
  BY DEF Deferred, Base, Shape, Sized
<1>2. IsFiniteSet(1 .. setting.numbers)
  <2>1. setting.numbers \in Nat
    BY DEF Base, Shape, Sized
  <2> QED
    BY <2>1, FS_Interval
<1> QED
  BY <1>1, <1>2, FS_Subset

\* What the placement begins with.
LEMMA PassingIs ==
    ASSUME NEW w, Base(setting, w), NEW D \in SUBSET Deferred(w)
    PROVE  /\ Base(setting, Passing(w, D))
           /\ OnlyStatus(w, Passing(w, D))
           /\ Passing(w, D).st.runState = w.st.runState
           /\ Passing(w, D).st.deferred = w.st.deferred
           /\ Passing(w, D).st.missed = Deferred(w) \ D
           /\ Deferred(Passing(w, D)) = Deferred(w)
           /\ IsFiniteSet(D)
<1>1. w \in AllWorlds /\ setting.numbers \in Nat
  BY DEF Base, Shape, Sized
<1>2. \A n \in Deferred(w) : n \in 1 .. setting.numbers
  BY DeferredIs
<1>3. Deferred(w) \ D \in SUBSET Nat
  BY <1>1, <1>2
<1> DEFINE p == Passing(w, D)
<1>4. /\ OnlyStatus(w, p)
      /\ p.st.runState = w.st.runState
      /\ p.st.deferred = w.st.deferred
      /\ p.st.missed = Deferred(w) \ D
  BY <1>1, <1>3, MissingIs DEF Passing
<1>5. IsFiniteSet(D)
  BY DeferredFinite, FS_Subset
<1> HIDE DEF p
<1>6. Base(setting, p) /\ Deferred(p) = Deferred(w)
  BY <1>4, StatusBase DEF OnlyStatus, Deferred
<1> QED
  BY <1>4, <1>5, <1>6 DEF p

\* A placement is one of some of the deferred breakpoints.
LEMMA ResolveDeferredIs ==
    ASSUME NEW w, NEW v \in ResolveDeferred(w)
    PROVE  \E D \in SUBSET Deferred(w) : v \in Placements(Passing(w, D), D)
BY DEF ResolveDeferred, Resolve, Placements, Passing, Missing

\* It is a loop, whose steps are placements.
LEMMA PlacementsBase ==
    ASSUME NEW w, Base(setting, w), NEW D \in SUBSET Deferred(w), IsFiniteSet(D),
           NEW v \in Placements(w, D)
    PROVE  Resolving(w, v, D)
<1> DEFINE Q == [S \in SUBSET D |-> {u \in AllWorlds : Resolving(w, u, S)}]
<1>q. ASSUME NEW S \in SUBSET D, NEW u, Resolving(w, u, S)
      PROVE  u \in Q[S]
  BY <1>q DEF Resolving, Base, Shape
<1>r. ASSUME NEW S \in SUBSET D, NEW u \in Q[S]
      PROVE  Resolving(w, u, S)
  OBVIOUS
<1> HIDE DEF Q
<1>1. w \in Q[{}]
  BY <1>q, ResolvingStart
<1>2. ASSUME NEW S \in SUBSET D, NEW n \in D, n \notin S, NEW u \in Q[S]
      PROVE  PlaceOne(u, n) \subseteq Q[S \cup {n}]
  <2>1. Resolving(w, u, S)
    BY <1>r
  <2>0. n \in Deferred(w)
    OBVIOUS
  <2>2. \A x \in PlaceOne(u, n) : Resolving(w, x, S \cup {n})
    BY <1>2, <2>0, <2>1, ResolvingStep
  <2>3. S \cup {n} \in SUBSET D
    OBVIOUS
  <2> QED
    BY <1>q, <2>2, <2>3
<1>3. Placements(w, D) \subseteq Q[D]
  BY <1>1, <1>2, ResolveLoop
<1> QED
  BY <1>r, <1>3

\* ResolveDeferred keeps the invariant.
LEMMA ResolveBase ==
    ASSUME NEW w, Base(setting, w), NEW v \in ResolveDeferred(w)
    PROVE  Base(setting, v)
<1>1. PICK D \in SUBSET Deferred(w) : v \in Placements(Passing(w, D), D)
  BY ResolveDeferredIs
<1> DEFINE p == Passing(w, D)
<1>2. Base(setting, p) /\ D \in SUBSET Deferred(p) /\ IsFiniteSet(D)
  BY PassingIs
<1> HIDE DEF p
<1>3. Resolving(p, v, D)
  BY <1>1, <1>2, PlacementsBase DEF p
<1> QED
  BY <1>3 DEF Resolving

-----------------------------------------------------------------------------
(* What the actor knows of the program.                                    *)

RunStates == {"none", "running", "stopped"}
Deferments == {"none", "stop", "resume", "resumeMain"}

InState(w, r) == [w EXCEPT !.st.runState = r]
Deferring(w, d) == [w EXCEPT !.st.deferred = d]
Starting(w, d, M) ==
    [w EXCEPT !.st.deferred = d, !.st.runState = "running", !.st.missed = M]
Gone(w) == [w EXCEPT !.st.runState = "none", !.st.deferred = "none"]
LoadedState(w) == [w EXCEPT !.st.exe = TRUE, !.st.runState = "none"]
IssuedState(w) == [w EXCEPT !.st.issued = @ + 1]

\* So is another run state,
LEMMA InStateIs ==
    ASSUME NEW w \in AllWorlds, NEW r \in RunStates
    PROVE  /\ OnlyStatus(w, InState(w, r))
           /\ InState(w, r).st.runState = r
           /\ InState(w, r).st.deferred = w.st.deferred
           /\ InState(w, r).st.exe = w.st.exe
           /\ InState(w, r).st.missed = w.st.missed
<1> DEFINE m == [w.st EXCEPT !.runState = r]
<1>1. InState(w, r) = [w EXCEPT !.st = m]
  BY Zenon DEF InState
<1>2. w.st \in Mirrors
  BY DEF AllWorlds
<1>3. /\ m \in Mirrors /\ m.mirror = w.st.mirror /\ m.ours = w.st.ours
      /\ m.runState = r /\ m.deferred = w.st.deferred /\ m.exe = w.st.exe
      /\ m.missed = w.st.missed
  BY <1>2 DEF Mirrors, RunStates
<1> HIDE DEF m
<1> QED
  BY <1>1, <1>3, StatusIs

\* another deferred start,
LEMMA DeferringIs ==
    ASSUME NEW w \in AllWorlds, NEW d \in Deferments
    PROVE  /\ OnlyStatus(w, Deferring(w, d))
           /\ Deferring(w, d).st.runState = w.st.runState
           /\ Deferring(w, d).st.deferred = d
           /\ Deferring(w, d).st.exe = w.st.exe
           /\ Deferring(w, d).st.missed = w.st.missed
<1> DEFINE m == [w.st EXCEPT !.deferred = d]
<1>1. Deferring(w, d) = [w EXCEPT !.st = m]
  BY Zenon DEF Deferring
<1>2. w.st \in Mirrors
  BY DEF AllWorlds
<1>3. /\ m \in Mirrors /\ m.mirror = w.st.mirror /\ m.ours = w.st.ours
      /\ m.runState = w.st.runState /\ m.deferred = d /\ m.exe = w.st.exe
      /\ m.missed = w.st.missed
  BY <1>2 DEF Mirrors, Deferments
<1> HIDE DEF m
<1> QED
  BY <1>1, <1>3, StatusIs

\* what a run leaves,
LEMMA StartingIs ==
    ASSUME NEW w \in AllWorlds, NEW d \in Deferments, NEW M \in SUBSET Nat
    PROVE  /\ OnlyStatus(w, Starting(w, d, M))
           /\ Starting(w, d, M).st.runState = "running"
           /\ Starting(w, d, M).st.deferred = d
           /\ Starting(w, d, M).st.exe = w.st.exe
           /\ Starting(w, d, M).st.missed = M
<1> DEFINE m == [w.st EXCEPT !.deferred = d, !.runState = "running", !.missed = M]
<1>1. Starting(w, d, M) = [w EXCEPT !.st = m]
  <2>1. w.st \in Mirrors
    BY DEF AllWorlds
  <2> QED
    BY <2>1 DEF Starting, AllWorlds, Mirrors
<1>2. w.st \in Mirrors
  BY DEF AllWorlds
<1>3. /\ m \in Mirrors /\ m.mirror = w.st.mirror /\ m.ours = w.st.ours
      /\ m.runState = "running" /\ m.deferred = d /\ m.exe = w.st.exe
      /\ m.missed = M
  BY <1>2 DEF Mirrors, Deferments
<1> HIDE DEF m
<1> QED
  BY <1>1, <1>3, StatusIs

\* the end of the process,
LEMMA GoneIs ==
    ASSUME NEW w \in AllWorlds
    PROVE  /\ OnlyStatus(w, Gone(w))
           /\ Gone(w).st.runState = "none"
           /\ Gone(w).st.deferred = "none"
           /\ Gone(w).st.exe = w.st.exe
           /\ Gone(w).st.missed = w.st.missed
<1> DEFINE m == [w.st EXCEPT !.runState = "none", !.deferred = "none"]
<1>1. Gone(w) = [w EXCEPT !.st = m]
  BY DEF Gone, AllWorlds, Mirrors
<1>2. w.st \in Mirrors
  BY DEF AllWorlds
<1>3. /\ m \in Mirrors /\ m.mirror = w.st.mirror /\ m.ours = w.st.ours
      /\ m.runState = "none" /\ m.deferred = "none" /\ m.exe = w.st.exe
      /\ m.missed = w.st.missed
  BY <1>2 DEF Mirrors
<1> HIDE DEF m
<1> QED
  BY <1>1, <1>3, StatusIs

\* what a load leaves,
LEMMA LoadedStateIs ==
    ASSUME NEW w \in AllWorlds
    PROVE  /\ OnlyStatus(w, LoadedState(w))
           /\ LoadedState(w).st.runState = "none"
           /\ LoadedState(w).st.deferred = w.st.deferred
           /\ LoadedState(w).st.exe
           /\ LoadedState(w).st.missed = w.st.missed
<1> DEFINE m == [w.st EXCEPT !.exe = TRUE, !.runState = "none"]
<1>1. LoadedState(w) = [w EXCEPT !.st = m]
  BY DEF LoadedState, AllWorlds, Mirrors
<1>2. w.st \in Mirrors
  BY DEF AllWorlds
<1>3. /\ m \in Mirrors /\ m.mirror = w.st.mirror /\ m.ours = w.st.ours
      /\ m.runState = "none" /\ m.deferred = w.st.deferred /\ m.exe
      /\ m.missed = w.st.missed
  BY <1>2 DEF Mirrors
<1> HIDE DEF m
<1> QED
  BY <1>1, <1>3, StatusIs

\* and one wish more.
LEMMA IssuedStateIs ==
    ASSUME NEW w \in AllWorlds
    PROVE  /\ OnlyStatus(w, IssuedState(w))
           /\ IssuedState(w).st.runState = w.st.runState
           /\ IssuedState(w).st.deferred = w.st.deferred
           /\ IssuedState(w).st.exe = w.st.exe
           /\ IssuedState(w).st.missed = w.st.missed
           /\ IssuedState(w).st.issued = w.st.issued + 1
<1> DEFINE m == [w.st EXCEPT !.issued = @ + 1]
<1>1. IssuedState(w) = [w EXCEPT !.st = m]
  BY Zenon DEF IssuedState
<1>2. w.st \in Mirrors
  BY DEF AllWorlds
<1>3. /\ m \in Mirrors /\ m.mirror = w.st.mirror /\ m.ours = w.st.ours
      /\ m.runState = w.st.runState /\ m.deferred = w.st.deferred /\ m.exe = w.st.exe
      /\ m.missed = w.st.missed
      /\ m.issued = w.st.issued + 1
  BY <1>2 DEF Mirrors
<1> HIDE DEF m
<1> QED
  BY <1>1, <1>3, StatusIs

-----------------------------------------------------------------------------
(* The program resumed and stopped.                                        *)

\* A resume the actor asked for.
CarryOk(w, v) ==
    /\ Heard(w, Plain("continue"))
    /\ w.gdb.process = "stopped"
    /\ v = InState(Resumed(w), "running")

Carries(w, v) == CarryOk(w, v) \/ Left(w, Plain("continue"), v)

\* A deferred start that goes on: the program is resumed, or the command failed.
LEMMA CarryIs ==
    ASSUME NEW w, Base(setting, w), NEW r \in Send(w, Plain("continue"))
    PROVE  \/ r.ok /\ CarryOk(w, InState(r.w, "running"))
           \/ ~r.ok /\ Left(w, Plain("continue"), r.w)
<1> DEFINE cmd == Plain("continue")
<1>1. cmd \in Commands /\ cmd.verb = "continue"
  BY PlainIs DEF Verbs
<1> HIDE DEF cmd
<1>2. Succeeds(w, cmd, r) \/ Fails(w, cmd, r)
  BY SendIs DEF cmd
<1>3. CASE Succeeds(w, cmd, r)
  <2>1. Heard(w, cmd) /\ Accepts(w, cmd) /\ r.w = Execute(w, cmd, FALSE) /\ r.ok
    BY <1>3 DEF Succeeds, Heard
  <2>2. w.gdb.process = "stopped" /\ Execute(w, cmd, FALSE) = Resumed(w)
    BY <1>1, <2>1, AnsweredIs
  <2> QED
    BY <2>1, <2>2 DEF CarryOk, cmd
<1>4. CASE Fails(w, cmd, r)
  BY <1>4 DEF Fails, cmd
<1> QED
  BY <1>2, <1>3, <1>4

\* That keeps the invariant.
LEMMA CarriesBase ==
    ASSUME NEW w, Base(setting, w), NEW v, Carries(w, v)
    PROVE  Base(setting, v)
<1>1. CASE CarryOk(w, v)
  <2> DEFINE u == Resumed(w)
  <2>1. Base(setting, u) /\ v = InState(u, "running")
    BY <1>1, ProgramBase DEF CarryOk
  <2> HIDE DEF u
  <2>2. OnlyStatus(u, InState(u, "running"))
    BY <2>1, InStateIs DEF Base, Shape, RunStates
  <2> QED
    BY <2>1, <2>2, StatusBase
<1>2. CASE Left(w, Plain("continue"), v)
  <2>1. Fit(setting, w, Plain("continue"))
    BY PlainIs DEF Verbs
  <2> QED
    BY <1>2, <2>1, LeftBase
<1> QED
  BY <1>1, <1>2 DEF Carries

\* gdb's breakpoint on main that a deferred run carries on to.
MainOf(w) == Breakpoint("main", TRUE, 0, "gdb", w.gdb.resumes)

MainOk(w, bp, v) ==
    /\ Heard(w, Inserting("insertNow", bp, FALSE))
    /\ w.gdb.next <= setting.numbers
    /\ v = Insert(w, Inserting("insertNow", bp, FALSE), FALSE)

Mains(w, bp, v) == MainOk(w, bp, v) \/ Left(w, Inserting("insertNow", bp, FALSE), v)

\* A deferred start that is to stop in main: a breakpoint there, which the
\* mirror hides.
LEMMA MainIs ==
    ASSUME NEW w, NEW bp \in Bps, Base(setting, w),
           NEW r \in Send(w, Command("insertNow", 0, bp, FALSE, FALSE))
    PROVE  Mains(w, bp, r.w)
<1> DEFINE cmd == Inserting("insertNow", bp, FALSE)
<1>1. cmd \in Commands /\ cmd.verb = "insertNow"
  BY InsertingIs
<1>2. r \in Send(w, cmd)
  BY DEF Inserting
<1> HIDE DEF cmd
<1>3. Succeeds(w, cmd, r) \/ Fails(w, cmd, r)
  BY <1>2, SendIs
<1>4. CASE Succeeds(w, cmd, r)
  <2>1. Heard(w, cmd) /\ Accepts(w, cmd) /\ r.w = Execute(w, cmd, FALSE)
    BY <1>4 DEF Succeeds, Heard
  <2>2. w.gdb.next <= setting.numbers /\ Execute(w, cmd, FALSE) = Insert(w, cmd, FALSE)
    BY <1>1, <2>1, AnsweredIs
  <2> QED
    BY <2>1, <2>2 DEF Mains, MainOk, cmd
<1>5. CASE Fails(w, cmd, r)
  BY <1>5 DEF Fails, Mains, cmd
<1> QED
  BY <1>3, <1>4, <1>5

OnMainBp(bp) ==
    bp \in Bps /\ bp.place = "main" /\ bp.by = "gdb" /\ bp.temporary /\ bp.tag = 0

\* That keeps the invariant.
LEMMA MainsBase ==
    ASSUME NEW w, NEW bp, OnMainBp(bp), Base(setting, w), NEW v, Mains(w, bp, v)
    PROVE  Base(setting, v)
<1> DEFINE cmd == Inserting("insertNow", bp, FALSE)
<1>1. /\ cmd \in Commands
      /\ cmd.verb = "insertNow"
      /\ cmd.bp = bp
      /\ ~cmd.typed
  BY InsertingIs DEF OnMainBp
<1>2. \/ w.gdb.next <= setting.numbers /\ v = Insert(w, cmd, FALSE)
      \/ Left(w, cmd, v)
  BY DEF Mains, MainOk
<1> HIDE DEF cmd
<1>3. Legit(setting, cmd) /\ Fit(setting, w, cmd)
  BY <1>1 DEF Legit, Fit, OnMainBp
<1>4. CASE w.gdb.next <= setting.numbers /\ v = Insert(w, cmd, FALSE)
  <2>1. cmd.bp.by = "gdb" /\ cmd.verb \in {"insert", "insertNow"}
    BY <1>1 DEF OnMainBp
  <2> QED
    BY <1>1, <1>3, <1>4, <2>1, HiddenBase
<1>5. CASE Left(w, cmd, v)
  BY <1>3, <1>5, LeftBase
<1> QED
  BY <1>2, <1>4, <1>5

\* It is gdb's, on main.
LEMMA MainOfIs ==
    ASSUME NEW w \in AllWorlds
    PROVE  OnMainBp(MainOf(w)) /\ MainOf(w).at = w.gdb.resumes
<1>1. w.gdb.resumes \in Nat
  BY DEF AllWorlds, Gdbs
<1>2. MainOf(w) \in Bps
  BY <1>1, BreakpointType DEF MainOf
<1> QED
  BY <1>2 DEF OnMainBp, MainOf, Breakpoint

\* The stop of a deferred start, once what waited is placed.
FinishIs(w, v) ==
    LET p == Deferring(w, "none")
    IN \/ w.st.deferred = "none" /\ v = w
       \/ w.st.deferred = "stop" /\ v \in ResolveDeferred(p)
       \/ w.st.deferred = "resume" /\ \E x \in ResolveDeferred(p) : Carries(x, v)
       \/ w.st.deferred = "resumeMain" /\ \E x \in ResolveDeferred(p) : \E y :
             Mains(x, MainOf(w), y) /\ Carries(y, v)

\* What finishDeferredStart comes to: a placement, a breakpoint on main, a
\* resume, as far as it gets.
LEMMA FinishDeferredStartIs ==
    ASSUME NEW w, Base(setting, w), NEW v \in FinishDeferredStart(w)
    PROVE  FinishIs(w, v)
<1> DEFINE p == Deferring(w, "none")
<1>0. w \in AllWorlds /\ w.st.deferred \in {"none", "stop", "resume", "resumeMain"}
  BY DEF Base, Shape, AllWorlds, Mirrors
<1>1. Base(setting, p)
  BY <1>0, DeferringIs, StatusBase DEF Deferments
<1> DEFINE Carry(a) ==
               UNION {IF q.ok THEN {InState(q.w, "running")} ELSE {q.w} :
                         q \in Send(a, Plain("continue"))}
           OnMains(a) ==
               UNION {IF q.ok THEN Carry(q.w) ELSE Carry(q.w) :
                         q \in Send(a, Command("insertNow", 0, MainOf(w), FALSE, FALSE))}
           placed == ResolveDeferred(p)
<1>e. FinishDeferredStart(w) = CASE w.st.deferred = "none" -> {w}
                                 [] w.st.deferred = "stop" -> placed
                                 [] w.st.deferred = "resume" -> UNION {Carry(a) : a \in placed}
                                 [] w.st.deferred = "resumeMain" -> UNION {OnMains(a) : a \in placed}
  BY DEF FinishDeferredStart, SendThen, SendThenElse, Follow, Done, InState, Deferring, MainOf
<1>f. ASSUME NEW a, v \in Carry(a)
      PROVE  \E r \in Send(a, Plain("continue")) :
                v = IF r.ok THEN InState(r.w, "running") ELSE r.w
  BY <1>f
<1>g. ASSUME NEW a, v \in OnMains(a)
      PROVE  \E m \in Send(a, Command("insertNow", 0, MainOf(w), FALSE, FALSE)) :
                v \in Carry(m.w)
  <2> HIDE DEF Carry
  <2> QED
    BY <1>g
<1> HIDE DEF p, Carry, OnMains
<1>2. /\ w.st.deferred = "none" => v = w
      /\ w.st.deferred = "stop" => v \in ResolveDeferred(p)
      /\ w.st.deferred = "resume" => \E x \in ResolveDeferred(p) : v \in Carry(x)
      /\ w.st.deferred = "resumeMain" => \E x \in ResolveDeferred(p) : v \in OnMains(x)
  BY <1>e
<1>3. \A x \in ResolveDeferred(p) : Base(setting, x)
  BY <1>1, ResolveBase DEF Resolving
<1>4. ASSUME NEW y, Base(setting, y), NEW r \in Send(y, Plain("continue")),
             v = IF r.ok THEN InState(r.w, "running") ELSE r.w
      PROVE  Carries(y, v)
  BY <1>4, CarryIs DEF Carries
<1>5. CASE w.st.deferred = "resume"
  <2>1. PICK x \in ResolveDeferred(p) : v \in Carry(x)
    BY <1>2, <1>5
  <2>2. Carries(x, v)
    BY <1>3, <1>4, <1>f, <2>1
  <2> QED
    BY <1>5, <2>1, <2>2 DEF FinishIs, p
<1>6. CASE w.st.deferred = "resumeMain"
  <2>0. PICK x \in ResolveDeferred(p) : v \in OnMains(x)
    BY <1>2, <1>6
  <2>1. PICK m \in Send(x, Command("insertNow", 0, MainOf(w), FALSE, FALSE)) : v \in Carry(m.w)
    BY <1>g, <2>0
  <2>2. Base(setting, x)
    BY <1>3
  <2>3. OnMainBp(MainOf(w))
    BY <1>0, MainOfIs
  <2>4. Mains(x, MainOf(w), m.w)
    BY <2>2, <2>3, MainIs DEF OnMainBp
  <2>5. Base(setting, m.w)
    BY <2>2, <2>3, <2>4, MainsBase
  <2>6. Carries(m.w, v)
    BY <1>4, <1>f, <2>1, <2>5
  <2> QED
    BY <1>6, <2>0, <2>4, <2>6 DEF FinishIs, p
<1> QED
  BY <1>0, <1>2, <1>5, <1>6 DEF FinishIs, p

\* FinishDeferredStart keeps the invariant.
LEMMA FinishBase ==
    ASSUME NEW w, Base(setting, w), NEW v \in FinishDeferredStart(w)
    PROVE  Base(setting, v)
<1> DEFINE p == Deferring(w, "none")
<1>0. w \in AllWorlds
  BY DEF Base, Shape
<1>1. Base(setting, p)
  BY <1>0, DeferringIs, StatusBase DEF Deferments
<1>2. FinishIs(w, v)
  BY FinishDeferredStartIs
<1>3. \/ v = w
      \/ v \in ResolveDeferred(p)
      \/ \E x \in ResolveDeferred(p) : Carries(x, v)
      \/ \E x \in ResolveDeferred(p) : \E y : Mains(x, MainOf(w), y) /\ Carries(y, v)
  BY <1>2 DEF FinishIs
<1> HIDE DEF p
<1>4. \A x \in ResolveDeferred(p) : Base(setting, x)
  BY <1>1, ResolveBase DEF Resolving
<1>5. OnMainBp(MainOf(w))
  BY <1>0, MainOfIs
<1> QED
  BY <1>3, <1>4, <1>5, MainsBase, CarriesBase

-----------------------------------------------------------------------------
(* A record handled.                                                       *)

\* The queue without its first record.
LEMMA TailIs ==
    ASSUME NEW q \in Seq(Records), q # <<>>
    PROVE  /\ Tail(q) \in Seq(Records)
           /\ Head(q) \in Records
           /\ Len(q) \in Nat
           /\ Len(Tail(q)) \in Nat
           /\ Len(q) = Len(Tail(q)) + 1
           /\ 1 \in 1 .. Len(q)
           /\ q[1] = Head(q)
           /\ \A i \in 1 .. Len(Tail(q)) : i + 1 \in 1 .. Len(q) /\ Tail(q)[i] = q[i + 1]
           /\ \A k \in 1 .. Len(q) : k # 1 => k - 1 \in 1 .. Len(Tail(q))
<1>1. Len(q) \in Nat /\ Len(q) # 0
  BY EmptySeq, LenProperties
<1>2. Tail(q) \in Seq(Records) /\ Head(q) \in Records /\ Len(Tail(q)) = Len(q) - 1
  BY HeadTailProperties
<1>3. \A i \in 1 .. Len(Tail(q)) : Tail(q)[i] = q[i + 1]
  BY HeadTailProperties
<1>4. q[1] = Head(q)
  OBVIOUS
<1> QED
  BY <1>1, <1>2, <1>3, <1>4

\* It has the other records, in their order.
LEMMA TailHolds ==
    ASSUME NEW q \in Seq(Records), q # <<>>
    PROVE  /\ Tail(q) \in Seq(Records)
           /\ \E k \in 1 .. Len(q) :
                 /\ q[k] = Head(q)
                 /\ (\A i \in 1 .. Len(Tail(q)) : Tail(q)[i].n # Head(q).n) => LastAbout(q, k)
           /\ \A i \in 1 .. Len(Tail(q)) : \E k \in 1 .. Len(q) :
                 q[k] = Tail(q)[i] /\ (LastAbout(Tail(q), i) => LastAbout(q, k))
           /\ \A k \in 1 .. Len(q) :
                 q[k] = Head(q) \/ \E i \in 1 .. Len(Tail(q)) : Tail(q)[i] = q[k]
<1> DEFINE t == Tail(q)
           L == Len(t)
<1>1. /\ t \in Seq(Records)
      /\ L \in Nat
      /\ Len(q) = L + 1
      /\ 1 \in 1 .. Len(q)
      /\ q[1] = Head(q)
      /\ \A i \in 1 .. L : i + 1 \in 1 .. Len(q) /\ t[i] = q[i + 1]
      /\ \A k \in 1 .. Len(q) : k # 1 => k - 1 \in 1 .. L
  BY TailIs
<1> HIDE DEF t, L
<1>2. ASSUME \A i \in 1 .. L : t[i].n # Head(q).n
      PROVE  LastAbout(q, 1)
  <2> SUFFICES ASSUME NEW j \in 1 .. Len(q), q[j].n = q[1].n
               PROVE  j <= 1
    BY DEF LastAbout
  <2>1. CASE j # 1
    <3>1. j - 1 \in 1 .. L
      BY <1>1, <2>1
    <3>2. j - 1 + 1 = j
      BY <1>1
    <3>3. t[j - 1] = q[j]
      BY <1>1, <3>1, <3>2
    <3> QED
      BY <1>1, <1>2, <3>1, <3>3
  <2> QED
    BY <2>1
<1>3. ASSUME NEW i \in 1 .. L, LastAbout(t, i)
      PROVE  LastAbout(q, i + 1)
  <2> SUFFICES ASSUME NEW j \in 1 .. Len(q), q[j].n = q[i + 1].n
               PROVE  j <= i + 1
    BY DEF LastAbout
  <2>0. i \in Nat /\ j \in Nat
    BY <1>1
  <2>1. CASE j # 1
    <3>1. j - 1 \in 1 .. L /\ j - 1 + 1 = j
      BY <1>1, <2>1
    <3>2. t[j - 1] = q[j] /\ t[i] = q[i + 1]
      BY <1>1, <3>1
    <3>3. t[j - 1].n = t[i].n
      BY <3>2
    <3>4. j - 1 <= i
      BY <1>3, <3>1, <3>3 DEF LastAbout, L
    <3> QED
      BY <2>0, <3>4
  <2> QED
    BY <2>0, <2>1
<1>4. \A i \in 1 .. L : \E k \in 1 .. Len(q) :
         q[k] = t[i] /\ (LastAbout(t, i) => LastAbout(q, k))
  <2> TAKE i \in 1 .. L
  <2>1. i + 1 \in 1 .. Len(q) /\ t[i] = q[i + 1]
    BY <1>1
  <2>2. LastAbout(t, i) => LastAbout(q, i + 1)
    BY <1>3
  <2> QED
    BY <2>1, <2>2
<1>5. ASSUME NEW k \in 1 .. Len(q), k # 1
      PROVE  \E i \in 1 .. L : t[i] = q[k]
  <2>1. k - 1 \in 1 .. L /\ k - 1 + 1 = k
    BY <1>1, <1>5
  <2>2. t[k - 1] = q[k]
    BY <1>1, <2>1
  <2> QED
    BY <2>1, <2>2
<1>6. \A k \in 1 .. Len(q) : q[k] = Head(q) \/ \E i \in 1 .. L : t[i] = q[k]
  BY <1>1, <1>5
<1>7. \E k \in 1 .. Len(q) :
         /\ q[k] = Head(q)
         /\ (\A i \in 1 .. L : t[i].n # Head(q).n) => LastAbout(q, k)
  BY <1>1, <1>2
<1> QED
  BY <1>1, <1>4, <1>6, <1>7 DEF t, L

\* What the actor makes of the oldest record.
Noting(w, v) ==
    /\ Head(w.intake).kind \in {"created", "modified"}
    /\ ~Hidden(w, Head(w.intake).n, Head(w.intake).bp)
    /\ Put(v.st.mirror, w.st.mirror, Head(w.intake).n, Head(w.intake).bp)
    /\ v.st.ours = w.st.ours

Forgetting(w, v) ==
    /\ Head(w.intake).kind = "deleted"
    /\ Cut(v.st.mirror, w.st.mirror, Head(w.intake).n)
    /\ v.st.ours = w.st.ours \ {Head(w.intake).n}

Ignoring(w, v) ==
    /\ \/ Head(w.intake).kind \notin ToldKinds
       \/ /\ Head(w.intake).kind \in {"created", "modified"}
          /\ Hidden(w, Head(w.intake).n, Head(w.intake).bp)
    /\ v.st.mirror = w.st.mirror
    /\ v.st.ours = w.st.ours

Taken(w, v) ==
    /\ w.intake # <<>>
    /\ v \in AllWorlds
    /\ v.gdb = w.gdb
    /\ v.adrift = w.adrift
    /\ v.intake = Tail(w.intake)
    /\ Noting(w, v) \/ Forgetting(w, v) \/ Ignoring(w, v)

\* What the mirror and the queue are after the first record was handled.
LEMMA TakenIs ==
    ASSUME NEW s, NEW w, NEW v, Shape(s, w), Taken(w, v)
    PROVE  LET rec == Head(w.intake)
           IN /\ GoodRecord(s, rec)
              /\ rec \in Records
              /\ rec.kind \in ToldKinds => rec.n \in 1 .. s.numbers /\ Good(rec.bp)
              /\ \A m \in 1 .. s.numbers : m # rec.n =>
                    /\ m \in DOMAIN v.st.mirror <=> m \in DOMAIN w.st.mirror
                    /\ m \in DOMAIN w.st.mirror => v.st.mirror[m] = w.st.mirror[m]
                    /\ m \in v.st.ours <=> m \in w.st.ours
              /\ \A m \in v.st.ours : m \in w.st.ours
              /\ \A m \in DOMAIN v.st.mirror :
                    m \in DOMAIN w.st.mirror \/ (Noting(w, v) /\ m = rec.n)
<1> DEFINE rec == Head(w.intake)
<1>1. w.intake \in Seq(Records) /\ w.intake # <<>>
  BY DEF Shape, AllWorlds, Taken
<1>2. PICK k \in 1 .. Len(w.intake) : w.intake[k] = rec
  BY <1>1, TailHolds
<1>3. GoodRecord(s, rec) /\ rec \in Records
  BY <1>1, <1>2, TailIs DEF Shape, Goods
<1> HIDE DEF rec
<1>4. Noting(w, v) \/ Forgetting(w, v) \/ Ignoring(w, v)
  BY DEF Taken
<1>5. CASE Noting(w, v)
  <2>1. Put(v.st.mirror, w.st.mirror, rec.n, rec.bp) /\ v.st.ours = w.st.ours
    BY <1>5 DEF Noting, rec
  <2> QED
    BY <1>3, <1>5, <2>1 DEF Put, GoodRecord, rec
<1>6. CASE Forgetting(w, v)
  <2>1. Cut(v.st.mirror, w.st.mirror, rec.n) /\ v.st.ours = w.st.ours \ {rec.n}
    BY <1>6 DEF Forgetting, rec
  <2> QED
    BY <1>3, <2>1 DEF Cut, GoodRecord, rec
<1>7. CASE Ignoring(w, v)
  BY <1>3, <1>7 DEF Ignoring, GoodRecord, rec
<1> QED
  BY <1>4, <1>5, <1>6, <1>7

\* A record handled keeps types and bounds.
LEMMA TakenShape ==
    ASSUME NEW s, NEW w, NEW v, Shape(s, w), Taken(w, v)
    PROVE  Shape(s, v)
<1> DEFINE rec == Head(w.intake)
<1>1. /\ rec.kind \in ToldKinds => rec.n \in 1 .. s.numbers /\ Good(rec.bp)
      /\ \A m \in 1 .. s.numbers : m # rec.n =>
            /\ m \in DOMAIN v.st.mirror <=> m \in DOMAIN w.st.mirror
            /\ m \in DOMAIN w.st.mirror => v.st.mirror[m] = w.st.mirror[m]
            /\ m \in v.st.ours <=> m \in w.st.ours
      /\ \A m \in v.st.ours : m \in w.st.ours
      /\ \A m \in DOMAIN v.st.mirror :
            m \in DOMAIN w.st.mirror \/ (Noting(w, v) /\ m = rec.n)
  BY TakenIs
<1>2. /\ v \in AllWorlds /\ v.gdb = w.gdb /\ v.adrift = w.adrift /\ v.intake = Tail(w.intake)
      /\ w.intake # <<>>
  BY DEF Taken
<1>n. Noting(w, v) => /\ rec.kind \in ToldKinds
                      /\ v.st.mirror[rec.n] = rec.bp
  BY DEF Noting, ToldKinds, Put
<1>s. Forgetting(w, v) => rec.n \notin DOMAIN v.st.mirror
  BY DEF Forgetting, Cut
<1>i. Ignoring(w, v) => v.st.mirror = w.st.mirror
  BY DEF Ignoring
<1>c. Noting(w, v) \/ Forgetting(w, v) \/ Ignoring(w, v)
  BY DEF Taken
<1>3. \A i \in 1 .. Len(v.intake) : \E k \in 1 .. Len(w.intake) : w.intake[k] = v.intake[i]
  <2>1. w.intake \in Seq(Records)
    BY DEF Shape, AllWorlds
  <2> QED
    BY <1>2, <2>1, TailHolds
<1> HIDE DEF rec
<1>4. Sized(s, v)
  <2>1. \A n \in DOMAIN v.st.mirror : n \in 1 .. s.numbers
    BY <1>1, <1>n DEF Shape, Sized
  <2> QED
    BY <1>1, <1>2, <2>1 DEF Shape, Sized
<1>5. Goods(s, v)
  <2>1. ASSUME NEW n \in DOMAIN v.st.mirror
        PROVE  Good(v.st.mirror[n])
    <3>1. CASE n # rec.n
      <4>1. n \in DOMAIN w.st.mirror /\ n \in 1 .. s.numbers
        BY <1>1, <2>1, <3>1 DEF Shape, Sized
      <4>2. v.st.mirror[n] = w.st.mirror[n]
        BY <1>1, <3>1, <4>1
      <4> QED
        BY <4>1, <4>2 DEF Shape, Goods
    <3>2. CASE n = rec.n /\ Noting(w, v)
      BY <1>1, <1>n, <3>2
    <3>3. CASE n = rec.n /\ Forgetting(w, v)
      BY <1>s, <2>1, <3>3
    <3>4. CASE Ignoring(w, v)
      BY <1>i, <2>1, <3>4 DEF Shape, Goods
    <3> QED
      BY <1>c, <3>1, <3>2, <3>3, <3>4
  <2>2. \A i \in 1 .. Len(v.intake) : GoodRecord(s, v.intake[i])
    BY <1>3 DEF Shape, Goods
  <2> QED
    BY <1>1, <1>2, <2>1, <2>2 DEF Shape, Goods
<1>6. Lates(s, v)
  BY <1>2 DEF Shape, Lates
<1> QED
  BY <1>2, <1>4, <1>5, <1>6 DEF Shape

\* What of the queue is left, and what is told by the record that is gone.
LEMMA TakenQueue ==
    ASSUME NEW s, NEW w, NEW v, Shape(s, w), Taken(w, v)
    PROVE  LET rec == Head(w.intake)
           IN /\ DOMAIN w.intake = 1 .. Len(w.intake)
              /\ DOMAIN v.intake = 1 .. Len(v.intake)
              /\ \E k \in 1 .. Len(w.intake) :
                    w.intake[k] = rec /\ (~Queued(v, rec.n) => LastAbout(w.intake, k))
              /\ \A i \in 1 .. Len(v.intake) : \E k \in 1 .. Len(w.intake) :
                    /\ w.intake[k] = v.intake[i]
                    /\ LastAbout(v.intake, i) => LastAbout(w.intake, k)
              /\ \A n : n # rec.n /\ ~Queued(v, n) => ~Queued(w, n)
<1> DEFINE rec == Head(w.intake)
<1>1. w.intake \in Seq(Records) /\ w.intake # <<>> /\ v.intake = Tail(w.intake)
  BY DEF Taken, Shape, AllWorlds
<1>2. v.intake \in Seq(Records)
  BY <1>1, TailHolds
<1>3. DOMAIN w.intake = 1 .. Len(w.intake) /\ DOMAIN v.intake = 1 .. Len(v.intake)
  BY <1>1, <1>2, LenProperties
<1>4. /\ \E k \in 1 .. Len(w.intake) :
            /\ w.intake[k] = rec
            /\ (\A i \in 1 .. Len(v.intake) : v.intake[i].n # rec.n) => LastAbout(w.intake, k)
      /\ \A i \in 1 .. Len(v.intake) : \E k \in 1 .. Len(w.intake) :
            w.intake[k] = v.intake[i] /\ (LastAbout(v.intake, i) => LastAbout(w.intake, k))
      /\ \A k \in 1 .. Len(w.intake) :
            w.intake[k] = rec \/ \E i \in 1 .. Len(v.intake) : v.intake[i] = w.intake[k]
  BY <1>1, TailHolds, SMTT(30)
<1> HIDE DEF rec
<1>5. ~Queued(v, rec.n) => \A i \in 1 .. Len(v.intake) : v.intake[i].n # rec.n
  BY <1>3 DEF Queued
<1>6. \A n : n # rec.n /\ ~Queued(v, n) => ~Queued(w, n)
  BY <1>3, <1>4 DEF Queued
<1> QED
  BY <1>3, <1>4, <1>5, <1>6 DEF rec

\* It brings the mirror nearer to gdb.
LEMMA TakenAgree ==
    ASSUME NEW s, NEW w, NEW v, Shape(s, w), Agree(s, w), Follows(s, w), Taken(w, v)
    PROVE  Agree(s, v)
<1> DEFINE rec == Head(w.intake)
<1>1. /\ GoodRecord(s, rec)
      /\ rec \in Records
      /\ \A m \in 1 .. s.numbers : m # rec.n =>
            /\ m \in DOMAIN v.st.mirror <=> m \in DOMAIN w.st.mirror
            /\ m \in DOMAIN w.st.mirror => v.st.mirror[m] = w.st.mirror[m]
            /\ m \in v.st.ours <=> m \in w.st.ours
  BY TakenIs
<1>2. v.gdb = w.gdb /\ v.adrift = w.adrift
  BY DEF Taken
<1>3. PICK k \in 1 .. Len(w.intake) :
         w.intake[k] = rec /\ (~Queued(v, rec.n) => LastAbout(w.intake, k))
  BY TakenQueue
<1>4. /\ \A i \in 1 .. Len(v.intake) : \E j \in 1 .. Len(w.intake) :
            /\ w.intake[j] = v.intake[i]
            /\ LastAbout(v.intake, i) => LastAbout(w.intake, j)
      /\ \A n : n # rec.n /\ ~Queued(v, n) => ~Queued(w, n)
  BY TakenQueue
<1>c. Noting(w, v) \/ Forgetting(w, v) \/ Ignoring(w, v)
  BY DEF Taken
<1>n. Noting(w, v) =>
         /\ rec.kind \in {"created", "modified"}
         /\ ~Hidden(w, rec.n, rec.bp)
         /\ Put(v.st.mirror, w.st.mirror, rec.n, rec.bp)
         /\ v.st.ours = w.st.ours
  BY DEF Noting
<1>f. Forgetting(w, v) =>
         /\ rec.kind = "deleted"
         /\ Cut(v.st.mirror, w.st.mirror, rec.n)
  BY DEF Forgetting
<1>i. Ignoring(w, v) =>
         /\ rec.kind \in ToldKinds =>
               rec.kind \in {"created", "modified"} /\ Hidden(w, rec.n, rec.bp)
         /\ v.st.mirror = w.st.mirror
         /\ v.st.ours = w.st.ours
  BY DEF Ignoring
<1> HIDE DEF rec
<1> SUFFICES ASSUME NEW n \in 1 .. s.numbers, n \notin v.adrift
             PROVE  AgreesAt(v, n)
  BY DEF Agree
<1>5. AgreesAt(w, n) /\ FollowsAt(w, n)
  BY <1>2 DEF Agree, Follows
<1>6. ASSUME NEW i \in 1 .. Len(v.intake), v.intake[i].n = n, LastAbout(v.intake, i)
      PROVE  Tells(v.intake[i], v.gdb.table)
  <2>1. PICK j \in 1 .. Len(w.intake) : w.intake[j] = v.intake[i] /\ LastAbout(w.intake, j)
    BY <1>4, <1>6
  <2>2. Tells(w.intake[j], w.gdb.table)
    BY <1>5, <1>6, <2>1 DEF AgreesAt
  <2> QED
    BY <1>2, <2>1, <2>2
<1>7. CASE n # rec.n
  <2>1. ~Queued(v, n) => Shows(w, n)
    BY <1>4, <1>5, <1>7 DEF AgreesAt
  <2>2. ~Queued(v, n) => Shows(v, n)
    BY <1>1, <1>2, <1>7, <2>1 DEF Shows, Hidden
  <2>3. n \in DOMAIN v.gdb.table /\ Hidden(v, n, v.gdb.table[n]) => n \notin DOMAIN v.st.mirror
    BY <1>1, <1>2, <1>5, <1>7 DEF AgreesAt, Hidden
  <2> QED
    BY <1>6, <2>2, <2>3 DEF AgreesAt
<1>8. CASE n = rec.n
  <2>0. s.numbers \in Nat
    BY DEF Shape, Sized
  <2>1. rec.kind \in ToldKinds
    BY <1>1, <1>8, <2>0 DEF GoodRecord
  <2>2. ~Queued(v, n) => Tells(rec, w.gdb.table)
    BY <1>3, <1>5, <1>8 DEF AgreesAt
  <2>3. n \in DOMAIN w.gdb.table => rec.kind # "deleted" /\ Alike(rec.bp, w.gdb.table[n])
    BY <1>3, <1>5, <1>8 DEF FollowsAt
  <2>4. CASE Noting(w, v)
    <3>1. n \in DOMAIN v.st.mirror /\ v.st.mirror[n] = rec.bp
      BY <1>n, <1>8, <2>4 DEF Put
    <3>2. ~Queued(v, n) => n \in DOMAIN w.gdb.table /\ rec.bp = w.gdb.table[n]
      BY <1>n, <1>8, <2>2, <2>4 DEF Tells
    <3>3. n \in DOMAIN v.gdb.table => ~Hidden(v, n, v.gdb.table[n])
      BY <1>2, <1>n, <1>8, <2>3, <2>4 DEF Hidden, Alike
    <3> QED
      BY <1>2, <1>6, <3>1, <3>2, <3>3 DEF AgreesAt, Shows
  <2>5. CASE Forgetting(w, v)
    <3>1. n \notin DOMAIN w.gdb.table /\ n \notin DOMAIN v.st.mirror
      BY <1>f, <1>8, <2>3, <2>5 DEF Cut
    <3> QED
      BY <1>2, <1>6, <3>1 DEF AgreesAt, Shows
  <2>6. CASE Ignoring(w, v)
    <3>1. rec.kind \in {"created", "modified"} /\ Hidden(w, n, rec.bp)
      BY <1>i, <1>8, <2>1, <2>6
    <3>2. ~Queued(v, n) => n \in DOMAIN w.gdb.table /\ rec.bp = w.gdb.table[n]
      BY <1>8, <2>2, <3>1 DEF Tells
    <3>3. n \in DOMAIN v.gdb.table /\ Hidden(v, n, v.gdb.table[n]) => n \notin DOMAIN v.st.mirror
      BY <1>2, <1>5, <1>i, <2>6 DEF AgreesAt, Hidden
    <3>4. n \in DOMAIN v.gdb.table => Hidden(v, n, v.gdb.table[n])
      BY <1>2, <1>i, <2>3, <2>6, <3>1 DEF Hidden, Alike
    <3> QED
      BY <1>2, <1>6, <3>2, <3>3, <3>4 DEF AgreesAt, Shows
  <2> QED
    BY <1>c, <2>4, <2>5, <2>6
<1> QED
  BY <1>7, <1>8

\* What the others say stays true.
LEMMA TakenFollows ==
    ASSUME NEW s, NEW w, NEW v, Shape(s, w), Follows(s, w), Taken(w, v)
    PROVE  Follows(s, v)
<1>1. v.gdb = w.gdb /\ v.adrift = w.adrift
  BY DEF Taken
<1>2. \A i \in 1 .. Len(v.intake) : \E k \in 1 .. Len(w.intake) : w.intake[k] = v.intake[i]
  BY TakenQueue
<1> SUFFICES ASSUME NEW n \in 1 .. s.numbers, n \notin v.adrift \/ n \notin v.gdb.inherited
             PROVE  FollowsAt(v, n)
  BY DEF Follows
<1>3. FollowsAt(w, n)
  BY <1>1 DEF Follows
<1> SUFFICES ASSUME NEW i \in 1 .. Len(v.intake), v.intake[i].n = n
             PROVE  /\ n < v.gdb.next
                    /\ n \in DOMAIN v.gdb.table => /\ v.intake[i].kind # "deleted"
                                                   /\ Alike(v.intake[i].bp, v.gdb.table[n])
  BY DEF FollowsAt
<1>4. PICK k \in 1 .. Len(w.intake) : w.intake[k] = v.intake[i]
  BY <1>2
<1>5. /\ n < w.gdb.next
      /\ n \in DOMAIN w.gdb.table => /\ w.intake[k].kind # "deleted"
                                     /\ Alike(w.intake[k].bp, w.gdb.table[n])
  BY <1>3, <1>4 DEF FollowsAt
<1> QED
  BY <1>1, <1>4, <1>5

\* It leaves names where they are.
LEMMA TakenSame ==
    ASSUME NEW s, NEW w, NEW v, Shape(s, w), Same(s, w), Taken(w, v)
    PROVE  Same(s, v)
<1> DEFINE rec == Head(w.intake)
<1>1. /\ rec.kind \in ToldKinds => rec.n \in 1 .. s.numbers /\ Good(rec.bp)
      /\ \A m \in 1 .. s.numbers : m # rec.n =>
            /\ m \in DOMAIN v.st.mirror <=> m \in DOMAIN w.st.mirror
            /\ m \in DOMAIN w.st.mirror => v.st.mirror[m] = w.st.mirror[m]
      /\ \A m \in DOMAIN v.st.mirror :
            m \in DOMAIN w.st.mirror \/ (Noting(w, v) /\ m = rec.n)
  BY TakenIs
<1>2. v.gdb = w.gdb /\ v.adrift = w.adrift
  BY DEF Taken
<1>3. PICK k \in 1 .. Len(w.intake) : w.intake[k] = rec
  BY TakenQueue
<1>4. \A i \in 1 .. Len(v.intake) : \E j \in 1 .. Len(w.intake) : w.intake[j] = v.intake[i]
  BY TakenQueue
<1>n. Noting(w, v) =>
         /\ rec.kind \in {"created", "modified"}
         /\ v.st.mirror[rec.n] = rec.bp
  BY DEF Noting, Put
<1>f. Forgetting(w, v) => rec.n \notin DOMAIN v.st.mirror
  BY DEF Forgetting, Cut
<1>i. Ignoring(w, v) => v.st.mirror = w.st.mirror
  BY DEF Ignoring
<1>c. Noting(w, v) \/ Forgetting(w, v) \/ Ignoring(w, v)
  BY DEF Taken
<1> HIDE DEF rec
<1>5. \A m \in DOMAIN v.st.mirror :
         \/ m \in DOMAIN w.st.mirror /\ v.st.mirror[m] = w.st.mirror[m]
         \/ rec.kind \in {"created", "modified"} /\ m = rec.n /\ v.st.mirror[m] = rec.bp
  <2> TAKE m \in DOMAIN v.st.mirror
  <2>1. CASE m # rec.n
    <3>1. m \in DOMAIN w.st.mirror /\ m \in 1 .. s.numbers
      BY <1>1, <2>1 DEF Shape, Sized
    <3> QED
      BY <1>1, <2>1, <3>1
  <2>2. CASE m = rec.n
    BY <1>c, <1>n, <1>f, <1>i, <2>2
  <2> QED
    BY <2>1, <2>2
<1> SUFFICES ASSUME Tame(s, v)
             PROVE  /\ \A n \in Doomed(v) : n < v.gdb.next
                    /\ \A n \in DOMAIN v.st.mirror : NamesAt(s, v, n, v.st.mirror[n])
                    /\ s.late = 0 /\ "typed" \notin s.kinds =>
                          \A n \in DOMAIN v.st.mirror :
                              v.st.mirror[n].place = "name" /\ n \in DOMAIN v.gdb.table =>
                                  v.st.mirror[n].enabled = v.gdb.table[n].enabled
                    /\ \A i \in 1 .. Len(v.intake) :
                          v.intake[i].kind \in {"created", "modified"} =>
                              /\ NamesAt(s, v, v.intake[i].n, v.intake[i].bp)
                              /\ v.intake[i].bp.place = "name" => "typed" \in s.kinds
  BY DEF Same
<1>6. /\ \A n \in Doomed(w) : n < w.gdb.next
      /\ \A n \in DOMAIN w.st.mirror : NamesAt(s, w, n, w.st.mirror[n])
      /\ s.late = 0 /\ "typed" \notin s.kinds =>
            \A n \in DOMAIN w.st.mirror :
                w.st.mirror[n].place = "name" /\ n \in DOMAIN w.gdb.table =>
                    w.st.mirror[n].enabled = w.gdb.table[n].enabled
      /\ \A i \in 1 .. Len(w.intake) :
            w.intake[i].kind \in {"created", "modified"} =>
                /\ NamesAt(s, w, w.intake[i].n, w.intake[i].bp)
                /\ w.intake[i].bp.place = "name" => "typed" \in s.kinds
  BY <1>2 DEF Same, Tame
<1>7. Doomed(v) = Doomed(w) /\ \A n, bp : NamesAt(s, w, n, bp) => NamesAt(s, v, n, bp)
  BY <1>2 DEF Doomed, NamesAt
<1>8. rec.kind \in {"created", "modified"} =>
         NamesAt(s, w, rec.n, rec.bp) /\ (rec.bp.place = "name" => "typed" \in s.kinds)
  BY <1>3, <1>6
<1>9. \A n \in DOMAIN v.st.mirror : NamesAt(s, v, n, v.st.mirror[n])
  BY <1>5, <1>6, <1>7, <1>8
<1>10. ASSUME s.late = 0, "typed" \notin s.kinds, NEW n \in DOMAIN v.st.mirror,
              v.st.mirror[n].place = "name", n \in DOMAIN v.gdb.table
       PROVE  v.st.mirror[n].enabled = v.gdb.table[n].enabled
  BY <1>2, <1>5, <1>6, <1>8, <1>10
<1>11. \A i \in 1 .. Len(v.intake) :
          v.intake[i].kind \in {"created", "modified"} =>
              /\ NamesAt(s, v, v.intake[i].n, v.intake[i].bp)
              /\ v.intake[i].bp.place = "name" => "typed" \in s.kinds
  <2> TAKE i \in 1 .. Len(v.intake)
  <2>1. PICK j \in 1 .. Len(w.intake) : w.intake[j] = v.intake[i]
    BY <1>4
  <2> QED
    BY <1>6, <1>7, <2>1
<1> QED
  BY <1>2, <1>6, <1>7, <1>9, <1>10, <1>11

\* It hides no breakpoint on a name.
LEMMA TakenNames ==
    ASSUME NEW s, NEW w, NEW v, Shape(s, w), Follows(s, w), NamesShown(s, w), Taken(w, v)
    PROVE  NamesShown(s, v)
<1> DEFINE rec == Head(w.intake)
<1>1. /\ rec \in Records
      /\ \A m \in 1 .. s.numbers : m # rec.n =>
            /\ m \in DOMAIN v.st.mirror <=> m \in DOMAIN w.st.mirror
            /\ m \in DOMAIN w.st.mirror => v.st.mirror[m] = w.st.mirror[m]
            /\ m \in v.st.ours <=> m \in w.st.ours
  BY TakenIs
<1>2. v.gdb = w.gdb
  BY DEF Taken
<1>3. PICK k \in 1 .. Len(w.intake) : w.intake[k] = rec
  BY TakenQueue
<1>c. Noting(w, v) \/ Forgetting(w, v) \/ Ignoring(w, v)
  BY DEF Taken
<1>n. Noting(w, v) =>
         /\ rec.n \in DOMAIN v.st.mirror
         /\ v.st.mirror[rec.n] = rec.bp
         /\ v.st.ours = w.st.ours
  BY DEF Noting, Put
<1>f. Forgetting(w, v) => rec.kind = "deleted"
  BY DEF Forgetting
<1>i. Ignoring(w, v) => v.st.mirror = w.st.mirror /\ v.st.ours = w.st.ours
  BY DEF Ignoring
<1> HIDE DEF rec
<1> SUFFICES ASSUME s.late = 0, NEW n \in DOMAIN v.gdb.table, n \notin v.gdb.inherited,
                    v.gdb.table[n].place = "name"
             PROVE  /\ n \in DOMAIN v.st.mirror
                    /\ v.st.mirror[n].place = "name"
                    /\ v.gdb.table[n].temporary => n \in v.st.ours
  BY DEF NamesShown
<1>4. /\ n \in DOMAIN w.st.mirror
      /\ w.st.mirror[n].place = "name"
      /\ w.gdb.table[n].temporary => n \in w.st.ours
  BY <1>2 DEF NamesShown
<1>5. n \in 1 .. s.numbers
  BY <1>4 DEF Shape, Sized
<1>6. CASE n # rec.n
  BY <1>1, <1>2, <1>4, <1>5, <1>6
<1>7. CASE n = rec.n
  <2>1. rec.kind # "deleted" /\ Alike(rec.bp, w.gdb.table[n])
    BY <1>2, <1>3, <1>5, <1>7 DEF Follows, FollowsAt
  <2>2. ~Forgetting(w, v)
    BY <1>f, <2>1
  <2> QED
    BY <1>2, <1>4, <1>c, <1>n, <1>i, <1>7, <2>1, <2>2 DEF Alike
<1> QED
  BY <1>6, <1>7

\* A record handled keeps the invariant.
LEMMA TakenBase ==
    ASSUME NEW s, NEW w, NEW v, Base(s, w), Taken(w, v)
    PROVE  Base(s, v)
BY TakenShape, TakenAgree, TakenFollows, TakenSame, TakenNames DEF Base

\* The oldest record taken from the queue.
Rest(w) == [w EXCEPT !.intake = Tail(@)]

\* The world without the first record.
LEMMA RestIs ==
    ASSUME NEW w \in AllWorlds, w.intake # <<>>
    PROVE  LET v == Rest(w)
           IN /\ v \in AllWorlds
              /\ v.st = w.st
              /\ v.gdb = w.gdb
              /\ v.wanted = w.wanted
              /\ v.adrift = w.adrift
              /\ v.intake = Tail(w.intake)
<1> DEFINE t == Tail(w.intake)
           v == [w EXCEPT !.intake = t]
<1>1. w.intake \in Seq(Records)
  BY DEF AllWorlds
<1>2. t \in Seq(Records)
  BY <1>1, TailIs
<1>3. Rest(w) = v
  BY Zenon DEF Rest
<1> HIDE DEF t
<1>4. /\ v \in AllWorlds
      /\ v.st = w.st
      /\ v.gdb = w.gdb
      /\ v.wanted = w.wanted
      /\ v.adrift = w.adrift
      /\ v.intake = t
  BY <1>2 DEF AllWorlds
<1> QED
  BY <1>3, <1>4 DEF t

\* A breakpoint noted from a record.
Heeded(w, rec) == Mirrored(w, With(w.st.mirror, rec.n, rec.bp), w.st.ours)

\* The mirror notes what the record says.
LEMMA HeededIs ==
    ASSUME NEW w \in AllWorlds, NEW rec \in Records
    PROVE  /\ [w EXCEPT !.st.mirror = With(@, rec.n, rec.bp)] = Heeded(w, rec)
           /\ Heeded(w, rec) \in AllWorlds
           /\ Put(Heeded(w, rec).st.mirror, w.st.mirror, rec.n, rec.bp)
           /\ Heeded(w, rec).st.ours = w.st.ours
           /\ SameActor(Heeded(w, rec).st, w.st)
           /\ Heeded(w, rec).gdb = w.gdb
           /\ Heeded(w, rec).intake = w.intake
           /\ Heeded(w, rec).wanted = w.wanted
           /\ Heeded(w, rec).adrift = w.adrift
<1> DEFINE t == With(w.st.mirror, rec.n, rec.bp)
           v == Mirrored(w, t, w.st.ours)
<1>1. w.st \in Mirrors /\ w.st.mirror \in Tables /\ rec.n \in Nat /\ rec.bp \in Bps
      /\ w.st.ours \in SUBSET Nat
  BY DEF AllWorlds, Mirrors, Records
<1>2. t \in Tables
  BY <1>1, TableWith
<1>3. Put(t, w.st.mirror, rec.n, rec.bp)
  BY <1>1, PutTable
<1>4. [w EXCEPT !.st.mirror = With(@, rec.n, rec.bp)] = [w EXCEPT !.st = [w.st EXCEPT !.mirror = t]]
  BY Zenon
<1> HIDE DEF t
<1>5. [w.st EXCEPT !.mirror = t] = [w.st EXCEPT !.mirror = t, !.ours = w.st.ours]
  BY <1>1 DEF Mirrors
<1>6. [w EXCEPT !.st.mirror = With(@, rec.n, rec.bp)] = v
  BY <1>4, <1>5 DEF Mirrored
<1>7. /\ v \in AllWorlds
      /\ v.st.mirror = t
      /\ v.st.ours = w.st.ours
      /\ SameActor(v.st, w.st)
      /\ v.gdb = w.gdb
      /\ v.intake = w.intake
      /\ v.wanted = w.wanted
      /\ v.adrift = w.adrift
  BY <1>1, <1>2, MirroredIs
<1>8. Heeded(w, rec) = v
  BY DEF Heeded, t
<1> HIDE DEF v
<1> QED
  BY <1>3, <1>6, <1>7, <1>8

OnRecordIs(w, v) ==
    LET rec == Head(w.intake)
        t == Rest(w)
    IN \/ /\ rec.kind \in {"created", "modified"}
          /\ Hidden(w, rec.n, rec.bp)
          /\ v = t
       \/ /\ rec.kind \in {"created", "modified"}
          /\ ~Hidden(w, rec.n, rec.bp)
          /\ v = Heeded(t, rec)
       \/ rec.kind = "deleted" /\ v = Forget(t, rec.n)
       \/ rec.kind = "running" /\ v = InState(t, "running")
       \/ rec.kind = "stopped" /\ v \in FinishDeferredStart(InState(t, "stopped"))
       \/ rec.kind = "ended" /\ v = InState(t, "none")
       \/ rec.kind = "exited" /\ v = Gone(t)

\* What onNotify and onStopped come to, record by record.
LEMMA OnRecordComesTo ==
    ASSUME NEW w \in AllWorlds, w.intake # <<>>, NEW v \in OnRecord(Rest(w), Head(w.intake))
    PROVE  OnRecordIs(w, v)
<1> DEFINE rec == Head(w.intake)
           t == Rest(w)
<1>1. w.intake \in Seq(Records)
  BY DEF AllWorlds
<1>2. rec \in Records
  BY <1>1, TailIs
<1>3. t \in AllWorlds /\ t.st = w.st
  BY RestIs
<1> HIDE DEF rec, t
<1>4. rec.kind \in {"created", "modified", "deleted", "running", "stopped", "ended", "exited"}
  BY <1>2 DEF Records, ToldKinds
<1>5. Hidden(t, rec.n, rec.bp) <=> Hidden(w, rec.n, rec.bp)
  BY <1>3 DEF Hidden
<1>6. v \in OnRecord(t, rec)
  BY DEF t, rec
<1>7. CASE rec.kind \in {"created", "modified"}
  <2>1. v = IF Hidden(t, rec.n, rec.bp) THEN t
            ELSE [t EXCEPT !.st.mirror = With(@, rec.n, rec.bp)]
    BY <1>6, <1>7 DEF OnRecord
  <2>2. [t EXCEPT !.st.mirror = With(@, rec.n, rec.bp)] = Heeded(t, rec)
    BY <1>2, <1>3, HeededIs
  <2> QED
    BY <1>5, <1>7, <2>1, <2>2 DEF OnRecordIs, rec, t
<1>8. CASE rec.kind = "deleted"
  BY <1>6, <1>8 DEF OnRecord, OnRecordIs, rec, t
<1>9. CASE rec.kind = "running"
  BY <1>6, <1>9 DEF OnRecord, OnRecordIs, InState, rec, t
<1>10. CASE rec.kind = "stopped"
  BY <1>6, <1>10 DEF OnRecord, OnRecordIs, InState, rec, t
<1>11. CASE rec.kind = "ended"
  BY <1>6, <1>11 DEF OnRecord, OnRecordIs, InState, rec, t
<1>12. CASE rec.kind = "exited"
  BY <1>6, <1>12 DEF OnRecord, OnRecordIs, Gone, rec, t
<1> QED
  BY <1>4, <1>7, <1>8, <1>9, <1>10, <1>11, <1>12

\* The mirror changes only as TakenIs says; a stop may finish a deferred start
\* after that.
LEMMA OnRecordTakes ==
    ASSUME NEW s, NEW w, Base(s, w), w.intake # <<>>, NEW v, OnRecordIs(w, v)
    PROVE  LET rec == Head(w.intake)
               t == Rest(w)
           IN \/ Taken(w, v)
              \/ /\ rec.kind = "stopped"
                 /\ v \in FinishDeferredStart(InState(t, "stopped"))
                 /\ Taken(w, InState(t, "stopped"))
<1> DEFINE rec == Head(w.intake)
           t == Rest(w)
<1>1. w \in AllWorlds /\ w.intake \in Seq(Records)
  BY DEF Base, Shape, AllWorlds
<1>2. rec \in Records
  BY <1>1, TailIs
<1>3. /\ t \in AllWorlds
      /\ t.st = w.st
      /\ t.gdb = w.gdb
      /\ t.adrift = w.adrift
      /\ t.intake = Tail(w.intake)
  BY <1>1, RestIs
<1>4. ASSUME NEW u, OnlyStatus(t, u), rec.kind \notin ToldKinds
      PROVE  Taken(w, u)
  BY <1>3, <1>4 DEF Taken, Ignoring, OnlyStatus, rec
<1> HIDE DEF rec, t
<1>5. \/ /\ rec.kind \in {"created", "modified"}
         /\ Hidden(w, rec.n, rec.bp)
         /\ v = t
      \/ /\ rec.kind \in {"created", "modified"}
         /\ ~Hidden(w, rec.n, rec.bp)
         /\ v = Heeded(t, rec)
      \/ rec.kind = "deleted" /\ v = Forget(t, rec.n)
      \/ rec.kind = "running" /\ v = InState(t, "running")
      \/ rec.kind = "stopped" /\ v \in FinishDeferredStart(InState(t, "stopped"))
      \/ rec.kind = "ended" /\ v = InState(t, "none")
      \/ rec.kind = "exited" /\ v = Gone(t)
  BY DEF OnRecordIs, rec, t
<1>6. CASE rec.kind \in {"created", "modified"} /\ Hidden(w, rec.n, rec.bp) /\ v = t
  BY <1>3, <1>6 DEF Taken, Ignoring, rec
<1>7. CASE /\ rec.kind \in {"created", "modified"}
           /\ ~Hidden(w, rec.n, rec.bp)
           /\ v = Heeded(t, rec)
  <2>1. /\ v \in AllWorlds
        /\ Put(v.st.mirror, t.st.mirror, rec.n, rec.bp)
        /\ v.st.ours = t.st.ours
        /\ v.gdb = t.gdb
        /\ v.intake = t.intake
        /\ v.adrift = t.adrift
    BY <1>2, <1>3, <1>7, HeededIs
  <2> QED
    BY <1>3, <1>7, <2>1 DEF Taken, Noting, rec
<1>8. CASE rec.kind = "deleted" /\ v = Forget(t, rec.n)
  <2>1. rec.n \in Nat /\ t.st.mirror \in Tables
    BY <1>2, <1>3 DEF Records, AllWorlds, Mirrors
  <2>2. /\ v \in AllWorlds
        /\ v.st.mirror = Without(t.st.mirror, rec.n)
        /\ v.st.ours = t.st.ours \ {rec.n}
        /\ v.gdb = t.gdb
        /\ v.intake = t.intake
        /\ v.adrift = t.adrift
    BY <1>3, <1>8, <2>1, ForgetIs
  <2>3. Cut(v.st.mirror, t.st.mirror, rec.n)
    BY <2>1, <2>2, CutTable
  <2> QED
    BY <1>3, <1>8, <2>2, <2>3 DEF Taken, Forgetting, rec
<1>9. CASE rec.kind = "running" /\ v = InState(t, "running")
  BY <1>3, <1>4, <1>9, InStateIs DEF ToldKinds, RunStates
<1>10. CASE rec.kind = "stopped" /\ v \in FinishDeferredStart(InState(t, "stopped"))
  <2>1. Taken(w, InState(t, "stopped"))
    BY <1>3, <1>4, <1>10, InStateIs DEF ToldKinds, RunStates
  <2> QED
    BY <1>10, <2>1 DEF rec, t
<1>11. CASE rec.kind = "ended" /\ v = InState(t, "none")
  BY <1>3, <1>4, <1>11, InStateIs DEF ToldKinds, RunStates
<1>12. CASE rec.kind = "exited" /\ v = Gone(t)
  BY <1>3, <1>4, <1>12, GoneIs DEF ToldKinds
<1> QED
  BY <1>5, <1>6, <1>7, <1>8, <1>9, <1>10, <1>11, <1>12

\* Handling a record keeps the invariant.
LEMMA OnRecordBase ==
    ASSUME NEW w, Base(setting, w), w.intake # <<>>, NEW v, OnRecordIs(w, v)
    PROVE  Base(setting, v)
BY OnRecordTakes, TakenBase, FinishBase

-----------------------------------------------------------------------------
(* Requests.                                                               *)

\* InsertBreakpoint keeps the invariant.
LEMMA InsertBreakpointBase ==
    ASSUME NEW w, NEW verb \in {"insert", "insertNow"}, NEW bp, Showable(bp), NEW wish \in BOOLEAN,
           Base(setting, w), NEW r \in InsertBreakpoint(w, verb, bp, wish)
    PROVE  /\ Base(setting, r.w)
           /\ \/ r.ok /\ InsertOk(w, Inserting(verb, bp, wish), r.w)
              \/ ~r.ok /\ InsertFails(w, verb, bp, wish, r.w)
<1> DEFINE cmd == Inserting(verb, bp, wish)
<1>1. \/ r.ok /\ InsertOk(w, cmd, r.w)
      \/ Fails(w, cmd, r) /\ Obeys(w, cmd, r)
  BY InsertBreakpointIs DEF Showable
<1>2. cmd.verb = verb
  BY InsertingIs DEF Showable
<1> HIDE DEF cmd
<1>3. CASE r.ok /\ InsertOk(w, cmd, r.w)
  BY <1>3, InsertOkIs DEF cmd
<1>4. CASE Fails(w, cmd, r) /\ Obeys(w, cmd, r)
  <2>1. ~r.ok /\ Left(w, cmd, r.w)
    BY <1>4 DEF Fails
  <2>2. InsertFails(w, verb, bp, wish, r.w)
    BY <1>2, <1>4, <2>1 DEF Obeys, InsertFails, cmd
  <2> QED
    BY <2>1, <2>2, InsertFailsIs
<1> QED
  BY <1>1, <1>3, <1>4

\* BpSet does, and is an insert of what was asked for.
LEMMA BpSetBase ==
    ASSUME NEW w, NEW place \in {"line", "library", "address", "name"}, NEW temporary \in BOOLEAN,
           NEW tag \in Nat, tag # 0 => ~temporary, Base(setting, w),
           NEW v \in BpSet(w, place, temporary, tag)
    PROVE  /\ Base(setting, v)
           /\ Showable(Breakpoint(place, temporary, tag, "user", w.gdb.resumes))
           /\ \E r \in InsertBreakpoint(w, "insert",
                          Breakpoint(place, temporary, tag, "user", w.gdb.resumes), TRUE) : v = r.w
<1> DEFINE bp == Breakpoint(place, temporary, tag, "user", w.gdb.resumes)
<1>1. bp \in Bps
  BY BreakpointType DEF Base, Shape, AllWorlds, Gdbs
<1>2. Showable(bp)
  BY <1>1 DEF Showable, Breakpoint
<1>3. PICK r \in InsertBreakpoint(w, "insert", bp, TRUE) : v = r.w
  BY DEF BpSet, Worlds
<1> HIDE DEF bp
<1>4. Base(setting, v)
  BY <1>2, <1>3, InsertBreakpointBase
<1> QED
  BY <1>2, <1>3, <1>4 DEF bp

\* A breakpoint enabled or disabled by a user.
Switching(n, on) == Command("enable", n, [NoBreakpoint EXCEPT !.enabled = on], FALSE, TRUE)

SwitchOk(w, n, on, v) ==
    /\ Heard(w, Switching(n, on))
    /\ n \in DOMAIN w.gdb.table
    /\ n \in DOMAIN w.st.mirror => v = Noted(Enable(w, Switching(n, on), FALSE), n, on)
    /\ n \notin DOMAIN w.st.mirror => v = Enable(w, Switching(n, on), FALSE)

\* The enable that is sent.
LEMMA SwitchingIs ==
    ASSUME NEW n \in Nat, NEW on \in BOOLEAN
    PROVE  /\ Switching(n, on) \in Commands
           /\ Switching(n, on).verb = "enable"
           /\ Switching(n, on).n = n
           /\ Switching(n, on).bp.enabled = on
           /\ ~Switching(n, on).typed
           /\ Switching(n, on).wish
<1> DEFINE b == [NoBreakpoint EXCEPT !.enabled = on]
<1>1. b \in Bps /\ b.enabled = on
  BY NoBreakpointType DEF Bps
<1> HIDE DEF b
<1>2. /\ Command("enable", n, b, FALSE, TRUE) \in Commands
      /\ Command("enable", n, b, FALSE, TRUE).verb = "enable"
      /\ Command("enable", n, b, FALSE, TRUE).n = n
      /\ Command("enable", n, b, FALSE, TRUE).bp = b
      /\ ~Command("enable", n, b, FALSE, TRUE).typed
      /\ Command("enable", n, b, FALSE, TRUE).wish
  BY <1>1 DEF Command, Commands, Verbs
<1> QED
  BY <1>1, <1>2 DEF Switching, b

\* BpSetEnabled changes gdb and the mirror, or the command failed.
LEMMA BpSetEnabledIs ==
    ASSUME NEW w, NEW n \in Nat, NEW on \in BOOLEAN, Base(setting, w),
           NEW v \in BpSetEnabled(w, n, on)
    PROVE  SwitchOk(w, n, on, v) \/ Left(w, Switching(n, on), v)
<1> DEFINE cmd == Switching(n, on)
           u == Enable(w, cmd, FALSE)
<1>1. PICK r \in Send(w, cmd) :
         v = IF r.ok THEN IF n \in DOMAIN r.w.st.mirror
                          THEN [r.w EXCEPT !.st.mirror[n].enabled = on]
                          ELSE r.w
                     ELSE r.w
  BY DEF BpSetEnabled, Switching, SendThen, SendThenElse, Follow, Done
<1>2. /\ cmd \in Commands
      /\ cmd.verb = "enable"
      /\ cmd.n = n
  BY SwitchingIs
<1>0. w \in AllWorlds
  BY DEF Base, Shape
<1> HIDE DEF cmd
<1>3. Succeeds(w, cmd, r) \/ Fails(w, cmd, r)
  BY SendIs
<1>4. CASE Succeeds(w, cmd, r)
  <2>1. Heard(w, cmd) /\ Accepts(w, cmd) /\ r.w = Execute(w, cmd, FALSE) /\ r.ok
    BY <1>4 DEF Succeeds, Heard
  <2>2. n \in DOMAIN w.gdb.table /\ Execute(w, cmd, FALSE) = u
    BY <1>2, <2>1, AnsweredIs
  <2>3. u \in AllWorlds /\ u.st = w.st
    BY <1>0, <1>2, <2>2, EnableIs
  <2>4. v = IF n \in DOMAIN u.st.mirror THEN [u EXCEPT !.st.mirror[n].enabled = on] ELSE u
    BY <1>1, <2>1, <2>2
  <2> HIDE DEF u
  <2>5. n \in DOMAIN w.st.mirror => v = Noted(u, n, on)
    BY <2>3, <2>4, SetIs
  <2>6. n \notin DOMAIN w.st.mirror => v = u
    BY <2>3, <2>4
  <2> QED
    BY <2>1, <2>2, <2>5, <2>6 DEF SwitchOk, cmd, u
<1>5. CASE Fails(w, cmd, r)
  BY <1>1, <1>5 DEF Fails, cmd
<1> QED
  BY <1>3, <1>4, <1>5

\* BpSetEnabled keeps the invariant.
LEMMA BpSetEnabledBase ==
    ASSUME NEW w, NEW n \in 1 .. setting.numbers, NEW on \in BOOLEAN, Base(setting, w),
           NEW v \in BpSetEnabled(w, n, on)
    PROVE  Base(setting, v)
<1> DEFINE cmd == Switching(n, on)
<1>0. n \in Nat
  BY DEF Base, Shape, Sized
<1>1. /\ cmd \in Commands
      /\ cmd.verb = "enable"
      /\ cmd.n = n
      /\ cmd.bp.enabled = on
      /\ ~cmd.typed
  BY <1>0, SwitchingIs
<1>2. \/ /\ n \in DOMAIN w.gdb.table
         /\ n \in DOMAIN w.st.mirror => v = Noted(Enable(w, cmd, FALSE), n, on)
         /\ n \notin DOMAIN w.st.mirror => v = Enable(w, cmd, FALSE)
      \/ Left(w, cmd, v)
  BY <1>0, BpSetEnabledIs DEF SwitchOk
<1> HIDE DEF cmd
<1>3. Legit(setting, cmd) /\ Fit(setting, w, cmd)
  BY <1>1 DEF Legit, Fit
<1>4. CASE Left(w, cmd, v)
  BY <1>3, <1>4, LeftBase
<1>5. CASE /\ n \in DOMAIN w.gdb.table
           /\ n \in DOMAIN w.st.mirror => v = Noted(Enable(w, cmd, FALSE), n, on)
           /\ n \notin DOMAIN w.st.mirror => v = Enable(w, cmd, FALSE)
  <2>1. /\ cmd.n \in DOMAIN w.gdb.table
        /\ cmd.n \in DOMAIN w.st.mirror =>
              v = Noted(Enable(w, cmd, FALSE), cmd.n, cmd.bp.enabled)
        /\ cmd.n \notin DOMAIN w.st.mirror => v = Enable(w, cmd, FALSE)
    BY <1>1, <1>5
  <2> QED
    BY <1>1, <1>3, <2>1, SwitchBase
<1> QED
  BY <1>2, <1>4, <1>5

\* What Send returns is a record of an answer and a world.
LEMMA SendShape ==
    ASSUME NEW w, NEW cmd, NEW r \in Send(w, cmd)
    PROVE  r = [ok |-> r.ok, w |-> r.w]
<1>1. \E v : r = [ok |-> FALSE, w |-> v] \/ r = [ok |-> Accepts(w, cmd), w |-> v]
  <2>1. r \in Answered(w, cmd) \/ \E v : r = [ok |-> FALSE, w |-> v]
    BY DEF Send
  <2>2. r \in Answered(w, cmd) =>
           \E v : r = [ok |-> FALSE, w |-> v] \/ r = [ok |-> Accepts(w, cmd), w |-> v]
    BY DEF Answered
  <2> QED
    BY <2>1, <2>2
<1> QED
  BY <1>1

LoadOk(w, v) ==
    /\ Heard(w, Plain("load"))
    /\ w.gdb.process # "running"
    /\ v \in Reconcile(LoadedState(Load(w)))

\* A load succeeds, or the command failed.
LEMMA ExeLoadIs ==
    ASSUME NEW w, Base(setting, w), NEW r \in ExeLoad(w)
    PROVE  \/ r.ok /\ LoadOk(w, r.w)
           \/ ~r.ok /\ Left(w, Plain("load"), r.w)
<1> DEFINE cmd == Plain("load")
<1>1. PICK x \in Send(w, cmd) :
         r \in IF x.ok THEN {[x EXCEPT !.w = v] : v \in Reconcile(LoadedState(x.w))} ELSE {x}
  BY DEF ExeLoad, LoadedState
<1>2. cmd \in Commands /\ cmd.verb = "load"
  BY PlainIs DEF Verbs
<1> HIDE DEF cmd
<1>3. (Succeeds(w, cmd, x) \/ Fails(w, cmd, x)) /\ x = [ok |-> x.ok, w |-> x.w]
  BY SendIs, SendShape
<1>4. CASE Succeeds(w, cmd, x)
  <2>1. Heard(w, cmd) /\ Accepts(w, cmd) /\ x.w = Execute(w, cmd, FALSE) /\ x.ok
    BY <1>4 DEF Succeeds, Heard
  <2>2. w.gdb.process # "running" /\ Execute(w, cmd, FALSE) = Load(w)
    BY <1>2, <2>1, AnsweredIs
  <2>3. PICK v \in Reconcile(LoadedState(x.w)) : r = [x EXCEPT !.w = v]
    BY <1>1, <2>1
  <2>4. r.ok /\ r.w = v
    BY <1>3, <2>1, <2>3
  <2> QED
    BY <2>1, <2>2, <2>3, <2>4 DEF LoadOk, cmd
<1>5. CASE Fails(w, cmd, x)
  BY <1>1, <1>5 DEF Fails, cmd
<1> QED
  BY <1>3, <1>4, <1>5

\* A load and what the actor notes of it keep the invariant.
LEMMA LoadedBase ==
    ASSUME NEW w, Base(setting, w)
    PROVE  Base(setting, LoadedState(Load(w))) /\ OnlyStatus(Load(w), LoadedState(Load(w)))
<1> DEFINE u == Load(w)
<1>1. Base(setting, u) /\ u \in AllWorlds
  BY LoadBase DEF Base, Shape
<1> HIDE DEF u
<1>2. OnlyStatus(u, LoadedState(u))
  BY <1>1, LoadedStateIs
<1>3. Base(setting, LoadedState(u))
  BY <1>1, <1>2, StatusBase
<1> QED
  BY <1>2, <1>3 DEF u

\* ExeLoad keeps the invariant.
LEMMA ExeLoadBase ==
    ASSUME NEW w, Base(setting, w), NEW r \in ExeLoad(w)
    PROVE  Base(setting, r.w)
<1>1. CASE LoadOk(w, r.w)
  BY <1>1, LoadedBase, ReconcileBase DEF LoadOk
<1>2. CASE Left(w, Plain("load"), r.w)
  <2>1. Fit(setting, w, Plain("load"))
    BY PlainIs DEF Verbs
  <2> QED
    BY <1>2, <2>1, LeftBase
<1> QED
  BY <1>1, <1>2, ExeLoadIs

RunVerbs == {"run", "runMain", "starti"}

\* A start is deferred if a breakpoint waits for it, and is then a starti.
LEMMA StartCommandIs ==
    ASSUME NEW verb \in RunVerbs, NEW named
    PROVE  LET start == StartCommand(verb, named)
           IN /\ start.verb \in RunVerbs
              /\ start.deferred \in Deferments
              /\ start.deferred # "none" => start.verb = "starti"
              /\ start.deferred = "none" => named = {}
BY DEF StartCommand, RunVerbs, Deferments

RunsNaming(w, verb, named, v) ==
    LET start == StartCommand(verb, named)
    IN /\ Heard(w, Plain(start.verb))
       /\ w.gdb.process # "running"
       /\ start.verb = "runMain" => w.gdb.next <= setting.numbers
       /\ v = Starting(Start(w, start.verb), start.deferred, Deferred(w) \ named)

RunOk(w, verb, v) == \E named \in SUBSET Deferred(w) : RunsNaming(w, verb, named, v)

RunFails(w, v) == \E verb \in RunVerbs : Left(w, Plain(verb), v)

\* A run begins a process, or the command failed.
LEMMA RunIs ==
    ASSUME NEW w, NEW verb \in RunVerbs, Base(setting, w), NEW r \in Run(w, verb)
    PROVE  \/ r.ok /\ RunOk(w, verb, r.w)
           \/ ~r.ok /\ RunFails(w, r.w)
<1>n. PICK named \in SUBSET Deferred(w) : r \in RunNaming(w, verb, named)
  BY DEF Run
<1> DEFINE start == StartCommand(verb, named)
           cmd == Plain(start.verb)
           M == Deferred(w) \ named
<1>1. PICK x \in Send(w, cmd) : r = IF x.ok THEN [x EXCEPT !.w = Starting(@, start.deferred, M)] ELSE x
  BY <1>n DEF RunNaming, Starting
<1>0. start.verb \in RunVerbs
  BY StartCommandIs
<1> HIDE DEF start, M
<1>2. cmd \in Commands /\ cmd.verb = start.verb
  BY <1>0, PlainIs DEF Verbs, RunVerbs
<1> HIDE DEF cmd
<1>3. (Succeeds(w, cmd, x) \/ Fails(w, cmd, x)) /\ x = [ok |-> x.ok, w |-> x.w]
  BY SendIs, SendShape
<1>4. CASE Succeeds(w, cmd, x)
  <2>1. Heard(w, cmd) /\ Accepts(w, cmd) /\ x.w = Execute(w, cmd, FALSE) /\ x.ok
    BY <1>4 DEF Succeeds, Heard
  <2>2. /\ w.gdb.process # "running"
        /\ start.verb = "runMain" => w.gdb.next <= setting.numbers
        /\ Execute(w, cmd, FALSE) = Start(w, start.verb)
    <3>1. /\ w.gdb.process # "running"
          /\ cmd.verb = "runMain" => w.gdb.next <= setting.numbers
          /\ Execute(w, cmd, FALSE) = Start(w, cmd.verb)
      <4>1. cmd.verb \in {"run", "runMain", "starti"}
        BY <1>0, <1>2 DEF RunVerbs
      <4> QED
        BY <1>2, <2>1, <4>1, AnsweredIs
    <3> QED
      BY <1>2, <3>1
  <2>3. r = [x EXCEPT !.w = Starting(x.w, start.deferred, M)]
    BY <1>1, <2>1
  <2>4. r.ok /\ r.w = Starting(x.w, start.deferred, M)
    BY <1>3, <2>1, <2>3
  <2> QED
    BY <2>1, <2>2, <2>4 DEF RunOk, RunsNaming, cmd, start, M
<1>5. CASE Fails(w, cmd, x)
  BY <1>0, <1>1, <1>5 DEF Fails, RunFails, cmd
<1> QED
  BY <1>3, <1>4, <1>5

\* Run keeps the invariant.
LEMMA RunBase ==
    ASSUME NEW w, NEW verb \in RunVerbs, Base(setting, w), NEW r \in Run(w, verb)
    PROVE  Base(setting, r.w)
<1>1. CASE RunOk(w, verb, r.w)
  <2>1. PICK named \in SUBSET Deferred(w) : RunsNaming(w, verb, named, r.w)
    BY <1>1 DEF RunOk
  <2> DEFINE start == StartCommand(verb, named)
             M == Deferred(w) \ named
             u == Start(w, start.verb)
  <2>2. start.verb \in RunVerbs /\ start.deferred \in Deferments
    BY StartCommandIs
  <2>3. /\ start.verb = "runMain" => w.gdb.next <= setting.numbers
        /\ r.w = Starting(u, start.deferred, M)
    BY <2>1 DEF RunsNaming
  <2>4. M \in SUBSET Nat
    BY DeferredNat
  <2> HIDE DEF start, M
  <2>5. Base(setting, u)
    BY <2>2, <2>3, StartBase
  <2> HIDE DEF u
  <2>6. OnlyStatus(u, Starting(u, start.deferred, M))
    BY <2>2, <2>4, <2>5, StartingIs DEF Base, Shape
  <2> QED
    BY <2>3, <2>5, <2>6, StatusBase
<1>2. CASE RunFails(w, r.w)
  <2>1. PICK x \in RunVerbs : Left(w, Plain(x), r.w)
    BY <1>2 DEF RunFails
  <2>2. Fit(setting, w, Plain(x))
    BY PlainIs DEF Verbs, RunVerbs
  <2> QED
    BY <2>1, <2>2, LeftBase
<1> QED
  BY <1>1, <1>2, RunIs

\* A continue resumes the program, or the command failed.
LEMMA ContinueIs ==
    ASSUME NEW w, Base(setting, w), NEW r \in Continue(w)
    PROVE  \/ r.ok /\ CarryOk(w, r.w)
           \/ ~r.ok /\ Left(w, Plain("continue"), r.w)
<1>1. PICK x \in Send(w, Plain("continue")) :
         r = IF x.ok THEN [x EXCEPT !.w = InState(@, "running")] ELSE x
  BY DEF Continue, InState
<1>2. \/ x.ok /\ CarryOk(w, InState(x.w, "running"))
      \/ ~x.ok /\ Left(w, Plain("continue"), x.w)
  BY CarryIs
<1>3. x = [ok |-> x.ok, w |-> x.w]
  BY SendShape
<1>4. CASE x.ok
  <2>1. r = [x EXCEPT !.w = InState(x.w, "running")]
    BY <1>1, <1>4
  <2>2. r.ok /\ r.w = InState(x.w, "running")
    BY <1>3, <1>4, <2>1
  <2> QED
    BY <1>2, <1>4, <2>2
<1>5. CASE ~x.ok
  BY <1>1, <1>2, <1>5
<1> QED
  BY <1>4, <1>5

\* Continue keeps the invariant.
LEMMA ContinueBase ==
    ASSUME NEW w, Base(setting, w), NEW r \in Continue(w)
    PROVE  Base(setting, r.w)
BY ContinueIs, CarriesBase DEF Carries

\* Run-to: the breakpoint, then the resume, and the breakpoint dropped if that failed.
RunToBp(w, place) == Breakpoint(place, TRUE, 0, "runTo", w.gdb.resumes)

Sets(w, place) == Inserting(RunToVerb(place), RunToBp(w, place), FALSE)

\* The resume, from x, of a run-to asked for in w.
Going(w, x, r) ==
    IF w.st.runState = "stopped" THEN r \in Continue(x) ELSE r \in Run(x, "run")

ExecRunToIs(w, place, v) ==
    \/ InsertFails(w, RunToVerb(place), RunToBp(w, place), FALSE, v)
    \/ \E x, r : /\ InsertOk(w, Sets(w, place), x)
                 /\ Going(w, x, r)
                 /\ \/ r.ok /\ v = r.w
                    \/ ~r.ok /\ v \in DropBreakpoint(r.w, w.gdb.next, FALSE)

Places == {"line", "library", "address", "name"}

\* A run-to's breakpoint is temporary and nobody's wish.
LEMMA RunToBpIs ==
    ASSUME NEW w \in AllWorlds, NEW place \in Places
    PROVE  /\ Showable(RunToBp(w, place))
           /\ RunToBp(w, place) \in Bps
           /\ RunToBp(w, place).place = place
           /\ RunToBp(w, place).temporary
           /\ RunToBp(w, place).tag = 0
           /\ RunToBp(w, place).by = "runTo"
           /\ RunToBp(w, place).at = w.gdb.resumes
           /\ RunToVerb(place) \in {"insert", "insertNow"}
<1>1. w.gdb.resumes \in Nat
  BY DEF AllWorlds, Gdbs
<1>2. RunToBp(w, place) \in Bps
  BY <1>1, BreakpointType DEF RunToBp, Places
<1> QED
  BY <1>2 DEF RunToBp, Breakpoint, Showable, RunToVerb

\* A run-to inserts, then goes, and drops its breakpoint if it could not go.
LEMMA ExecRunToComesTo ==
    ASSUME NEW w, NEW place \in Places, Base(setting, w), NEW v \in ExecRunTo(w, place)
    PROVE  ExecRunToIs(w, place, v)
<1> DEFINE bp == RunToBp(w, place)
           verb == RunToVerb(place)
           Resumes(x) == IF w.st.runState = "stopped" THEN Continue(x) ELSE Run(x, "run")
           Ends(x, r) == IF r.ok THEN {r.w} ELSE DropBreakpoint(r.w, x.gdb.next - 1, FALSE)
           Go(x) == UNION {Ends(x, r) : r \in Resumes(x)}
<1>0. w \in AllWorlds
  BY DEF Base, Shape
<1>1. Showable(bp) /\ bp \in Bps /\ verb \in {"insert", "insertNow"}
  BY <1>0, RunToBpIs
<1>2. PICK i \in InsertBreakpoint(w, verb, bp, FALSE) : v \in IF i.ok THEN Go(i.w) ELSE {i.w}
  BY DEF ExecRunTo, RunToBp, Follow, Done, Newest
<1> HIDE DEF bp, verb, Go
<1>3. PICK f \in BOOLEAN : f = FALSE
  OBVIOUS
<1>4. i \in InsertBreakpoint(w, verb, bp, f)
  BY <1>2, <1>3
<1>5. \/ i.ok /\ InsertOk(w, Inserting(verb, bp, f), i.w)
      \/ ~i.ok /\ InsertFails(w, verb, bp, f, i.w)
  BY <1>1, <1>4, InsertBreakpointBase
<1>6. CASE ~i.ok
  <2>1. v = i.w
    BY <1>2, <1>6
  <2>2. InsertFails(w, verb, bp, f, v)
    BY <1>5, <1>6, <2>1
  <2> QED
    BY <1>3, <2>2 DEF ExecRunToIs, bp, verb
<1>7. CASE i.ok
  <2> DEFINE x == i.w
  <2>1. InsertOk(w, Inserting(verb, bp, f), x)
    BY <1>5, <1>7
  <2>2. v \in Go(x)
    BY <1>2, <1>7
  <2> HIDE DEF x
  <2>3. PICK r \in Resumes(x) : v \in Ends(x, r)
    BY <2>2 DEF Go
  <2>4. Going(w, x, r)
    BY <2>3 DEF Going
  <2>5. x.gdb.next = w.gdb.next + 1 /\ w.gdb.next \in Nat
    BY <1>0, <1>1, <2>1, InsertOkPuts
  <2>6. x.gdb.next - 1 = w.gdb.next
    BY <2>5
  <2>7. \/ r.ok /\ v = r.w
        \/ ~r.ok /\ v \in DropBreakpoint(r.w, w.gdb.next, FALSE)
    BY <2>3, <2>6
  <2>8. InsertOk(w, Sets(w, place), x)
    BY <1>3, <2>1 DEF Sets, bp, verb
  <2> QED
    BY <2>4, <2>7, <2>8 DEF ExecRunToIs
<1> QED
  BY <1>6, <1>7

\* How it goes: by a continue or by a run.
LEMMA GoingIs ==
    ASSUME NEW w, NEW x, Base(setting, x), NEW r, Going(w, x, r)
    PROVE  /\ Base(setting, r.w)
           /\ \/ r.ok /\ w.st.runState = "stopped" /\ CarryOk(x, r.w)
              \/ r.ok /\ w.st.runState # "stopped" /\ RunOk(x, "run", r.w)
              \/ ~r.ok /\ w.st.runState = "stopped" /\ Left(x, Plain("continue"), r.w)
              \/ ~r.ok /\ w.st.runState # "stopped"
                       /\ RunFails(x, r.w)
<1>1. CASE w.st.runState = "stopped"
  BY <1>1, ContinueIs, ContinueBase DEF Going
<1>2. CASE w.st.runState # "stopped"
  <2>1. "run" \in RunVerbs
    BY DEF RunVerbs
  <2>2. r \in Run(x, "run")
    BY <1>2 DEF Going
  <2> QED
    BY <1>2, <2>1, <2>2, RunIs, RunBase
<1> QED
  BY <1>1, <1>2

\* A resume that failed left the number that was next.
LEMMA GoingGoes ==
    ASSUME NEW w, NEW x, Base(setting, x), NEW r, Going(w, x, r), ~r.ok
    PROVE  Goes(x, r.w)
<1>1. PICK verb \in RunVerbs \cup {"continue"} : Left(x, Plain(verb), r.w)
  BY GoingIs DEF RunFails
<1>2. Legit(setting, Plain(verb))
  BY PlainIs DEF Verbs, RunVerbs
<1> QED
  BY <1>1, <1>2, LeftGoes

\* ExecRunTo keeps the invariant.
LEMMA ExecRunToBase ==
    ASSUME NEW w, NEW place \in Places, Base(setting, w), NEW v \in ExecRunTo(w, place)
    PROVE  Base(setting, v)
<1> DEFINE bp == RunToBp(w, place)
           verb == RunToVerb(place)
           k == w.gdb.next
<1>0. w \in AllWorlds
  BY DEF Base, Shape
<1>1. Showable(bp) /\ verb \in {"insert", "insertNow"}
  BY <1>0, RunToBpIs
<1>2. ExecRunToIs(w, place, v)
  BY ExecRunToComesTo
<1>t. PICK f \in BOOLEAN : f = FALSE
  OBVIOUS
<1>3. CASE InsertFails(w, verb, bp, FALSE, v)
  <2>1. InsertFails(w, verb, bp, f, v)
    BY <1>3, <1>t
  <2> HIDE DEF bp, verb
  <2> QED
    BY <1>1, <2>1, InsertFailsIs
<1>4. ASSUME NEW x, NEW r, InsertOk(w, Sets(w, place), x), Going(w, x, r),
             \/ r.ok /\ v = r.w
             \/ ~r.ok /\ v \in DropBreakpoint(r.w, k, FALSE)
      PROVE  Base(setting, v)
  <2>1. InsertOk(w, Inserting(verb, bp, f), x)
    BY <1>4, <1>t DEF Sets
  <2> HIDE DEF bp, verb, k
  <2>2. Base(setting, x) /\ w.gdb.next <= setting.numbers /\ x \in AllWorlds
    BY <1>1, <2>1, InsertOkIs DEF Base, Shape
  <2>3. Base(setting, r.w) /\ r.w \in AllWorlds
    BY <1>4, <2>2, GoingIs DEF Base, Shape
  <2>4. CASE r.ok
    BY <1>4, <2>3, <2>4
  <2>5. CASE ~r.ok
    <3>1. Goes(x, r.w)
      BY <1>4, <2>2, <2>5, GoingGoes
    <3>2. x.gdb.next = w.gdb.next + 1 /\ w.gdb.next \in Nat
      <4>1. bp \in Bps
        BY <1>1 DEF Showable
      <4> QED
        BY <1>0, <1>1, <2>1, <4>1, InsertOkPuts
    <3>3. w.gdb.next \in 1 .. setting.numbers
      BY <2>2 DEF Base, Shape, Sized
    <3>4. x.gdb.next <= r.w.gdb.next /\ r.w.gdb.next \in Nat
      BY <2>3, <3>1 DEF Goes, AllWorlds, Gdbs
    <3>5. k \in 1 .. setting.numbers /\ k < r.w.gdb.next
      BY <3>2, <3>3, <3>4 DEF k
    <3>6. v \in DropBreakpoint(r.w, k, f)
      BY <1>4, <1>t, <2>5
    <3> QED
      BY <2>3, <3>5, <3>6, DropBase
  <2> QED
    BY <2>4, <2>5
<1> QED
  BY <1>2, <1>3, <1>4 DEF ExecRunToIs, k

\* What is typed at the console, and the list after it.
ConsoleIs(w, cmd, v) ==
    \E r \in Send(w, cmd) :
        \/ r.w.st.runState = "running" /\ v = r.w
        \/ r.w.st.runState # "running" /\ v \in Reconcile(r.w)

\* A command typed at the console, and the list after it.
LEMMA ConsoleExecIs ==
    ASSUME NEW w, NEW cmd, NEW v \in ConsoleExec(w, cmd)
    PROVE  ConsoleIs(w, cmd, v)
<1>1. PICK r \in Send(w, cmd) :
         v \in IF r.w.st.runState = "running" THEN {r.w} ELSE Reconcile(r.w)
  BY DEF ConsoleExec, SendThenElse, Follow
<1> QED
  BY <1>1 DEF ConsoleIs

TypedAs(verb, n, bp) == Command(verb, n, bp, TRUE, TRUE)

\* ConsoleExec keeps the invariant.
LEMMA ConsoleExecBase ==
    ASSUME NEW w, NEW cmd, Base(setting, w), Fit(setting, w, cmd), cmd.typed,
           NEW v \in ConsoleExec(w, cmd)
    PROVE  Base(setting, v)
<1>1. PICK r \in Send(w, cmd) :
         \/ r.w.st.runState = "running" /\ v = r.w
         \/ r.w.st.runState # "running" /\ v \in Reconcile(r.w)
  BY ConsoleExecIs DEF ConsoleIs
<1>2. Unanswered(cmd, FALSE)
  BY DEF Unanswered
<1>3. Base(setting, r.w)
  BY <1>2, SendBase
<1> QED
  BY <1>1, <1>3, ReconcileBase

\* The commands users type.
LEMMA TypedAsIs ==
    ASSUME NEW s, NEW w, NEW verb \in {"insert", "delete", "enable"}, NEW n \in Nat, NEW bp \in Bps,
           "typed" \in s.kinds, verb = "insert" => bp.by = "typed" /\ bp.tag = 0,
           verb # "insert" => n \in 1 .. s.numbers, bp.place # "name"
    PROVE  /\ Fit(s, w, TypedAs(verb, n, bp))
           /\ TypedAs(verb, n, bp) \in Commands
           /\ TypedAs(verb, n, bp).typed
           /\ TypedAs(verb, n, bp).wish
           /\ TypedAs(verb, n, bp).verb = verb
           /\ TypedAs(verb, n, bp).n = n
           /\ TypedAs(verb, n, bp).bp = bp
<1>1. TypedAs(verb, n, bp) \in Commands
  BY DEF TypedAs, Command, Commands, Verbs
<1>2. TypedAs(verb, n, bp) = [verb |-> verb, n |-> n, bp |-> bp, typed |-> TRUE, wish |-> TRUE]
  BY DEF TypedAs, Command
<1> QED
  BY <1>1, <1>2 DEF Fit, Legit

\* What may be typed can be sent.
LEMMA TypedFits ==
    ASSUME NEW w, NEW verb \in {"insert", "delete", "enable"}, NEW n \in Nat, NEW bp \in Bps,
           "typed" \in setting.kinds, verb = "insert" => bp.by = "typed" /\ bp.tag = 0,
           verb # "insert" => n \in 1 .. setting.numbers, bp.place # "name"
    PROVE  Fit(setting, w, TypedAs(verb, n, bp))
BY TypedAsIs, ZenonT(60)

-----------------------------------------------------------------------------
(* A new gdb.                                                              *)

RestoredBp(w, old) == Breakpoint(old.place, FALSE, old.tag, "user", w.gdb.resumes)

\* The wishes but that for a tag.
Unwished(w, tag) == [w EXCEPT !.wanted = {u \in @ : u.tag # tag}]

\* One wish less, and nothing else.
LEMMA UnwishedIs ==
    ASSUME NEW w \in AllWorlds, NEW tag
    PROVE  LET v == Unwished(w, tag)
           IN /\ v \in AllWorlds
              /\ v.st = w.st
              /\ v.gdb = w.gdb
              /\ v.intake = w.intake
              /\ v.adrift = w.adrift
              /\ v.wanted = {u \in w.wanted : u.tag # tag}
BY DEF Unwished, AllWorlds

\* A restored breakpoint is inserted, or its wish is dropped.
LEMMA RestoreOneIs ==
    ASSUME NEW w, NEW old \in Bps, Base(setting, w), NEW v \in RestoreOne(w, old)
    PROVE  LET bp == RestoredBp(w, old)
           IN /\ Showable(bp)
              /\ \/ InsertOk(w, Inserting("insert", bp, TRUE), v)
                 \/ \E x : InsertFails(w, "insert", bp, TRUE, x) /\ v = Unwished(x, old.tag)
<1> DEFINE bp == RestoredBp(w, old)
<1>1. Showable(bp)
  <2>1. w.gdb.resumes \in Nat /\ old.tag \in Nat
    BY DEF Base, Shape, AllWorlds, Gdbs, Bps
  <2>p. old.place \in {"line", "library", "address", "name", "main"}
    BY DEF Bps
  <2>2. bp \in Bps
    BY <2>1, <2>p, BreakpointType DEF RestoredBp
  <2> QED
    BY <2>2 DEF RestoredBp, Breakpoint, Showable
<1>2. PICK r \in InsertBreakpoint(w, "insert", bp, TRUE) :
         v = IF r.ok THEN r.w ELSE Unwished(r.w, old.tag)
  BY DEF RestoreOne, RestoredBp, Unwished
<1> HIDE DEF bp
<1>t. PICK f \in BOOLEAN : f = TRUE
  OBVIOUS
<1>v. PICK verb \in {"insert", "insertNow"} : verb = "insert"
  OBVIOUS
<1>3. r \in InsertBreakpoint(w, verb, bp, f)
  BY <1>2, <1>t, <1>v
<1>4. \/ r.ok /\ InsertOk(w, Inserting(verb, bp, f), r.w)
      \/ ~r.ok /\ InsertFails(w, verb, bp, f, r.w)
  BY <1>1, <1>3, InsertBreakpointBase
<1>5. \/ r.ok /\ InsertOk(w, Inserting("insert", bp, TRUE), r.w)
      \/ ~r.ok /\ InsertFails(w, "insert", bp, TRUE, r.w)
  BY <1>4, <1>t, <1>v
<1> QED
  BY <1>1, <1>2, <1>5 DEF bp

\* Restoring one keeps the invariant.
LEMMA RestoreOneBase ==
    ASSUME NEW w, NEW old \in Bps, Base(setting, w), NEW v \in RestoreOne(w, old)
    PROVE  Base(setting, v)
<1> DEFINE bp == RestoredBp(w, old)
<1>1. /\ Showable(bp)
      /\ \/ InsertOk(w, Inserting("insert", bp, TRUE), v)
         \/ \E x : InsertFails(w, "insert", bp, TRUE, x) /\ v = Unwished(x, old.tag)
  BY RestoreOneIs
<1> HIDE DEF bp
<1>t. PICK f \in BOOLEAN : f = TRUE
  OBVIOUS
<1>v. PICK verb \in {"insert", "insertNow"} : verb = "insert"
  OBVIOUS
<1>2. CASE InsertOk(w, Inserting("insert", bp, TRUE), v)
  <2>1. InsertOk(w, Inserting(verb, bp, f), v)
    BY <1>2, <1>t, <1>v
  <2> QED
    BY <1>1, <2>1, InsertOkIs
<1>3. ASSUME NEW x, InsertFails(w, "insert", bp, TRUE, x), v = Unwished(x, old.tag)
      PROVE  Base(setting, v)
  <2>1. InsertFails(w, verb, bp, f, x)
    BY <1>3, <1>t, <1>v
  <2>2. Base(setting, x) /\ x \in AllWorlds
    BY <1>1, <2>1, InsertFailsIs DEF Base, Shape
  <2>3. /\ v \in AllWorlds
        /\ v.st = x.st
        /\ v.gdb = x.gdb
        /\ v.intake = x.intake
        /\ v.adrift = x.adrift
    BY <1>3, <2>2, UnwishedIs
  <2> QED
    BY <2>2, <2>3, ActorBase
<1> QED
  BY <1>1, <1>2, <1>3

\* What is true of the new gdb, and kept by each breakpoint restored, is true
\* after the last.
LEMMA RestoreLoop ==
    ASSUME NEW w, NEW mirror, setting.numbers \in Nat, NEW Q, w \in Q[0],
           \A n \in 1 .. setting.numbers : n \in Restorable(mirror) =>
              \A v \in Q[n - 1] : RestoreOne(v, mirror[n]) \subseteq Q[n],
           \A n \in 1 .. setting.numbers : n \notin Restorable(mirror) => Q[n - 1] \subseteq Q[n]
    PROVE  Restore(w, mirror) \subseteq Q[setting.numbers]
<1> DEFINE D == Restorable(mirror)
           N == setting.numbers
           Body(n, before) == IF n \in D THEN UNION {RestoreOne(v, mirror[n]) : v \in before} ELSE before
           F(g, k) == [n \in 0 .. k |-> IF n = 0 THEN {w} ELSE Body(n, g[n - 1])]
           A == CHOOSE g : g = F(g, N)
           E == {k \in Nat : \E g : g = F(g, k)}
           S == {n \in Nat : n <= N => A[n] \subseteq Q[n]}
<1>1. Restore(w, mirror) = A[N]
  BY DEF Restore
<1>b. ASSUME NEW n \in 1 .. N, NEW before, before \subseteq Q[n - 1]
      PROVE  Body(n, before) \subseteq Q[n]
  <2>1. CASE n \in D
    <3>1. \A v \in before : RestoreOne(v, mirror[n]) \subseteq Q[n]
      BY <1>b, <2>1
    <3>2. Body(n, before) = UNION {RestoreOne(v, mirror[n]) : v \in before}
      BY <2>1
    <3> QED
      BY <3>1, <3>2
  <2>2. CASE n \notin D
    BY <1>b, <2>2
  <2> QED
    BY <2>1, <2>2
<1> HIDE DEF Body
<1>2. 0 \in E
  <2>1. [n \in 0 .. 0 |-> {w}] = F([n \in 0 .. 0 |-> {w}], 0)
    OBVIOUS
  <2> QED
    BY <2>1
<1>3. ASSUME NEW k \in Nat, k \in E
      PROVE  k + 1 \in E
  <2>1. PICK g : g = F(g, k)
    BY <1>3
  <2> DEFINE h == [n \in 0 .. k + 1 |-> IF n = k + 1 THEN Body(k + 1, g[k]) ELSE g[n]]
  <2>2. \A n \in 0 .. k : h[n] = g[n]
    OBVIOUS
  <2>3. h[k + 1] = Body(k + 1, h[k])
    BY <2>2
  <2>4. \A n \in 0 .. k : g[n] = IF n = 0 THEN {w} ELSE Body(n, g[n - 1])
    BY <2>1
  <2>5. \A n \in 0 .. k : n # 0 => n - 1 \in 0 .. k
    OBVIOUS
  <2>6. \A n \in 0 .. k + 1 : n \in 0 .. k \/ n = k + 1
    OBVIOUS
  <2>7. k + 1 # 0 /\ k + 1 - 1 = k
    OBVIOUS
  <2>8. h = [n \in 0 .. k + 1 |-> h[n]]
    OBVIOUS
  <2> HIDE DEF h
  <2>9. ASSUME NEW n \in 0 .. k + 1
        PROVE  h[n] = IF n = 0 THEN {w} ELSE Body(n, h[n - 1])
    <3>1. CASE n \in 0 .. k /\ n = 0
      BY <2>2, <2>4, <3>1
    <3>2. CASE n \in 0 .. k /\ n # 0
      <4>1. n - 1 \in 0 .. k
        BY <2>5, <3>2
      <4>2. h[n - 1] = g[n - 1] /\ h[n] = g[n]
        BY <2>2, <3>2, <4>1
      <4>3. g[n] = Body(n, g[n - 1])
        BY <2>4, <3>2
      <4> QED
        BY <3>2, <4>2, <4>3
    <3>3. CASE n = k + 1
      <4>1. n # 0 /\ n - 1 = k
        BY <2>7, <3>3
      <4>2. h[n] = Body(n, h[k])
        BY <2>3, <3>3
      <4> QED
        BY <4>1, <4>2
    <3> QED
      BY <2>6, <3>1, <3>2, <3>3
  <2>10. h = F(h, k + 1)
    BY <2>8, <2>9
  <2> QED
    BY <2>10
<1>4. N \in E
  BY <1>2, <1>3, Inductive
<1>5. A = F(A, N)
  BY <1>4
<1> HIDE DEF A
<1>6. 0 \in S
  BY <1>5
<1>7. ASSUME NEW n \in Nat, n \in S
      PROVE  n + 1 \in S
  <2> SUFFICES ASSUME n + 1 <= N
               PROVE  A[n + 1] \subseteq Q[n + 1]
    OBVIOUS
  <2>1. A[n] \subseteq Q[n]
    BY <1>7
  <2>2. n + 1 \in 0 .. N /\ n + 1 \in 1 .. N /\ n + 1 # 0 /\ n + 1 - 1 = n
    OBVIOUS
  <2>3. A[n + 1] = Body(n + 1, A[n])
    <3>1. \A m \in 0 .. N : m # 0 => A[m] = Body(m, A[m - 1])
      BY <1>5
    <3>2. A[n + 1] = Body(n + 1, A[n + 1 - 1])
      BY <2>2, <3>1
    <3> QED
      BY <2>2, <3>2
  <2> QED
    BY <1>b, <2>1, <2>2, <2>3
<1>8. N \in S
  BY <1>6, <1>7, Inductive
<1> QED
  BY <1>1, <1>8


\* Restore keeps the invariant.
LEMMA RestoreBase ==
    ASSUME NEW w, NEW mirror \in Tables, Base(setting, w), NEW v \in Restore(w, mirror)
    PROVE  Base(setting, v)
<1> DEFINE N == setting.numbers
           Q == [j \in 0 .. N |-> {u \in AllWorlds : Base(setting, u)}]
<1>n. N \in Nat
  BY DEF Base, Shape, Sized
<1>q. \A j \in 0 .. N : \A u : Base(setting, u) <=> u \in Q[j]
  BY DEF Base, Shape
<1>j. /\ 0 \in 0 .. N
      /\ N \in 0 .. N
      /\ \A n \in 1 .. N : n \in 0 .. N /\ n - 1 \in 0 .. N
  BY <1>n
<1> HIDE DEF Q
<1>1. w \in Q[0]
  BY <1>j, <1>q
<1>2. ASSUME NEW n \in 1 .. N, n \in Restorable(mirror), NEW u \in Q[n - 1]
      PROVE  RestoreOne(u, mirror[n]) \subseteq Q[n]
  <2>1. Base(setting, u)
    BY <1>j, <1>q
  <2>2. mirror[n] \in Bps
    BY <1>2, TableBp DEF Restorable
  <2>3. \A x \in RestoreOne(u, mirror[n]) : Base(setting, x)
    BY <2>1, <2>2, RestoreOneBase
  <2> QED
    BY <1>j, <1>q, <2>3
<1>3. ASSUME NEW n \in 1 .. N, NEW u \in Q[n - 1]
      PROVE  u \in Q[n]
  BY <1>j, <1>q
<1>4. Restore(w, mirror) \subseteq Q[N]
  BY <1>n, <1>1, <1>2, <1>3, RestoreLoop
<1> QED
  BY <1>4, <1>j, <1>q

\* The numbers gdb's records still to be handled are about.
QueuedIn(s, w) == {n \in 1 .. s.numbers : Queued(w, n)}

FreshGdb(w, queued) ==
    [NewGdb EXCEPT !.stops = w.gdb.stops, !.resumes = w.gdb.resumes,
                   !.deaths = w.gdb.deaths, !.inherited = queued]

Fresh(w, queued) ==
    [w EXCEPT !.gdb = FreshGdb(w, queued),
              !.st.mirror = NoBreakpoints, !.st.ours = {},
              !.st.runState = "none",
              !.adrift = queued,
              !.wanted = {}]

\* A new gdb: no breakpoints, no process, the old records still queued.
LEMMA FreshIs ==
    ASSUME NEW w \in AllWorlds, NEW queued \in SUBSET Nat
    PROVE  LET v == Fresh(w, queued)
           IN /\ v \in AllWorlds
              /\ v.gdb.up /\ v.gdb.process = "none" /\ ~v.gdb.loaded
              /\ v.gdb.table = NoBreakpoints
              /\ v.gdb.next = 1
              /\ v.gdb.late = <<>>
              /\ v.gdb.resumes = w.gdb.resumes
              /\ v.gdb.stops = w.gdb.stops
              /\ v.gdb.deaths = w.gdb.deaths
              /\ v.gdb.began = 0
              /\ v.gdb.inherited = queued
              /\ v.st.mirror = NoBreakpoints
              /\ v.st.ours = {}
              /\ v.st.runState = "none"
              /\ v.st.deferred = w.st.deferred
              /\ v.st.exe = w.st.exe
              /\ v.st.missed = w.st.missed
              /\ v.intake = w.intake
              /\ v.adrift = queued
              /\ v.wanted = {}
<1> DEFINE g == FreshGdb(w, queued)
           a == [w.st EXCEPT !.mirror = NoBreakpoints, !.ours = {}, !.runState = "none"]
           v == [w EXCEPT !.gdb = g, !.st = a, !.adrift = queued, !.wanted = {}]
<1>0. /\ w.st \in Mirrors /\ w.gdb.stops \in Nat /\ w.gdb.resumes \in Nat
      /\ w.gdb.deaths \in Nat
  BY DEF AllWorlds, Gdbs
<1>1. NoBreakpoints \in Tables
  BY TableEmpty
<1>2. g = [up |-> TRUE, process |-> "none", loaded |-> FALSE, library |-> FALSE, entry |-> FALSE,
           table |-> NoBreakpoints, next |-> 1, late |-> <<>>, stops |-> w.gdb.stops,
           resumes |-> w.gdb.resumes, began |-> 0, deaths |-> w.gdb.deaths,
           overtaken |-> FALSE, inherited |-> queued]
  <2> DEFINE t == NoBreakpoints
             e == <<>>
             new == [up |-> TRUE, process |-> "none", loaded |-> FALSE, library |-> FALSE, entry |-> FALSE,
                     table |-> t, next |-> 1, late |-> e, stops |-> 0,
                     resumes |-> 0, began |-> 0, deaths |-> 0, overtaken |-> FALSE,
                     inherited |-> {}]
  <2>1. g = [new EXCEPT !.stops = w.gdb.stops, !.resumes = w.gdb.resumes,
                        !.deaths = w.gdb.deaths, !.inherited = queued]
    BY Zenon DEF FreshGdb, NewGdb
  <2> HIDE DEF t, e, g
  <2>2. g = [up |-> TRUE, process |-> "none", loaded |-> FALSE, library |-> FALSE, entry |-> FALSE,
             table |-> t, next |-> 1, late |-> e, stops |-> w.gdb.stops,
             resumes |-> w.gdb.resumes, began |-> 0, deaths |-> w.gdb.deaths,
             overtaken |-> FALSE, inherited |-> queued]
    BY <2>1
  <2> QED
    BY <2>2 DEF t, e
<1>3. <<>> \in Seq(Commands)
  OBVIOUS
<1>4. g \in Gdbs
  <2> DEFINE t == NoBreakpoints
             e == <<>>
  <2>1. t \in Tables /\ e \in Seq(Commands)
    BY <1>1, <1>3
  <2>2. g = [up |-> TRUE, process |-> "none", loaded |-> FALSE, library |-> FALSE, entry |-> FALSE,
           table |-> t, next |-> 1, late |-> e, stops |-> w.gdb.stops,
           resumes |-> w.gdb.resumes, began |-> 0, deaths |-> w.gdb.deaths,
           overtaken |-> FALSE, inherited |-> queued]
    BY <1>2
  <2> HIDE DEF t, e, g
  <2> QED
    BY <1>0, <2>1, <2>2 DEF Gdbs
<1>5. /\ g.up /\ g.process = "none" /\ ~g.loaded
      /\ g.table = NoBreakpoints
      /\ g.next = 1
      /\ g.late = <<>>
      /\ g.resumes = w.gdb.resumes
      /\ g.stops = w.gdb.stops
      /\ g.deaths = w.gdb.deaths
      /\ g.began = 0
      /\ g.inherited = queued
  BY <1>2
<1>6. /\ a \in Mirrors
      /\ a.mirror = NoBreakpoints
      /\ a.ours = {}
      /\ a.runState = "none"
      /\ a.deferred = w.st.deferred
      /\ a.exe = w.st.exe
      /\ a.missed = w.st.missed
  <2> DEFINE t == NoBreakpoints
  <2>1. t \in Tables
    BY <1>1
  <2>2. a = [w.st EXCEPT !.mirror = t, !.ours = {}, !.runState = "none"]
    OBVIOUS
  <2> HIDE DEF t, a
  <2>3. /\ a \in Mirrors
        /\ a.mirror = t
        /\ a.ours = {}
        /\ a.runState = "none"
        /\ a.deferred = w.st.deferred
        /\ a.exe = w.st.exe
        /\ a.missed = w.st.missed
    BY <1>0, <2>1, <2>2 DEF Mirrors
  <2> QED
    BY <2>3 DEF t
<1>7. Fresh(w, queued) = v
  BY Zenon DEF Fresh
<1> HIDE DEF g, a
<1>8. /\ v \in AllWorlds
      /\ v.gdb = g
      /\ v.st = a
      /\ v.intake = w.intake
      /\ v.adrift = queued
      /\ v.wanted = {}
  BY <1>4, <1>6 DEF AllWorlds
<1> HIDE DEF v
<1> QED
  BY <1>5, <1>6, <1>7, <1>8

\* It satisfies the invariant: every number a record is queued about is adrift.
LEMMA FreshBase ==
    ASSUME NEW s, NEW w, Base(s, w)
    PROVE  Base(s, Fresh(w, QueuedIn(s, w)))
<1> DEFINE queued == QueuedIn(s, w)
           v == Fresh(w, queued)
<1>0. /\ w \in AllWorlds /\ s.numbers \in Nat /\ s.late \in Nat
      /\ \A i \in 1 .. Len(w.intake) : GoodRecord(s, w.intake[i])
      /\ \A i \in 1 .. Len(w.intake) : w.intake[i] \in Records
      /\ DOMAIN w.intake = 1 .. Len(w.intake)
  BY ShapeNat DEF Base, Shape, Sized, Goods
<1>1. queued \in SUBSET Nat /\ \A n \in queued : n \in 1 .. s.numbers
  BY <1>0 DEF QueuedIn
<1>q. \A n \in 1 .. s.numbers : n \notin queued =>
         \A i \in 1 .. Len(w.intake) : w.intake[i].n # n
  BY <1>0 DEF QueuedIn, Queued
<1> HIDE DEF queued
<1>2. /\ v \in AllWorlds
      /\ v.gdb.table = NoBreakpoints
      /\ v.gdb.next = 1
      /\ v.gdb.late = <<>>
      /\ v.gdb.inherited = queued
      /\ v.st.mirror = NoBreakpoints
      /\ v.st.ours = {}
      /\ v.intake = w.intake
      /\ v.adrift = queued
  <2>1. w \in AllWorlds /\ queued \in SUBSET Nat
    BY <1>0, <1>1
  <2> QED
    BY <2>1, FreshIs, ZenonT(120)
<1>3. DOMAIN NoBreakpoints = {}
  BY TableEmpty
<1> HIDE DEF v
<1>4. DOMAIN v.gdb.table = {} /\ DOMAIN v.st.mirror = {}
  BY <1>2, <1>3
<1>5. Shape(s, v)
  <2>1. Sized(s, v)
    <3>1. v.gdb.next \in 1 .. s.numbers + 1
      BY <1>0, <1>2
    <3>2. /\ \A n \in DOMAIN v.gdb.table : n \in 1 .. v.gdb.next - 1
          /\ \A n \in DOMAIN v.st.mirror : n \in 1 .. s.numbers
      BY <1>4
    <3>3. /\ \A n \in v.st.ours : n \in 1 .. v.gdb.next - 1
          /\ \A n \in v.adrift : n \in 1 .. s.numbers
          /\ \A n \in v.gdb.inherited : n \in 1 .. s.numbers
      BY <1>1, <1>2
    <3> QED
      BY <1>0, <3>1, <3>2, <3>3 DEF Sized
  <2>2. Goods(s, v)
    BY <1>0, <1>2, <1>4 DEF Goods
  <2>3. Lates(s, v)
    BY <1>2 DEF Lates
  <2> QED
    BY <1>2, <2>1, <2>2, <2>3 DEF Shape
<1>6. Agree(s, v)
  <2> SUFFICES ASSUME NEW n \in 1 .. s.numbers, n \notin queued
               PROVE  AgreesAt(v, n)
    BY <1>2 DEF Agree
  <2> QED
    BY <1>2, <1>4, <1>q DEF AgreesAt, Shows
<1>7. Follows(s, v)
  BY <1>2, <1>q DEF Follows, FollowsAt
<1>8. Same(s, v)
  <2> SUFFICES ASSUME Tame(s, v)
               PROVE  /\ Doomed(v) = {}
                      /\ \A i \in 1 .. Len(w.intake) :
                            w.intake[i].kind \in {"created", "modified"} =>
                               w.intake[i].bp.place # "name"
    BY <1>2, <1>4 DEF Same, NamesAt
  <2>1. Doomed(v) = {}
    BY <1>2 DEF Doomed
  <2>2. ASSUME NEW i \in 1 .. Len(w.intake), w.intake[i].kind \in {"created", "modified"},
               w.intake[i].bp.place = "name"
        PROVE  FALSE
    <3>1. w.intake[i].n \in 1 .. s.numbers
      BY <1>0, <2>2 DEF GoodRecord, ToldKinds
    <3>2. w.intake[i].n \in queued
      BY <1>q, <3>1
    <3>3. "typed" \notin s.kinds
      BY <1>2, <3>2 DEF Tame
    <3> QED
      BY <2>2, <3>3 DEF Base, Same, Tame
  <2> QED
    BY <2>1, <2>2
<1>9. NamesShown(s, v)
  BY <1>4 DEF NamesShown
<1> QED
  BY <1>5, <1>6, <1>7, <1>8, <1>9 DEF Base, v, queued

\* What the new gdb owes its users.
Lines(w) == {u \in w.wanted : \E n \in Restorable(w.st.mirror) : w.st.mirror[n].tag = u.tag}

Owing(v, lines) == [v EXCEPT !.wanted = {[u EXCEPT !.enabled = TRUE] : u \in lines}]

\* The wishes that are to be restored, enabled.
LEMMA OwingIs ==
    ASSUME NEW v \in AllWorlds, NEW lines \in SUBSET Wishes
    PROVE  LET x == Owing(v, lines)
           IN /\ x \in AllWorlds
              /\ x.st = v.st
              /\ x.gdb = v.gdb
              /\ x.intake = v.intake
              /\ x.adrift = v.adrift
              /\ x.wanted = {[u EXCEPT !.enabled = TRUE] : u \in lines}
<1>1. {[u EXCEPT !.enabled = TRUE] : u \in lines} \in SUBSET Wishes
  BY DEF Wishes
<1> QED
  BY <1>1 DEF Owing, AllWorlds

RestartIs(w, v) ==
    LET fresh == Fresh(w, QueuedIn(setting, w))
    IN \/ v = w
       \/ ~w.st.exe /\ v = fresh
       \/ \E r \in ExeLoad(fresh) :
             \/ ~r.ok /\ v = r.w
             \/ r.ok /\ v \in Restore(Owing(r.w, Lines(w)), w.st.mirror)

\* A restart fails, or begins with a new gdb, loads and restores.
LEMMA RestartGDBIs ==
    ASSUME NEW w, NEW v \in RestartGDB(w)
    PROVE  RestartIs(w, v)
<1> DEFINE fresh == Fresh(w, QueuedIn(setting, w))
           Restored(x) == Restore(Owing(x, Lines(w)), w.st.mirror)
<1>1. v \in {w} \cup (IF w.st.exe
                      THEN UNION {IF r.ok THEN Restored(r.w) ELSE {r.w} : r \in ExeLoad(fresh)}
                      ELSE {fresh})
  BY Zenon DEF RestartGDB, Fresh, FreshGdb, QueuedIn, Numbers, Owing, Lines, Follow, Done
<1> HIDE DEF fresh, Restored
<1>2. \/ v = w
      \/ ~w.st.exe /\ v = fresh
      \/ \E r \in ExeLoad(fresh) : v \in IF r.ok THEN Restored(r.w) ELSE {r.w}
  BY <1>1
<1>3. \/ v = w
      \/ ~w.st.exe /\ v = fresh
      \/ \E r \in ExeLoad(fresh) : \/ ~r.ok /\ v = r.w
                                   \/ r.ok /\ v \in Restored(r.w)
  BY <1>2
<1> QED
  BY <1>3 DEF RestartIs, fresh, Restored

\* RestartGDB keeps the invariant.
LEMMA RestartBase ==
    ASSUME NEW w, Base(setting, w), NEW v \in RestartGDB(w)
    PROVE  Base(setting, v)
<1> DEFINE fresh == Fresh(w, QueuedIn(setting, w))
<1>1. \/ v = w
      \/ ~w.st.exe /\ v = fresh
      \/ \E r \in ExeLoad(fresh) :
             \/ ~r.ok /\ v = r.w
             \/ r.ok /\ v \in Restore(Owing(r.w, Lines(w)), w.st.mirror)
  BY RestartGDBIs DEF RestartIs
<1>2. Base(setting, fresh)
  BY FreshBase
<1> HIDE DEF fresh
<1>3. ASSUME NEW r \in ExeLoad(fresh)
      PROVE  Base(setting, r.w)
  BY <1>2, ExeLoadBase
<1>4. ASSUME NEW r \in ExeLoad(fresh), v \in Restore(Owing(r.w, Lines(w)), w.st.mirror)
      PROVE  Base(setting, v)
  <2> DEFINE x == Owing(r.w, Lines(w))
  <2>1. Lines(w) \in SUBSET Wishes /\ w.st.mirror \in Tables /\ r.w \in AllWorlds
    BY <1>3 DEF Lines, Base, Shape, AllWorlds, Mirrors
  <2>2. /\ x \in AllWorlds
        /\ x.st = r.w.st
        /\ x.gdb = r.w.gdb
        /\ x.intake = r.w.intake
        /\ x.adrift = r.w.adrift
    BY <2>1, OwingIs
  <2>3. v \in Restore(x, w.st.mirror)
    BY <1>4
  <2> HIDE DEF x
  <2>4. Base(setting, x)
    BY <1>3, <2>2, ActorBase
  <2> QED
    BY <2>1, <2>3, <2>4, RestoreBase
<1> QED
  BY <1>1, <1>2, <1>3, <1>4

-----------------------------------------------------------------------------
(* Every step.                                                             *)

\* A timed-out command taken from those gdb has still to execute.
Popped(w) == [w EXCEPT !.gdb.late = Tail(@)]

Dead(w) ==
    [w EXCEPT !.gdb = [w.gdb EXCEPT !.up = FALSE, !.process = "none", !.late = <<>>,
                                    !.deaths = @ + 1]]

\* What users ask for,
RequestIs(w, v) ==
    \/ \E place \in Places, temporary \in BOOLEAN, tag \in Nat :
          /\ tag # 0 => ~temporary /\ tag = w.st.issued + 1
          /\ place = "name" => ~Started(w)
          /\ v \in BpSet(IssuedState(w), place, temporary, tag)
    \/ \E n \in 1 .. setting.numbers : v \in DropBreakpoint(w, n, TRUE)
    \/ \E n \in 1 .. setting.numbers, on \in BOOLEAN : v \in BpSetEnabled(w, n, on)
    \/ v \in Reconcile(w)
    \/ w.st.runState # "running" /\ \E r \in ExeLoad(w) : v = r.w
    \/ \E verb \in RunVerbs : w.st.runState # "running" /\ \E r \in Run(w, verb) : v = r.w
    \/ \E place \in Places : /\ w.st.runState # "running"
                             /\ place = "name" => ~Started(w)
                             /\ v \in ExecRunTo(w, place)
    \/ w.st.runState = "stopped" /\ \E r \in Continue(w) : v = r.w

\* what they type, and a new gdb,
OtherIs(w, v) ==
    \/ \E verb \in {"insert", "delete", "enable"}, n \in Nat, bp \in Bps :
          /\ "typed" \in setting.kinds
          /\ verb = "insert" => bp.by = "typed" /\ bp.tag = 0
          /\ verb # "insert" => n \in 1 .. setting.numbers
          /\ bp.place # "name"
          /\ v \in ConsoleExec(w, TypedAs(verb, n, bp))
    \/ ~w.gdb.up /\ v \in RestartGDB(w)

\* and what happens of itself.
EventIs(w, v) ==
    \/ w.intake # <<>> /\ OnRecordIs(w, v)
    \/ w.gdb.process = "running" /\ v = Pause(w)
    \/ \E n \in 1 .. setting.numbers :
          w.gdb.process = "running" /\ CanHit(w.gdb, n) /\ v = Hit(w, n)
    \/ w.gdb.process = "running" /\ ~w.gdb.entry /\ v = Exit(w)
    \/ w.gdb.process = "running" /\ ~w.gdb.entry /\ v = LoadLibrary(w)
    \/ w.gdb.late # <<>> /\ v = Execute(Popped(w), Head(w.gdb.late), TRUE)
    \/ w.gdb.up /\ v = Dead(w)

StepIs(w, v) == RequestIs(w, v) \/ OtherIs(w, v) \/ EventIs(w, v)

\* Each request keeps the invariant,
LEMMA RequestBase ==
    ASSUME NEW w, Base(setting, w), NEW v, RequestIs(w, v)
    PROVE  Base(setting, v)
<1>1. ASSUME NEW place \in Places, NEW temporary \in BOOLEAN, NEW tag \in Nat,
             tag # 0 => ~temporary, v \in BpSet(IssuedState(w), place, temporary, tag)
      PROVE  Base(setting, v)
  <2> DEFINE x == IssuedState(w)
  <2>1. OnlyStatus(w, x)
    BY IssuedStateIs DEF Base, Shape
  <2> HIDE DEF x
  <2>2. Base(setting, x)
    BY <2>1, StatusBase
  <2> QED
    BY <1>1, <2>2, BpSetBase DEF x, Places
<1>2. ASSUME NEW n \in 1 .. setting.numbers, v \in DropBreakpoint(w, n, TRUE)
      PROVE  Base(setting, v)
  <2>1. PICK f \in BOOLEAN : f = TRUE
    OBVIOUS
  <2>2. v \in DropBreakpoint(w, n, f) /\ f
    BY <1>2, <2>1
  <2> HIDE <2>1
  <2> QED
    BY <2>2, DropBase
<1>3. ASSUME NEW n \in 1 .. setting.numbers, NEW on \in BOOLEAN, v \in BpSetEnabled(w, n, on)
      PROVE  Base(setting, v)
  BY <1>3, BpSetEnabledBase
<1>4. CASE v \in Reconcile(w)
  BY <1>4, ReconcileBase
<1>5. ASSUME NEW r \in ExeLoad(w), v = r.w
      PROVE  Base(setting, v)
  BY <1>5, ExeLoadBase
<1>6. ASSUME NEW verb \in RunVerbs, NEW r \in Run(w, verb), v = r.w
      PROVE  Base(setting, v)
  BY <1>6, RunBase
<1>7. ASSUME NEW place \in Places, v \in ExecRunTo(w, place)
      PROVE  Base(setting, v)
  BY <1>7, ExecRunToBase
<1>8. ASSUME NEW r \in Continue(w), v = r.w
      PROVE  Base(setting, v)
  BY <1>8, ContinueBase
<1> QED
  BY <1>1, <1>2, <1>3, <1>4, <1>5, <1>6, <1>7, <1>8 DEF RequestIs

\* what is typed and a restart do,
LEMMA OtherBase ==
    ASSUME NEW w, Base(setting, w), NEW v, OtherIs(w, v)
    PROVE  Base(setting, v)
<1>1. ASSUME NEW verb \in {"insert", "delete", "enable"}, NEW n \in Nat, NEW bp \in Bps,
             "typed" \in setting.kinds, verb = "insert" => bp.by = "typed" /\ bp.tag = 0,
             verb # "insert" => n \in 1 .. setting.numbers, bp.place # "name",
             v \in ConsoleExec(w, TypedAs(verb, n, bp))
      PROVE  Base(setting, v)
  <2> DEFINE cmd == TypedAs(verb, n, bp)
  <2>1. Fit(setting, w, cmd) /\ cmd.typed
    <3>1. /\ "typed" \in setting.kinds
          /\ verb = "insert" => bp.by = "typed" /\ bp.tag = 0
          /\ verb # "insert" => n \in 1 .. setting.numbers
          /\ bp.place # "name"
      BY <1>1
    <3> HIDE <1>1
    <3> QED
      BY <3>1, TypedAsIs
  <2> HIDE DEF cmd
  <2> QED
    BY <1>1, <2>1, ConsoleExecBase DEF cmd
<1> QED
  BY <1>1, RestartBase DEF OtherIs

\* gdb that died has no process, and nothing waits in it.
LEMMA DeadIs ==
    ASSUME NEW w \in AllWorlds
    PROVE  LET v == Dead(w)
           IN /\ v \in AllWorlds
              /\ v.st = w.st
              /\ v.intake = w.intake
              /\ v.wanted = w.wanted
              /\ v.adrift = w.adrift
              /\ v.gdb.table = w.gdb.table
              /\ v.gdb.next = w.gdb.next
              /\ v.gdb.inherited = w.gdb.inherited
              /\ v.gdb.resumes = w.gdb.resumes
              /\ v.gdb.began = w.gdb.began
              /\ v.gdb.overtaken = w.gdb.overtaken
              /\ v.gdb.late = <<>>
              /\ v.gdb.process = "none"
              /\ ~v.gdb.up
<1> DEFINE e == <<>>
           d == w.gdb.deaths + 1
           g == [w.gdb EXCEPT !.up = FALSE, !.process = "none", !.late = e, !.deaths = d]
<1>0. w.gdb \in Gdbs
  BY DEF AllWorlds
<1>1. e \in Seq(Commands) /\ d \in Nat
  BY <1>0 DEF Gdbs
<1> HIDE DEF e, d
<1>2. /\ g \in Gdbs
      /\ g.table = w.gdb.table
      /\ g.next = w.gdb.next
      /\ g.inherited = w.gdb.inherited
      /\ g.resumes = w.gdb.resumes
      /\ g.began = w.gdb.began
      /\ g.overtaken = w.gdb.overtaken
      /\ g.late = e
      /\ g.process = "none"
      /\ ~g.up
  BY <1>0, <1>1 DEF Gdbs
<1>3. Dead(w) = [w EXCEPT !.gdb = g]
  BY Zenon DEF Dead, e, d
<1> HIDE DEF g
<1>4. /\ [w EXCEPT !.gdb = g] \in AllWorlds
      /\ [w EXCEPT !.gdb = g].st = w.st
      /\ [w EXCEPT !.gdb = g].gdb = g
      /\ [w EXCEPT !.gdb = g].intake = w.intake
      /\ [w EXCEPT !.gdb = g].wanted = w.wanted
      /\ [w EXCEPT !.gdb = g].adrift = w.adrift
  BY <1>2 DEF AllWorlds
<1> QED
  BY <1>2, <1>3, <1>4 DEF e

\* Its death keeps the invariant.
LEMMA DeadBase ==
    ASSUME NEW s, NEW w, Base(s, w)
    PROVE  Base(s, Dead(w))
<1> DEFINE v == Dead(w)
<1>0. w \in AllWorlds
  BY DEF Base, Shape
<1>1. /\ v \in AllWorlds
      /\ v.st = w.st
      /\ v.intake = w.intake
      /\ v.adrift = w.adrift
      /\ v.gdb.table = w.gdb.table
      /\ v.gdb.next = w.gdb.next
      /\ v.gdb.inherited = w.gdb.inherited
      /\ v.gdb.late = <<>>
  BY <1>0, DeadIs
<1> HIDE DEF v
<1>2. Lates(s, v) /\ \A n \in Doomed(v) : n < v.gdb.next
  BY <1>1 DEF Lates, Doomed
<1> QED
  BY <1>1, <1>2, LateBase DEF v

\* One late command fewer.
LEMMA PoppedIs ==
    ASSUME NEW w \in AllWorlds, w.gdb.late # <<>>
    PROVE  LET v == Popped(w)
           IN /\ v \in AllWorlds
              /\ v.st = w.st
              /\ v.intake = w.intake
              /\ v.wanted = w.wanted
              /\ v.adrift = w.adrift
              /\ v.gdb = [w.gdb EXCEPT !.late = Tail(w.gdb.late)]
              /\ Tail(w.gdb.late) \in Seq(Commands)
              /\ Head(w.gdb.late) \in Commands
              /\ 1 \in 1 .. Len(w.gdb.late) /\ w.gdb.late[1] = Head(w.gdb.late)
              /\ \A i \in 1 .. Len(Tail(w.gdb.late)) :
                    /\ i + 1 \in 1 .. Len(w.gdb.late)
                    /\ Tail(w.gdb.late)[i] = w.gdb.late[i + 1]
<1> DEFINE q == w.gdb.late
           g == [w.gdb EXCEPT !.late = Tail(q)]
<1>1. q \in Seq(Commands)
  BY DEF AllWorlds, Gdbs
<1>2. /\ Tail(q) \in Seq(Commands)
      /\ Head(q) \in Commands
      /\ 1 \in 1 .. Len(q) /\ q[1] = Head(q)
      /\ \A i \in 1 .. Len(Tail(q)) : i + 1 \in 1 .. Len(q) /\ Tail(q)[i] = q[i + 1]
  BY <1>1
<1>3. g \in Gdbs
  BY <1>2 DEF AllWorlds, Gdbs
<1>4. Popped(w) = [w EXCEPT !.gdb = g]
  BY DEF Popped, AllWorlds, Gdbs
<1> HIDE DEF g
<1>5. /\ [w EXCEPT !.gdb = g] \in AllWorlds
      /\ [w EXCEPT !.gdb = g].st = w.st
      /\ [w EXCEPT !.gdb = g].gdb = g
      /\ [w EXCEPT !.gdb = g].intake = w.intake
      /\ [w EXCEPT !.gdb = g].wanted = w.wanted
      /\ [w EXCEPT !.gdb = g].adrift = w.adrift
  BY <1>3 DEF AllWorlds
<1> QED
  BY <1>2, <1>4, <1>5 DEF g

\* It was one the server could send.
LEMMA PoppedBase ==
    ASSUME NEW s, NEW w, Base(s, w), w.gdb.late # <<>>
    PROVE  /\ Base(s, Popped(w))
           /\ Legit(s, Head(w.gdb.late))
           /\ s.late # 0
<1> DEFINE v == Popped(w)
           q == w.gdb.late
<1>0. w \in AllWorlds /\ w.gdb \in Gdbs
  BY DEF Base, Shape, AllWorlds
<1>1. /\ v \in AllWorlds
      /\ v.st = w.st
      /\ v.intake = w.intake
      /\ v.adrift = w.adrift
      /\ v.gdb = [w.gdb EXCEPT !.late = Tail(q)]
      /\ 1 \in 1 .. Len(q) /\ q[1] = Head(q)
      /\ \A i \in 1 .. Len(Tail(q)) : i + 1 \in 1 .. Len(q) /\ Tail(q)[i] = q[i + 1]
  BY <1>0, PoppedIs
<1> HIDE DEF v, q
<1>2. /\ v.gdb.table = w.gdb.table
      /\ v.gdb.next = w.gdb.next
      /\ v.gdb.inherited = w.gdb.inherited
      /\ v.gdb.late = Tail(q)
  BY <1>0, <1>1 DEF Gdbs
<1>3. Lates(s, w)
  BY DEF Base, Shape
<1>4. Lates(s, v)
  BY <1>1, <1>2, <1>3 DEF Lates, q
<1>5. \A n \in Doomed(v) : n \in Doomed(w)
  BY <1>1, <1>2 DEF Doomed, q
<1>6. Tame(s, v) => \A n \in Doomed(v) : n < v.gdb.next
  BY <1>2, <1>5 DEF Base, Same, Tame
<1>7. Base(s, v)
  BY <1>1, <1>2, <1>4, <1>6, LateBase
<1>8. Legit(s, Head(q)) /\ s.late # 0
  BY <1>1, <1>3 DEF Lates, q
<1> QED
  BY <1>7, <1>8 DEF v, q

\* Each record, each event of the program and of gdb keeps the invariant,
LEMMA EventBase ==
    ASSUME NEW w, Base(setting, w), NEW v, EventIs(w, v)
    PROVE  Base(setting, v)
<1>1. CASE w.intake # <<>> /\ OnRecordIs(w, v)
  BY <1>1, OnRecordBase
<1>2. CASE v = Pause(w) \/ v = Exit(w)
  BY <1>2, ProgramBase
<1>3. ASSUME NEW n \in 1 .. setting.numbers, CanHit(w.gdb, n), v = Hit(w, n)
      PROVE  Base(setting, v)
  BY <1>3, HitBase DEF CanHit
<1>4. CASE w.gdb.late # <<>> /\ v = Execute(Popped(w), Head(w.gdb.late), TRUE)
  <2> DEFINE x == Popped(w)
             cmd == Head(w.gdb.late)
  <2>1. Base(setting, x) /\ Legit(setting, cmd) /\ setting.late # 0
    BY <1>4, PoppedBase
  <2>2. PICK f \in BOOLEAN : f = TRUE
    OBVIOUS
  <2>3. v = Execute(x, cmd, f) /\ f
    BY <1>4, <2>2
  <2> HIDE DEF x, cmd
  <2> HIDE <2>2
  <2>4. Unanswered(cmd, f)
    BY <2>3 DEF Unanswered
  <2> QED
    BY <2>1, <2>3, <2>4, ExecuteBase
<1>5. CASE v = Dead(w)
  BY <1>5, DeadBase
<1>6. CASE v = LoadLibrary(w)
  BY <1>6, LibraryBase
<1> QED
  BY <1>1, <1>2, <1>3, <1>4, <1>5, <1>6 DEF EventIs

\* so each step does.
LEMMA StepBase ==
    ASSUME NEW w, Base(setting, w), NEW v, StepIs(w, v)
    PROVE  Base(setting, v)
BY RequestBase, OtherBase, EventBase DEF StepIs

\* What the steps of the specification come to.
LEMMA AsksForBreakpointIs ==
    ASSUME NEW kind \in {"line", "library", "name", "temporary"}, AsksForBreakpoint(kind),
           World \in AllWorlds
    PROVE  \E v : RequestIs(World, v) /\ Become(v)
<1> DEFINE w == IssuedState(World)
           place == CASE kind = "name" -> NamePlace(w)
                      [] kind = "library" -> "library"
                      [] OTHER -> "line"
           tag == IF kind = "temporary" THEN 0 ELSE st.issued + 1
           temporary == kind = "temporary"
<1>1. PICK v \in BpSet(w, place, temporary, tag) : Become(v)
  BY DEF AsksForBreakpoint, Serve, IssuedState, World
<1>2. st.issued \in Nat /\ World.st = st
  BY DEF AllWorlds, Mirrors, World
<1>3. tag \in Nat /\ temporary \in BOOLEAN /\ (tag # 0 => ~temporary /\ tag = World.st.issued + 1)
  BY <1>2
<1>4. place \in Places /\ (place = "name" => ~Started(World))
  <2>1. w.st.runState = World.st.runState
    BY IssuedStateIs
  <2> QED
    BY <2>1 DEF NamePlace, Started, Places
<1> HIDE DEF place, tag, temporary
<1> QED
  BY <1>1, <1>3, <1>4 DEF RequestIs

\* The actions of Next are these steps: the requests,
LEMMA RequestsAre ==
    ASSUME World \in AllWorlds,
           \/ \E kind \in {"line", "library", "name", "temporary"} : AsksForBreakpoint(kind)
           \/ \E n \in Numbers : AsksToDelete(n)
           \/ \E n \in Numbers, on \in BOOLEAN : AsksToEnable(n, on)
           \/ AsksForList
           \/ AsksToLoad
           \/ \E verb \in {"run", "runMain", "starti"} : AsksToRun(verb)
           \/ \E name \in BOOLEAN : AsksToRunTo(name)
           \/ AsksToContinue
    PROVE  \E v : RequestIs(World, v) /\ Become(v)
<1>0. World.st = st /\ World.gdb = gdb /\ World.intake = intake
  BY DEF World
<1>1. ASSUME NEW kind \in {"line", "library", "name", "temporary"}, AsksForBreakpoint(kind)
      PROVE  \E v : RequestIs(World, v) /\ Become(v)
  BY <1>1, AsksForBreakpointIs
<1>2. ASSUME NEW n \in Numbers, AsksToDelete(n)
      PROVE  \E v : RequestIs(World, v) /\ Become(v)
  BY <1>2 DEF AsksToDelete, Serve, RequestIs, Numbers
<1>3. ASSUME NEW n \in Numbers, NEW on \in BOOLEAN, AsksToEnable(n, on)
      PROVE  \E v : RequestIs(World, v) /\ Become(v)
  BY <1>3 DEF AsksToEnable, Serve, RequestIs, Numbers
<1>4. CASE AsksForList
  BY <1>4 DEF AsksForList, Serve, RequestIs
<1>5. CASE AsksToLoad
  BY <1>0, <1>5 DEF AsksToLoad, Serve, Worlds, Gate, RequestIs
<1>6. ASSUME NEW verb \in {"run", "runMain", "starti"}, AsksToRun(verb)
      PROVE  \E v : RequestIs(World, v) /\ Become(v)
  BY <1>0, <1>6 DEF AsksToRun, Serve, Worlds, Gate, RequestIs, RunVerbs
<1>7. ASSUME NEW name \in BOOLEAN, AsksToRunTo(name)
      PROVE  \E v : RequestIs(World, v) /\ Become(v)
  <2> DEFINE place == IF name THEN NamePlace(World) ELSE "line"
  <2>1. PICK v \in ExecRunTo(World, place) : Become(v)
    BY <1>7 DEF AsksToRunTo, Serve
  <2>2. World.st.runState # "running"
    BY <1>0, <1>7 DEF AsksToRunTo, Serve, Gate
  <2>3. place \in Places /\ (place = "name" => ~Started(World))
    BY DEF NamePlace, Places
  <2> HIDE DEF place
  <2> QED
    BY <2>1, <2>2, <2>3 DEF RequestIs
<1>8. CASE AsksToContinue
  BY <1>0, <1>8 DEF AsksToContinue, Serve, Worlds, Gate, RequestIs
<1> QED
  BY <1>1, <1>2, <1>3, <1>4, <1>5, <1>6, <1>7, <1>8

\* what is typed,
LEMMA TypesIs ==
    ASSUME NEW verb \in {"insert", "delete", "enable"}, NEW n \in Nat, NEW on \in BOOLEAN,
           Types(verb, n, on), World \in AllWorlds, verb # "insert" => n \in Numbers
    PROVE  \E v : OtherIs(World, v) /\ Become(v)
<1> DEFINE bp == IF verb = "insert" THEN Breakpoint("line", FALSE, 0, "typed", gdb.resumes)
                                    ELSE [NoBreakpoint EXCEPT !.enabled = on]
<1>1. PICK v \in ConsoleExec(World, TypedAs(verb, n, bp)) : Become(v)
  BY DEF Types, Serve, TypedAs
<1>2. "typed" \in setting.kinds
  BY DEF Types, Serve, Asked
<1>3. gdb.resumes \in Nat
  BY DEF World, AllWorlds, Gdbs
<1>4. /\ bp \in Bps
      /\ verb = "insert" => bp.by = "typed" /\ bp.tag = 0
      /\ bp.place # "name"
  <2>1. CASE verb = "insert"
    BY <1>3, <2>1 DEF Breakpoint, Bps, Waiting
  <2>2. CASE verb # "insert"
    <3>1. NoBreakpoint \in Bps /\ NoBreakpoint.place = "main"
      BY NoBreakpointType DEF NoBreakpoint, Breakpoint
    <3>2. bp = [NoBreakpoint EXCEPT !.enabled = on]
      BY <2>2
    <3> HIDE DEF bp
    <3>3. bp \in Bps /\ bp.place = "main"
      BY <3>1, <3>2 DEF Bps
    <3> QED
      BY <2>2, <3>3
  <2> QED
    BY <2>1, <2>2
<1> HIDE DEF bp
<1>5. verb # "insert" => n \in 1 .. setting.numbers
  BY DEF Numbers
<1> QED
  BY <1>1, <1>2, <1>4, <1>5 DEF OtherIs

\* and a restart,
LEMMA OthersAre ==
    ASSUME World \in AllWorlds, setting.numbers \in Nat,
           \/ \E n \in Numbers : Types("delete", n, FALSE)
           \/ \E n \in Numbers, on \in BOOLEAN : Types("enable", n, on)
           \/ Types("insert", 0, TRUE)
           \/ AsksToRestart
    PROVE  \E v : OtherIs(World, v) /\ Become(v)
<1>0. \A n \in Numbers : n \in Nat
  BY DEF Numbers
<1>1. ASSUME NEW n \in Numbers, Types("delete", n, FALSE)
      PROVE  \E v : OtherIs(World, v) /\ Become(v)
  <2>1. PICK f \in BOOLEAN, verb \in {"insert", "delete", "enable"} :
           f = FALSE /\ verb = "delete"
    OBVIOUS
  <2>2. Types(verb, n, f)
    BY <1>1, <2>1
  <2> HIDE <2>1
  <2> QED
    BY <1>0, <2>2, TypesIs
<1>2. ASSUME NEW n \in Numbers, NEW on \in BOOLEAN, Types("enable", n, on)
      PROVE  \E v : OtherIs(World, v) /\ Become(v)
  <2>1. PICK verb \in {"insert", "delete", "enable"} : verb = "enable"
    OBVIOUS
  <2>2. Types(verb, n, on)
    BY <1>2, <2>1
  <2> HIDE <2>1
  <2> QED
    BY <1>0, <2>2, TypesIs
<1>3. CASE Types("insert", 0, TRUE)
  <2>1. PICK f \in BOOLEAN, n \in Nat, verb \in {"insert", "delete", "enable"} :
           f = TRUE /\ n = 0 /\ verb = "insert"
    OBVIOUS
  <2>2. Types(verb, n, f) /\ verb = "insert"
    BY <1>3, <2>1
  <2> HIDE <2>1
  <2> QED
    BY <2>2, TypesIs
<1>4. CASE AsksToRestart
  BY <1>4 DEF AsksToRestart, Serve, OtherIs, World
<1> QED
  BY <1>1, <1>2, <1>3, <1>4

\* and what happens by itself.
LEMMA EventsAre ==
    ASSUME World \in AllWorlds,
           \/ Take
           \/ Pauses
           \/ \E n \in Numbers : Hits(n)
           \/ ProgramExits
           \/ LibraryLoads
           \/ ExecuteLate
           \/ GdbDies
    PROVE  \E v : EventIs(World, v) /\ Become(v)
<1>0. World.st = st /\ World.gdb = gdb /\ World.intake = intake
      /\ World.wanted = wanted /\ World.adrift = adrift
  BY DEF World
<1>1. CASE Take
  <2>1. PICK v \in OnRecord(Rest(World), Head(World.intake)) : Become(v)
    BY <1>0, <1>1 DEF Take, Rest
  <2>2. World.intake # <<>>
    BY <1>0, <1>1 DEF Take
  <2>3. OnRecordIs(World, v)
    BY <2>1, <2>2, OnRecordComesTo
  <2> QED
    BY <2>1, <2>2, <2>3 DEF EventIs
<1>2. CASE Pauses
  BY <1>0, <1>2 DEF Pauses, EventIs
<1>3. ASSUME NEW n \in Numbers, Hits(n)
      PROVE  \E v : EventIs(World, v) /\ Become(v)
  BY <1>0, <1>3 DEF Hits, EventIs, Numbers
<1>4. CASE ProgramExits
  BY <1>0, <1>4 DEF ProgramExits, EventIs
<1>5. CASE ExecuteLate
  BY <1>0, <1>5 DEF ExecuteLate, EventIs, Popped
<1>6. CASE GdbDies
  <2>1. gdb \in Gdbs
    BY <1>0 DEF AllWorlds
  <2> DEFINE g == [gdb EXCEPT !.up = FALSE, !.process = "none", !.late = <<>>, !.deaths = @ + 1]
  <2>2. /\ gdb' = g /\ setting' = setting /\ st' = st /\ intake' = intake
        /\ wanted' = wanted /\ adrift' = adrift /\ gdb.up
    BY <1>6 DEF GdbDies
  <2>3. Dead(World) = [World EXCEPT !.gdb = g]
    BY <1>0, Zenon DEF Dead
  <2> HIDE DEF g
  <2>4. /\ Dead(World).gdb = g
        /\ Dead(World).st = st
        /\ Dead(World).intake = intake
        /\ Dead(World).wanted = wanted
        /\ Dead(World).adrift = adrift
    BY <2>3 DEF World
  <2>5. Become(Dead(World))
    BY <2>2, <2>4 DEF Become
  <2> QED
    BY <1>0, <2>2, <2>5 DEF EventIs
<1>7. CASE LibraryLoads
  BY <1>0, <1>7 DEF LibraryLoads, EventIs
<1> QED
  BY <1>1, <1>2, <1>3, <1>4, <1>5, <1>6, <1>7

\* Every action of Next is a step from the world to another.
LEMMA NextIs ==
    ASSUME World \in AllWorlds, setting.numbers \in Nat, Next
    PROVE  \E v : StepIs(World, v) /\ Become(v)
BY RequestsAre, OthersAre, EventsAre DEF Next, StepIs

\* Become makes it the next world.
LEMMA BecomeIs ==
    ASSUME NEW v \in AllWorlds, Become(v)
    PROVE  World' = v /\ setting' = setting
BY DEF Become, World, AllWorlds

IBase == Base(setting, World)

\* It holds at first,
LEMMA InitBase == Init => IBase
<1> SUFFICES ASSUME Init
             PROVE  Base(setting, World)
  BY DEF IBase
<1> DEFINE e == <<>>
           t == NoBreakpoints
<1>s. setting.numbers \in Nat /\ setting.late \in Nat
  BY SettingsAssumption DEF Init
<1>t. t \in Tables /\ DOMAIN t = {}
  BY TableEmpty
<1>e. e \in Seq(Records) /\ e \in Seq(Commands) /\ Len(e) = 0
  OBVIOUS
<1>1. /\ st = [runState |-> "none", exe |-> FALSE, deferred |-> "none",
               mirror |-> t, ours |-> {}, issued |-> 0, missed |-> {}]
      /\ gdb = [up |-> TRUE, process |-> "none", loaded |-> FALSE, library |-> FALSE, entry |-> FALSE,
                table |-> t, next |-> 1, late |-> e, stops |-> 0,
                resumes |-> 0, began |-> 0, deaths |-> 0, overtaken |-> FALSE,
                inherited |-> {}]
      /\ intake = e /\ wanted = {} /\ adrift = {}
  BY DEF Init, NewGdb
<1>e2. e = <<>>
  OBVIOUS
<1> HIDE DEF e, t
<1>2. /\ World \in AllWorlds
      /\ World.gdb.table = t /\ World.gdb.next = 1 /\ World.gdb.late = e
      /\ World.gdb.inherited = {}
      /\ World.st.mirror = t /\ World.st.ours = {} /\ World.intake = e /\ World.adrift = {}
  BY <1>1, <1>t, <1>e DEF World, AllWorlds, Mirrors, Gdbs
<1> DEFINE w == World
<1> HIDE DEF w
<1>3. /\ w \in AllWorlds
      /\ DOMAIN w.gdb.table = {} /\ w.gdb.next = 1 /\ w.gdb.late = e
      /\ w.gdb.inherited = {}
      /\ DOMAIN w.st.mirror = {} /\ w.st.ours = {} /\ w.intake = e /\ w.adrift = {}
  BY <1>2, <1>t DEF w
<1>4. /\ \A i : i \notin 1 .. Len(w.intake)
      /\ \A i : i \notin 1 .. Len(w.gdb.late)
      /\ DOMAIN w.intake = {}
  BY <1>3, <1>e, <1>e2
<1>5. Shape(setting, w)
  <2>1. w.gdb.next \in 1 .. setting.numbers + 1
    BY <1>3, <1>s
  <2>2. Sized(setting, w)
    BY <1>s, <1>3, <2>1 DEF Sized
  <2>3. Goods(setting, w) /\ Lates(setting, w)
    BY <1>3, <1>4, <1>e2 DEF Goods, Lates
  <2> QED
    BY <1>3, <2>2, <2>3 DEF Shape
<1>6. Agree(setting, w) /\ Follows(setting, w)
  BY <1>3, <1>4 DEF Agree, AgreesAt, Follows, FollowsAt, Shows
<1>7. Same(setting, w)
  BY <1>3, <1>4 DEF Same, Doomed
<1>8. NamesShown(setting, w)
  BY <1>3 DEF NamesShown
<1> QED
  BY <1>5, <1>6, <1>7, <1>8 DEF Base, w

\* and is kept by every step.
LEMMA NextBase == IBase /\ [Next]_vars => IBase'
<1> SUFFICES ASSUME Base(setting, World), [Next]_vars
             PROVE  Base(setting', World')
  BY DEF IBase
<1>1. CASE Next
  <2>1. World \in AllWorlds /\ setting.numbers \in Nat
    BY DEF Base, Shape, Sized
  <2>2. PICK v : StepIs(World, v) /\ Become(v)
    BY <1>1, <2>1, NextIs
  <2>3. Base(setting, v)
    BY <2>2, StepBase
  <2>4. v \in AllWorlds
    BY <2>3 DEF Base, Shape
  <2>5. World' = v /\ setting' = setting
    BY <2>2, <2>4, BecomeIs
  <2> QED
    BY <2>3, <2>5
<1>2. CASE UNCHANGED vars
  <2>1. World' = World /\ setting' = setting
    BY <1>2 DEF vars, World
  <2> QED
    BY <2>1
<1> QED
  BY <1>1, <1>2

\* The mirror agrees with gdb, whatever is still to be handled: between the
\* records queued and the mirror there is the last word on every number that is
\* not adrift.
THEOREM BaseHolds == Spec => []IBase
BY InitBase, NextBase, PTL DEF Spec

\* It implies the property: a number with no record queued and not adrift is
\* shown as gdb has it.
LEMMA BaseAgrees == IBase => MirrorAgrees
<1> SUFFICES ASSUME Base(setting, World), gdb.up, intake = <<>>, gdb.late = <<>>,
                    NEW n \in Numbers \ adrift
             PROVE  /\ n \in DOMAIN st.mirror <=>
                          n \in DOMAIN gdb.table /\ ~Hidden(World, n, gdb.table[n])
                    /\ n \in DOMAIN st.mirror => st.mirror[n] = gdb.table[n]
                    /\ n \in DOMAIN st.mirror => st.mirror[n].by # "gdb"
  BY DEF IBase, MirrorAgrees
<1> DEFINE w == World
<1>0. /\ w.st = st /\ w.gdb = gdb /\ w.intake = intake /\ w.adrift = adrift
  BY DEF World
<1>h. Hidden(w, n, gdb.table[n]) <=> gdb.table[n].temporary /\ n \notin st.ours
  BY <1>0 DEF Hidden
<1>1. Base(setting, w)
  OBVIOUS
<1> HIDE DEF w
<1>2. AgreesAt(w, n)
  BY <1>0, <1>1 DEF Base, Agree, Numbers
<1>3. ~Queued(w, n)
  BY <1>0 DEF Queued
<1>4. Shows(w, n)
  BY <1>2, <1>3 DEF AgreesAt
<1>5. n \in DOMAIN st.mirror => st.mirror[n].by # "gdb"
  <2> SUFFICES ASSUME n \in DOMAIN st.mirror, st.mirror[n].by = "gdb"
               PROVE  FALSE
    OBVIOUS
  <2>1. /\ n \in DOMAIN gdb.table /\ ~Hidden(w, n, gdb.table[n])
        /\ st.mirror[n] = gdb.table[n]
    BY <1>0, <1>4 DEF Shows
  <2>2. Good(gdb.table[n]) /\ (n \in st.ours => gdb.table[n].by # "gdb")
    BY <1>0, <1>1, <2>1 DEF Base, Shape, Goods
  <2> QED
    BY <1>h, <2>1, <2>2 DEF Good
<1> QED
  BY <1>0, <1>4, <1>5 DEF Shows, w

\* The breakpoint table browsers are shown is gdb's, but for the numbers with a
\* record still to be handled and those adrift (commands.go, events.go).
THEOREM MirrorAgreesHolds == Spec => []MirrorAgrees
BY BaseHolds, BaseAgrees, PTL

=============================================================================
