-------------------------- MODULE BreakpointsProofs --------------------------
(***************************************************************************)
(* Theorems about what becomes of breakpoints: what users asked for is kept*)
(* through placements, refusals, late commands and a new gdb; and when gdb *)
(* answers in time, a run-to leaves nothing behind and names are placed.   *)
(*                                                                         *)
(* Both rest on the mirror being right (MirrorProofs): a placement drops   *)
(* what the mirror says is a name.                                         *)
(***************************************************************************)
EXTENDS MirrorProofs

-----------------------------------------------------------------------------
(* What users asked for is kept.                                           *)

\* Late commands and typed ones may leave a breakpoint enabled or not against
\* its user's wish.
Careless(s) == s.late # 0 \/ "typed" \in s.kinds

\* n serves the wish u, and the server is not about to delete it.
Serves(s, w, n, u) ==
    /\ n \notin Doomed(w)
    /\ w.gdb.table[n].tag = u.tag
    /\ w.gdb.table[n].enabled = u.enabled \/ Careless(s)

\* Every wish is served, by a breakpoint not in S, but those with a tag in T.
KeptBut(s, w, S, T) ==
    \A u \in w.wanted :
        /\ u.tag # 0
        /\ Tame(s, w) =>
              u.tag \in T \/ \E n \in DOMAIN w.gdb.table : n \notin S /\ Serves(s, w, n, u)

\* What serves a wish that is still had is left, but in S.
Steady(s, w, v, S) ==
    /\ v.gdb.inherited = w.gdb.inherited
    /\ \A u \in v.wanted : u \in w.wanted
    /\ \A n \in Doomed(v) : n \in Doomed(w) \/ n \in S
    /\ \A n \in DOMAIN w.gdb.table :
          /\ n \notin S
          /\ w.gdb.table[n].tag # 0
          /\ \E u \in v.wanted : u.tag = w.gdb.table[n].tag
          => /\ n \in DOMAIN v.gdb.table
             /\ v.gdb.table[n].tag = w.gdb.table[n].tag
             /\ v.gdb.table[n].enabled = w.gdb.table[n].enabled \/ Careless(s)

\* A step that disturbs no breakpoint that serves a wish keeps the wishes
\* served.
LEMMA SteadyKept ==
    ASSUME NEW s, NEW w, NEW v, NEW S, NEW T, KeptBut(s, w, S, T), Steady(s, w, v, S)
    PROVE  KeptBut(s, v, S, T)
<1> SUFFICES ASSUME NEW u \in v.wanted
             PROVE  /\ u.tag # 0
                    /\ Tame(s, v) => u.tag \in T \/ \E n \in DOMAIN v.gdb.table :
                                                       n \notin S /\ Serves(s, v, n, u)
  BY DEF KeptBut
<1>1. (Tame(s, v) => Tame(s, w)) /\ u \in w.wanted
  BY DEF Tame, Steady
<1>2. /\ u.tag # 0
      /\ Tame(s, w) =>
            u.tag \in T \/ \E n \in DOMAIN w.gdb.table : n \notin S /\ Serves(s, w, n, u)
  BY <1>1 DEF KeptBut
<1>3. ASSUME NEW n \in DOMAIN w.gdb.table, n \notin S, Serves(s, w, n, u)
      PROVE  n \in DOMAIN v.gdb.table /\ Serves(s, v, n, u)
  <2>1. /\ n \in DOMAIN v.gdb.table
        /\ v.gdb.table[n].tag = w.gdb.table[n].tag
        /\ v.gdb.table[n].enabled = w.gdb.table[n].enabled \/ Careless(s)
    BY <1>2, <1>3 DEF Serves, Steady
  <2>2. n \notin Doomed(v)
    BY <1>3 DEF Serves, Steady
  <2> QED
    BY <1>3, <2>1, <2>2 DEF Serves
<1> QED
  BY <1>1, <1>2, <1>3

\* Served by fewer is served.
LEMMA KeptLess ==
    ASSUME NEW s, NEW w, NEW S, NEW R, NEW T, KeptBut(s, w, S, T), R \subseteq S
    PROVE  KeptBut(s, w, R, T)
BY DEF KeptBut

\* A number gdb has not given serves nothing.
LEMMA KeptMore ==
    ASSUME NEW s, NEW w, NEW S, NEW T, NEW k, KeptBut(s, w, S, T), k \notin DOMAIN w.gdb.table
    PROVE  KeptBut(s, w, S \cup {k}, T)
BY DEF KeptBut

\* Only the table, what is to be deleted and the wishes matter.
LEMMA KeptAlike ==
    ASSUME NEW s, NEW w, NEW v, NEW S, NEW T, KeptBut(s, w, S, T),
           v.gdb.table = w.gdb.table, v.gdb.late = w.gdb.late,
           v.gdb.inherited = w.gdb.inherited, v.wanted = w.wanted
    PROVE  KeptBut(s, v, S, T)
<1>1. Steady(s, w, v, S)
  BY DEF Steady, Doomed
<1> QED
  BY <1>1, SteadyKept

\* A breakpoint made, for a wish or not.
LEMMA PutKept ==
    ASSUME NEW s, NEW w, NEW v, NEW S, NEW T, NEW k, NEW bp, NEW wish,
           KeptBut(s, w, S, T), Put(v.gdb.table, w.gdb.table, k, bp),
           k \notin DOMAIN w.gdb.table, v.gdb.late = w.gdb.late,
           v.gdb.inherited = w.gdb.inherited, v.wanted = Wished(w, bp.tag, wish),
           wish => /\ k \notin S
                   /\ Tame(s, w) => k \notin Doomed(w)
                   /\ bp.enabled = TRUE \/ Careless(s)
    PROVE  KeptBut(s, v, S, T)
<1> SUFFICES ASSUME NEW u \in v.wanted
             PROVE  /\ u.tag # 0
                    /\ Tame(s, v) => u.tag \in T \/ \E n \in DOMAIN v.gdb.table :
                                                       n \notin S /\ Serves(s, v, n, u)
  BY DEF KeptBut
<1>1. (Tame(s, v) => Tame(s, w)) /\ Doomed(v) = Doomed(w)
  BY DEF Tame, Doomed
<1>2. CASE u \in w.wanted
  <2>1. /\ u.tag # 0
        /\ Tame(s, w) =>
              u.tag \in T \/ \E n \in DOMAIN w.gdb.table : n \notin S /\ Serves(s, w, n, u)
    BY <1>2 DEF KeptBut
  <2>2. \A n \in DOMAIN w.gdb.table : n \in DOMAIN v.gdb.table /\ v.gdb.table[n] = w.gdb.table[n]
    BY DEF Put
  <2> QED
    BY <1>1, <2>1, <2>2 DEF Serves
<1>3. CASE u \notin w.wanted
  <2>1. u = [tag |-> bp.tag, enabled |-> TRUE] /\ bp.tag # 0 /\ wish
    BY <1>3 DEF Wished
  <2>2. k \in DOMAIN v.gdb.table /\ v.gdb.table[k] = bp
    BY DEF Put
  <2>3. u.tag = bp.tag /\ u.enabled = TRUE
    BY <2>1
  <2> QED
    BY <1>1, <2>1, <2>2, <2>3 DEF Serves
<1> QED
  BY <1>2, <1>3

\* A breakpoint deleted, by a user or because nothing needs it.
LEMMA CutKept ==
    ASSUME NEW s, NEW w, NEW v, NEW S, NEW T, NEW n, NEW wish,
           KeptBut(s, w, S, T), Cut(v.gdb.table, w.gdb.table, n),
           v.gdb.late = w.gdb.late, v.gdb.inherited = w.gdb.inherited,
           v.wanted = {u \in w.wanted : wish => u.tag # w.gdb.table[n].tag},
           wish \/ n \in S
    PROVE  KeptBut(s, v, S, T)
<1>1. Steady(s, w, v, S)
  BY DEF Steady, Doomed, Cut
<1> QED
  BY <1>1, SteadyKept

\* A breakpoint enabled or disabled, by a user or because nothing needs it.
LEMMA TurnKept ==
    ASSUME NEW s, NEW w, NEW v, NEW S, NEW T, NEW n, NEW bp,
           KeptBut(s, w, S, T), Put(v.gdb.table, w.gdb.table, n, bp),
           n \in DOMAIN w.gdb.table, bp.tag = w.gdb.table[n].tag,
           v.gdb.late = w.gdb.late, v.gdb.inherited = w.gdb.inherited,
           v.wanted = w.wanted, n \in S \/ Careless(s)
    PROVE  KeptBut(s, v, S, T)
<1>1. Steady(s, w, v, S)
  BY DEF Steady, Doomed, Put
<1> QED
  BY <1>1, SteadyKept

\* Enabling a breakpoint and its wish together keeps them in step.
LEMMA SwitchKept ==
    ASSUME NEW s, NEW w \in AllWorlds, NEW v, NEW T, NEW n, NEW bp, NEW on,
           KeptBut(s, w, {}, T), Put(v.gdb.table, w.gdb.table, n, bp),
           n \in DOMAIN w.gdb.table, bp.tag = w.gdb.table[n].tag, bp.enabled = on,
           v.gdb.late = w.gdb.late, v.gdb.inherited = w.gdb.inherited,
           v.wanted = Switched(w, bp.tag, on, TRUE),
           s.late = 0 => w.gdb.late = <<>>
    PROVE  KeptBut(s, v, {}, T)
<1> SUFFICES ASSUME NEW u \in v.wanted
             PROVE  /\ u.tag # 0
                    /\ Tame(s, v) =>
                          u.tag \in T \/ \E m \in DOMAIN v.gdb.table : Serves(s, v, m, u)
  BY DEF KeptBut
<1>1. (Tame(s, v) => Tame(s, w)) /\ Doomed(v) = Doomed(w)
  BY DEF Tame, Doomed
<1>2. PICK o \in w.wanted : u = IF o.tag = bp.tag THEN [o EXCEPT !.enabled = on] ELSE o
  BY DEF Switched
<1>3. /\ o.tag # 0
      /\ Tame(s, w) => o.tag \in T \/ \E m \in DOMAIN w.gdb.table : Serves(s, w, m, o)
  BY <1>1, <1>2 DEF KeptBut
<1>4. /\ u.tag = o.tag
      /\ o.tag = bp.tag => u.enabled = on
      /\ o.tag # bp.tag => u = o
  BY <1>2 DEF AllWorlds, Wishes
<1>5. CASE o.tag \in T
  BY <1>3, <1>4, <1>5
<1>6. ASSUME NEW m \in DOMAIN w.gdb.table, Serves(s, w, m, o)
      PROVE  \E x \in DOMAIN v.gdb.table : Serves(s, v, x, u)
  <2>1. m \in DOMAIN v.gdb.table /\ v.gdb.table[m].tag = w.gdb.table[m].tag
    BY DEF Put
  <2>2. CASE Careless(s)
    BY <1>1, <1>4, <1>6, <2>1, <2>2 DEF Serves
  <2>3. CASE ~Careless(s) /\ o.tag = bp.tag
    <3>1. Doomed(w) = {}
      BY <2>3 DEF Careless, Doomed
    <3>2. n \in DOMAIN v.gdb.table /\ v.gdb.table[n] = bp
      BY DEF Put
    <3>3. Serves(s, v, n, u)
      BY <1>1, <1>4, <2>3, <3>1, <3>2 DEF Serves
    <3> QED
      BY <3>2, <3>3
  <2>4. CASE ~Careless(s) /\ o.tag # bp.tag
    <3>1. m # n
      BY <1>6, <2>4 DEF Serves
    <3>2. v.gdb.table[m] = w.gdb.table[m]
      BY <3>1 DEF Put
    <3>3. u = o
      BY <1>4, <2>4
    <3> QED
      BY <1>1, <1>6, <2>1, <3>2, <3>3 DEF Serves
  <2> QED
    BY <2>2, <2>3, <2>4
<1> QED
  BY <1>1, <1>3, <1>4, <1>5, <1>6

\* What a start comes to.
Runs(w, verb, v) ==
    /\ v \in AllWorlds
    /\ v.st = w.st
    /\ v.wanted = w.wanted
    /\ v.gdb.up = w.gdb.up
    /\ v.gdb.late = w.gdb.late
    /\ v.gdb.inherited = w.gdb.inherited
    /\ v.gdb.process = "running"
    /\ v.gdb.entry = (verb = "starti")
    /\ v.gdb.resumes = w.gdb.resumes + 1
    /\ v.gdb.began = w.gdb.resumes
    /\ v.gdb.overtaken = Overtaken(w)

RunsPlainly(w, v) ==
    /\ v.gdb.table = w.gdb.table
    /\ v.gdb.next = w.gdb.next
    /\ v.intake = Append(Ended(w).intake, Record("running", 0, NoBreakpoint))

RunsToMain(w, v) ==
    \E bp \in Bps :
        /\ OnMainBp(bp)
        /\ v.gdb.table = With(w.gdb.table, w.gdb.next, bp)
        /\ v.gdb.next = w.gdb.next + 1
        /\ v.intake = Append(Append(Ended(w).intake, Record("created", w.gdb.next, bp)),
                             Record("running", 0, NoBreakpoint))

\* A run, with or without gdb's breakpoint on main.
LEMMA StartIs ==
    ASSUME NEW w \in AllWorlds, NEW verb
    PROVE  /\ Runs(w, verb, Start(w, verb))
           /\ verb # "runMain" => RunsPlainly(w, Start(w, verb))
           /\ verb = "runMain" => RunsToMain(w, Start(w, verb))
<1> DEFINE b == Begun(w, verb)
           c == OnMain(w)
           i == Insert(b, c, FALSE)
           p == IF verb = "runMain" THEN i ELSE b
           v == Start(w, verb)
           bp == Made(b, c)
<1>1. /\ b \in AllWorlds
      /\ b.st = w.st
      /\ b.wanted = w.wanted
      /\ b.intake = Ended(w).intake
      /\ SameRest(b.gdb, w.gdb)
      /\ b.gdb.table = w.gdb.table
      /\ b.gdb.process = "running"
      /\ b.gdb.entry = (verb = "starti")
      /\ b.gdb.resumes = w.gdb.resumes + 1
      /\ b.gdb.began = w.gdb.resumes
      /\ b.gdb.overtaken = Overtaken(w)
  BY BegunIs
<1>2. c \in Commands /\ c.typed /\ ~c.wish /\ c.bp.tag = 0 /\ c.bp.place = "main"
      /\ c.bp.by = "gdb" /\ c.bp.temporary
  <2>1. c \in Commands /\ c.typed /\ ~c.wish /\ c.bp.tag = 0 /\ c.bp.place = "main"
        /\ c.bp.by = "gdb"
    BY OnMainApart DEF Apart, Legit
  <2>2. c.bp.temporary
    BY DEF OnMain, Command, Breakpoint
  <2> QED
    BY <2>1, <2>2
<1>3. v = Says(p, "running")
  BY Zenon DEF Start, Begun, OnMain, Ended, Overtaken
<1>4. b.gdb.next = w.gdb.next
  BY <1>1 DEF SameRest
<1> HIDE DEF b, c, v
<1>5. bp \in Bps /\ OnMainBp(bp)
  <2>1. bp \in Bps /\ Alike(bp, c.bp)
    BY <1>1, <1>2, MadeIs
  <2> QED
    BY <1>2, <2>1 DEF Alike, OnMainBp
<1>6. /\ i \in AllWorlds
      /\ i.st = b.st
      /\ i.gdb.table = With(b.gdb.table, b.gdb.next, bp)
      /\ i.gdb.next = b.gdb.next + 1
      /\ SameStatus(i.gdb, b.gdb)
      /\ i.wanted = Wished(b, bp.tag, c.wish)
      /\ i.intake = Append(b.intake, Record("created", b.gdb.next, bp))
  BY <1>1, <1>2, InsertIs
<1> HIDE DEF i, bp
<1>7. i.wanted = b.wanted
  BY <1>2, <1>6 DEF Wished
<1>8. /\ p \in AllWorlds
      /\ p.st = w.st
      /\ p.wanted = w.wanted
      /\ SameStatus(p.gdb, b.gdb)
  BY <1>1, <1>6, <1>7 DEF SameStatus
<1>9. p = IF verb = "runMain" THEN i ELSE b
  OBVIOUS
<1> HIDE DEF p
<1>10. /\ v \in AllWorlds
       /\ v.st = p.st
       /\ v.gdb = p.gdb
       /\ v.intake = Append(p.intake, Record("running", 0, NoBreakpoint))
       /\ v.wanted = p.wanted
  BY <1>3, <1>8, SaysIs DEF Kinds
<1>11. Runs(w, verb, v)
  BY <1>1, <1>8, <1>10 DEF Runs, SameStatus, SameRest
<1>12. verb # "runMain" => RunsPlainly(w, v)
  BY <1>1, <1>4, <1>9, <1>10 DEF RunsPlainly
<1>13. verb = "runMain" => RunsToMain(w, v)
  BY <1>1, <1>4, <1>5, <1>6, <1>9, <1>10 DEF RunsToMain
<1> QED
  BY <1>11, <1>12, <1>13 DEF v

\* What a command needs to keep the wishes.
Keeping(s, w, cmd, S) ==
    /\ cmd.verb \in {"insert", "insertNow"} /\ cmd.wish =>
          w.gdb.next \notin S /\ (cmd.bp.enabled = TRUE \/ Careless(s))
    /\ cmd.verb = "delete" => cmd.wish \/ cmd.n \in S
    /\ cmd.verb = "enable" /\ cmd.wish => S = {}
    /\ cmd.verb = "enable" /\ ~cmd.wish => cmd.n \in S \/ Careless(s)

\* The next number is no breakpoint's, and no delete waits for it.
LEMMA NextFree ==
    ASSUME NEW s, NEW w, Base(s, w)
    PROVE  /\ w.gdb.next \notin DOMAIN w.gdb.table
           /\ w.gdb.next \in Nat
           /\ Tame(s, w) => w.gdb.next \notin Doomed(w)
<1>1. w.gdb.next \in Nat
  BY DEF Base, Shape, AllWorlds, Gdbs
<1>2. \A n \in DOMAIN w.gdb.table : n \in 1 .. w.gdb.next - 1
  BY DEF Base, Shape, Sized
<1>3. Tame(s, w) => \A n \in Doomed(w) : n < w.gdb.next
  BY DEF Base, Same
<1>4. w.gdb.next \notin 1 .. w.gdb.next - 1 /\ ~(w.gdb.next < w.gdb.next)
  BY <1>1
<1> QED
  BY <1>1, <1>2, <1>3, <1>4

\* An insert serves its wish and leaves the others.
LEMMA InsertKept ==
    ASSUME NEW s, NEW w, NEW cmd \in Commands, NEW unheard \in BOOLEAN, NEW S, NEW T,
           Base(s, w), KeptBut(s, w, S, T), Keeping(s, w, cmd, S),
           cmd.verb \in {"insert", "insertNow"}
    PROVE  KeptBut(s, Insert(w, cmd, unheard), S, T)
<1> DEFINE v == Insert(w, cmd, unheard)
           k == w.gdb.next
           bp == Made(w, cmd)
<1>0. w \in AllWorlds /\ w.gdb.table \in Tables
  BY DEF Base, Shape, AllWorlds, Gdbs
<1>1. /\ v.gdb.table = With(w.gdb.table, k, bp)
      /\ SameStatus(v.gdb, w.gdb)
      /\ v.wanted = Wished(w, bp.tag, cmd.wish)
  BY <1>0, InsertIs
<1>2. bp \in Bps /\ bp.enabled = cmd.bp.enabled
  BY <1>0, MadeIs
<1>3. k \notin DOMAIN w.gdb.table /\ k \in Nat /\ (Tame(s, w) => k \notin Doomed(w))
  BY NextFree
<1> HIDE DEF v, bp, k
<1>4. Put(v.gdb.table, w.gdb.table, k, bp)
  BY <1>0, <1>1, <1>2, <1>3, PutTable
<1>5. cmd.wish => k \notin S /\ (bp.enabled = TRUE \/ Careless(s))
  BY <1>2 DEF Keeping, k
<1>6. v.gdb.late = w.gdb.late /\ v.gdb.inherited = w.gdb.inherited
  BY <1>1 DEF SameStatus
<1> QED
  BY <1>1, <1>3, <1>4, <1>5, <1>6, PutKept DEF v

\* A delete takes its wish with it, or is of a breakpoint that serves none.
LEMMA DeleteKept ==
    ASSUME NEW s, NEW w, NEW cmd \in Commands, NEW unheard \in BOOLEAN, NEW S, NEW T,
           Base(s, w), KeptBut(s, w, S, T), Keeping(s, w, cmd, S),
           cmd.verb = "delete", cmd.n \in DOMAIN w.gdb.table
    PROVE  KeptBut(s, Delete(w, cmd, unheard), S, T)
<1> DEFINE v == Delete(w, cmd, unheard)
           n == cmd.n
<1>0. w \in AllWorlds /\ w.gdb.table \in Tables /\ n \in Nat
  BY DEF Base, Shape, AllWorlds, Gdbs, Commands
<1>1. /\ v.gdb.table = Without(w.gdb.table, n)
      /\ SameStatus(v.gdb, w.gdb)
      /\ v.wanted = {u \in w.wanted : cmd.wish => u.tag # w.gdb.table[n].tag}
  BY <1>0, DeleteIs
<1> HIDE DEF v
<1>2. Cut(v.gdb.table, w.gdb.table, n)
  BY <1>0, <1>1, CutTable
<1>3. v.gdb.late = w.gdb.late /\ v.gdb.inherited = w.gdb.inherited
  BY <1>1 DEF SameStatus
<1>4. cmd.wish \/ n \in S
  BY DEF Keeping
<1> DEFINE wish == cmd.wish
<1>5. /\ v.wanted = {u \in w.wanted : wish => u.tag # w.gdb.table[n].tag}
      /\ wish \/ n \in S
  BY <1>1, <1>4
<1> HIDE DEF wish, n
<1>6. KeptBut(s, v, S, T)
  BY <1>2, <1>3, <1>5, CutKept
<1> QED
  BY <1>6 DEF v

\* So does an enable, unless what serves a wish may be switched against it.
LEMMA EnableKept ==
    ASSUME NEW s, NEW w, NEW cmd \in Commands, NEW unheard \in BOOLEAN, NEW S, NEW T,
           Base(s, w), KeptBut(s, w, S, T), Keeping(s, w, cmd, S),
           cmd.verb = "enable", cmd.n \in DOMAIN w.gdb.table
    PROVE  KeptBut(s, Enable(w, cmd, unheard), S, T)
<1> DEFINE v == Enable(w, cmd, unheard)
           n == cmd.n
           on == cmd.bp.enabled
           bp == Turned(w.gdb.table[n], on)
<1>0. w \in AllWorlds /\ w.gdb.table \in Tables /\ n \in Nat /\ on \in BOOLEAN
      /\ (s.late = 0 => w.gdb.late = <<>>)
  BY DEF Base, Shape, AllWorlds, Gdbs, Commands, Bps, Lates
<1>1. /\ v.gdb.table = With(w.gdb.table, n, bp)
      /\ SameStatus(v.gdb, w.gdb)
      /\ v.wanted = Switched(w, bp.tag, on, cmd.wish)
  BY <1>0, EnableIs
<1>2. w.gdb.table[n] \in Bps
  BY <1>0, TableBp
<1>3. bp \in Bps /\ bp.enabled = on /\ bp.tag = w.gdb.table[n].tag
  BY <1>0, <1>2, TurnedIs DEF Alike
<1> HIDE DEF v, bp, n, on
<1>4. Put(v.gdb.table, w.gdb.table, n, bp)
  BY <1>0, <1>1, <1>3, PutTable
<1>5. v.gdb.late = w.gdb.late /\ v.gdb.inherited = w.gdb.inherited /\ n \in DOMAIN w.gdb.table
  BY <1>1 DEF SameStatus, n
<1>6. CASE cmd.wish
  <2>1. v.wanted = Switched(w, bp.tag, on, TRUE)
    BY <1>1, <1>6 DEF Switched
  <2>2. S = {}
    BY <1>6 DEF Keeping
  <2>3. KeptBut(s, w, {}, T)
    BY <2>2
  <2>4. KeptBut(s, v, {}, T)
    BY <1>0, <1>3, <1>4, <1>5, <2>1, <2>3, SwitchKept
  <2> QED
    BY <2>2, <2>4 DEF v
<1>7. CASE ~cmd.wish
  <2>1. v.wanted = w.wanted
    BY <1>1, <1>7 DEF Switched
  <2>2. n \in S \/ Careless(s)
    BY <1>7 DEF Keeping, n
  <2>3. KeptBut(s, v, S, T)
    BY <1>3, <1>4, <1>5, <2>1, <2>2, TurnKept
  <2> QED
    BY <2>3 DEF v
<1> QED
  BY <1>6, <1>7

\* A run leaves wishes served,
LEMMA StartKept ==
    ASSUME NEW s, NEW w, NEW verb, NEW S, NEW T, Base(s, w), KeptBut(s, w, S, T)
    PROVE  KeptBut(s, Start(w, verb), S, T)
<1> DEFINE v == Start(w, verb)
<1>0. w \in AllWorlds /\ w.gdb.table \in Tables
  BY DEF Base, Shape, AllWorlds, Gdbs
<1>1. Runs(w, verb, v) /\ (verb # "runMain" => RunsPlainly(w, v))
      /\ (verb = "runMain" => RunsToMain(w, v))
  BY <1>0, StartIs
<1> HIDE DEF v
<1>2. v.gdb.late = w.gdb.late /\ v.gdb.inherited = w.gdb.inherited /\ v.wanted = w.wanted
  BY <1>1 DEF Runs
<1>3. CASE RunsPlainly(w, v)
  <2>1. v.gdb.table = w.gdb.table
    BY <1>3 DEF RunsPlainly
  <2> QED
    BY <1>2, <2>1, KeptAlike DEF v
<1>4. CASE RunsToMain(w, v)
  <2>1. PICK bp \in Bps : v.gdb.table = With(w.gdb.table, w.gdb.next, bp)
    BY <1>4 DEF RunsToMain
  <2>2. w.gdb.next \notin DOMAIN w.gdb.table /\ w.gdb.next \in Nat
    BY NextFree
  <2>3. Put(v.gdb.table, w.gdb.table, w.gdb.next, bp)
    BY <1>0, <2>1, <2>2, PutTable
  <2>4. Steady(s, w, v, S)
    BY <1>2, <2>2, <2>3 DEF Steady, Doomed, Put
  <2> QED
    BY <2>4, SteadyKept DEF v
<1> QED
  BY <1>1, <1>3, <1>4

\* and so does the table resolved anew:
LEMMA RereadSteady ==
    ASSUME NEW s, NEW w \in AllWorlds, NEW g \in Gdbs, NEW v, NEW S,
           v.wanted = w.wanted, v.gdb.table = Reread(w, g), SameRest(v.gdb, w.gdb)
    PROVE  Steady(s, w, v, S)
<1>1. /\ DOMAIN Reread(w, g) = DOMAIN w.gdb.table
      /\ \A n \in DOMAIN Reread(w, g) :
            /\ Alike(Reread(w, g)[n], w.gdb.table[n])
            /\ Reread(w, g)[n].enabled = w.gdb.table[n].enabled
  BY RereadIs
<1> QED
  BY <1>1 DEF Steady, Doomed, SameRest, Alike

\* at a load,
LEMMA LoadKept ==
    ASSUME NEW s, NEW w, NEW S, NEW T, Base(s, w), KeptBut(s, w, S, T)
    PROVE  KeptBut(s, Load(w), S, T)
<1> DEFINE v == Load(w)
<1>0. w \in AllWorlds /\ Shape(s, w)
  BY DEF Base, Shape
<1>1. /\ v.wanted = w.wanted
      /\ v.gdb.table = Reread(w, WithProgram(w.gdb))
      /\ SameRest(v.gdb, w.gdb)
  BY <1>0, LoadIs
<1>2. WithProgram(w.gdb) \in Gdbs
  BY <1>0 DEF WithProgram, AllWorlds, Gdbs
<1> HIDE DEF v
<1>3. Steady(s, w, v, S)
  BY <1>0, <1>1, <1>2, RereadSteady
<1> QED
  BY <1>3, SteadyKept DEF v

\* a library,
LEMMA LibraryKept ==
    ASSUME NEW s, NEW w, NEW S, NEW T, Base(s, w), KeptBut(s, w, S, T)
    PROVE  KeptBut(s, LoadLibrary(w), S, T)
<1> DEFINE v == LoadLibrary(w)
<1>0. w \in AllWorlds /\ Shape(s, w)
  BY DEF Base, Shape
<1>1. /\ v.wanted = w.wanted
      /\ v.gdb.table = Reread(w, WithLibrary(w.gdb))
      /\ SameRest(v.gdb, w.gdb)
  BY <1>0, LibraryIs
<1>2. WithLibrary(w.gdb) \in Gdbs
  BY <1>0 DEF WithLibrary, AllWorlds, Gdbs
<1> HIDE DEF v
<1>3. Steady(s, w, v, S)
  BY <1>0, <1>1, <1>2, RereadSteady
<1> QED
  BY <1>3, SteadyKept DEF v

\* whatever gdb executes of what the server sends,
LEMMA ExecuteKept ==
    ASSUME NEW w, NEW cmd, NEW unheard \in BOOLEAN, NEW S, NEW T, Base(setting, w),
           Legit(setting, cmd), KeptBut(setting, w, S, T), Keeping(setting, w, cmd, S)
    PROVE  KeptBut(setting, Execute(w, cmd, unheard), S, T)
<1> DEFINE v == Execute(w, cmd, unheard)
<1>0. cmd \in Commands /\ w \in AllWorlds
  BY DEF Legit, Base, Shape
<1>1. CASE ~Accepts(w, cmd)
  BY <1>1, ExecuteRefused
<1>2. CASE Accepts(w, cmd) /\ cmd.verb \in {"insert", "insertNow"}
  <2>1. v = Insert(w, cmd, unheard)
    BY <1>0, <1>2, ExecuteIs
  <2> QED
    BY <1>0, <1>2, <2>1, InsertKept
<1>3. CASE Accepts(w, cmd) /\ cmd.verb = "delete"
  <2>1. v = Delete(w, cmd, unheard) /\ cmd.n \in DOMAIN w.gdb.table
    BY <1>0, <1>3, ExecuteIs
  <2> QED
    BY <1>0, <1>3, <2>1, DeleteKept
<1>4. CASE Accepts(w, cmd) /\ cmd.verb = "enable"
  <2>1. v = Enable(w, cmd, unheard) /\ cmd.n \in DOMAIN w.gdb.table
    BY <1>0, <1>4, ExecuteIs
  <2> QED
    BY <1>0, <1>4, <2>1, EnableKept
<1>5. CASE Accepts(w, cmd) /\ cmd.verb = "continue"
  <2>1. v = Resumed(w)
    BY <1>0, <1>5, ExecuteIs
  <2>2. /\ v.wanted = w.wanted
        /\ v.gdb = [w.gdb EXCEPT !.process = "running", !.entry = FALSE, !.resumes = @ + 1]
    BY <1>0, <2>1, ResumedIs
  <2>3. v.gdb.table = w.gdb.table /\ v.gdb.late = w.gdb.late
        /\ v.gdb.inherited = w.gdb.inherited
    BY <1>0, <2>2 DEF AllWorlds, Gdbs
  <2> HIDE DEF v
  <2>4. KeptBut(setting, v, S, T)
    BY <2>2, <2>3, KeptAlike
  <2> QED
    BY <2>4 DEF v
<1>6. CASE Accepts(w, cmd) /\ cmd.verb = "load"
  <2>1. v = Load(w)
    BY <1>0, <1>6, ExecuteIs
  <2> QED
    BY <2>1, LoadKept
<1>7. CASE Accepts(w, cmd) /\ cmd.verb = "list"
  BY <1>0, <1>7, ExecuteIs
<1>8. CASE Accepts(w, cmd) /\ cmd.verb \in {"run", "runMain", "starti"}
  <2>1. v = Start(w, cmd.verb)
    BY <1>0, <1>8, ExecuteIs
  <2> QED
    BY <2>1, StartKept
<1>9. \/ cmd.verb \in {"insert", "insertNow"}
      \/ cmd.verb \in {"delete", "enable", "continue", "load", "list"}
      \/ cmd.verb \in {"run", "runMain", "starti"}
  BY <1>0 DEF Commands, Verbs
<1> QED
  BY <1>1, <1>2, <1>3, <1>4, <1>5, <1>6, <1>7, <1>8, <1>9

\* the program's stops and exits,
LEMMA PauseKept ==
    ASSUME NEW s, NEW w \in AllWorlds, NEW S, NEW T, KeptBut(s, w, S, T)
    PROVE  KeptBut(s, Pause(w), S, T) /\ KeptBut(s, Exit(w), S, T)
<1>0. w.gdb \in Gdbs
  BY DEF AllWorlds
<1>1. ASSUME NEW v \in {Pause(w), Exit(w)}
      PROVE  KeptBut(s, v, S, T)
  <2>1. /\ v.wanted = w.wanted
        /\ \/ v.gdb = [w.gdb EXCEPT !.process = "stopped", !.stops = @ + 1]
           \/ v.gdb = [w.gdb EXCEPT !.process = "none", !.stops = @ + 1]
    BY PauseIs, ExitIs
  <2>2. /\ v.gdb.table = w.gdb.table /\ v.gdb.late = w.gdb.late
        /\ v.gdb.inherited = w.gdb.inherited
    BY <1>0, <2>1 DEF Gdbs
  <2> QED
    BY <2>1, <2>2, KeptAlike
<1> QED
  BY <1>1

\* A hit deletes none that a user asked to last.
LEMMA HitKept ==
    ASSUME NEW s, NEW w, NEW n \in DOMAIN w.gdb.table, NEW S, NEW T,
           Base(s, w), KeptBut(s, w, S, T)
    PROVE  KeptBut(s, Hit(w, n), S, T)
<1> DEFINE v == Hit(w, n)
           h == HitStop(w, n)
<1>0. w \in AllWorlds /\ w.gdb \in Gdbs /\ w.gdb.table \in Tables /\ Good(w.gdb.table[n])
  BY DEF Base, Shape, AllWorlds, Gdbs, Goods
<1>1. /\ h \in AllWorlds
      /\ h.wanted = w.wanted
      /\ h.gdb = [w.gdb EXCEPT !.process = "stopped", !.stops = @ + 1]
  BY <1>0, HitStopIs
<1>2. /\ v.wanted = w.wanted
      /\ ~w.gdb.table[n].temporary => v = h
      /\ w.gdb.table[n].temporary => v.gdb = [h.gdb EXCEPT !.table = Without(w.gdb.table, n)]
  BY <1>0, HitIs
<1> HIDE DEF v, h
<1>3. /\ h.gdb.table = w.gdb.table /\ h.gdb.late = w.gdb.late
      /\ h.gdb.inherited = w.gdb.inherited /\ h.gdb \in Gdbs
  BY <1>0, <1>1 DEF Gdbs, AllWorlds
<1>4. CASE ~w.gdb.table[n].temporary
  <2>1. KeptBut(s, h, S, T)
    BY <1>1, <1>3, KeptAlike
  <2> QED
    BY <1>2, <1>4, <2>1 DEF v
<1>5. CASE w.gdb.table[n].temporary
  <2> DEFINE t == Without(w.gdb.table, n)
  <2>1. Cut(t, w.gdb.table, n)
    BY <1>0, TableBp, CutTable
  <2>2. v.gdb = [h.gdb EXCEPT !.table = t]
    BY <1>2, <1>5
  <2> HIDE DEF t
  <2>3. /\ v.gdb.table = t /\ v.gdb.late = w.gdb.late
        /\ v.gdb.inherited = w.gdb.inherited
    BY <1>3, <2>2 DEF Gdbs
  <2>4. w.gdb.table[n].tag = 0
    BY <1>0, <1>5 DEF Good
  <2>5. Steady(s, w, v, S)
    BY <1>2, <2>1, <2>3, <2>4 DEF Steady, Doomed, Cut
  <2> QED
    BY <2>5, SteadyKept DEF v
<1> QED
  BY <1>4, <1>5

\* what the program does during a handler,
LEMMA MeanwhileKept ==
    ASSUME NEW w, NEW v \in Meanwhile(w), NEW S, NEW T, Base(setting, w),
           KeptBut(setting, w, S, T)
    PROVE  KeptBut(setting, v, S, T)
<1>0. w \in AllWorlds
  BY DEF Base, Shape
<1>1. \/ v \in {w, Pause(w), Exit(w)}
      \/ \E n \in Numbers : CanHit(w.gdb, n) /\ v = Hit(w, n)
  BY DEF Meanwhile
<1>2. CASE v \in {w, Pause(w), Exit(w)}
  BY <1>0, <1>2, PauseKept
<1>3. ASSUME NEW n \in Numbers, CanHit(w.gdb, n), v = Hit(w, n)
      PROVE  KeptBut(setting, v, S, T)
  BY <1>3, HitKept DEF CanHit
<1> QED
  BY <1>1, <1>2, <1>3

\* a command that timed out, which dooms no breakpoint that serves,
LEMMA PostponedKept ==
    ASSUME NEW s, NEW w \in AllWorlds, NEW cmd \in Commands, NEW S, NEW T,
           KeptBut(s, w, S, T), Keeping(s, w, cmd, S)
    PROVE  KeptBut(s, Postponed(w, cmd), S, T)
<1> DEFINE v == Postponed(w, cmd)
           q == w.gdb.late
<1>0. w.gdb \in Gdbs /\ q \in Seq(Commands)
  BY DEF AllWorlds, Gdbs
<1>1. v.wanted = w.wanted /\ v.gdb = [w.gdb EXCEPT !.late = Append(q, cmd)]
  BY PostponedIs
<1> HIDE DEF v, q
<1>2. /\ v.gdb.table = w.gdb.table
      /\ v.gdb.inherited = w.gdb.inherited
      /\ v.gdb.late = Append(q, cmd)
  BY <1>0, <1>1 DEF Gdbs
<1>3. \A i \in 1 .. Len(Append(q, cmd)) :
         (i \in 1 .. Len(q) /\ Append(q, cmd)[i] = q[i]) \/ Append(q, cmd)[i] = cmd
  BY <1>0
<1>4. \A n \in Doomed(v) : n \in Doomed(w) \/ n \in S
  <2> SUFFICES ASSUME NEW n \in Doomed(v), n \notin S
               PROVE  n \in Doomed(w)
    OBVIOUS
  <2>1. PICK i \in 1 .. Len(Append(q, cmd)) :
           /\ Append(q, cmd)[i].verb = "delete"
           /\ ~Append(q, cmd)[i].wish
           /\ Append(q, cmd)[i].n = n
    BY <1>2 DEF Doomed
  <2>2. Append(q, cmd)[i] # cmd
    BY <2>1 DEF Keeping
  <2>3. i \in 1 .. Len(q) /\ Append(q, cmd)[i] = q[i]
    BY <1>3, <2>2
  <2>4. n \in Nat
    BY DEF Doomed
  <2> QED
    BY <2>1, <2>3, <2>4 DEF Doomed, q
<1>5. Steady(s, w, v, S)
  BY <1>1, <1>2, <1>4 DEF Steady
<1> QED
  BY <1>5, SteadyKept DEF v

\* and so what a command that failed leaves.
LEMMA LeftKept ==
    ASSUME NEW w, NEW cmd, NEW v, NEW S, NEW T, Base(setting, w), Fit(setting, w, cmd),
           Left(w, cmd, v), KeptBut(setting, w, S, T), Keeping(setting, w, cmd, S)
    PROVE  KeptBut(setting, v, S, T)
<1>0. Legit(setting, cmd) /\ w \in AllWorlds /\ cmd \in Commands
  BY DEF Base, Shape, Fit, Legit
<1>2. CASE v = Postponed(w, cmd)
  BY <1>0, <1>2, PostponedKept
<1>3. CASE setting.late # 0 /\ v \in Meanwhile(Execute(w, cmd, TRUE))
  <2>1. PICK u : u = Execute(w, cmd, TRUE)
    OBVIOUS
  <2>2. PICK t \in BOOLEAN : t = TRUE
    OBVIOUS
  <2>3. u = Execute(w, cmd, t)
    BY <2>1, <2>2
  <2>4. v \in Meanwhile(u)
    BY <1>3, <2>1
  <2>5. Unanswered(cmd, t)
    BY <2>2 DEF Unanswered
  <2> HIDE <2>1, <2>2
  <2>6. KeptBut(setting, u, S, T)
    BY <1>0, <2>3, ExecuteKept
  <2>7. Base(setting, u)
    BY <1>0, <1>3, <2>3, <2>5, ExecuteBase
  <2> QED
    BY <2>4, <2>6, <2>7, MeanwhileKept
<1> QED
  BY <1>2, <1>3 DEF Left

\* A command that asks nothing of the wishes.
LEMMA PlainKeeping ==
    ASSUME NEW verb \in Verbs \ {"insert", "insertNow", "delete", "enable"}, NEW s, NEW w, NEW S
    PROVE  Keeping(s, w, Plain(verb), S) /\ Fit(s, w, Plain(verb)) /\ Legit(s, Plain(verb))
BY PlainIs DEF Keeping

Kept(w) == KeptBut(setting, w, {}, {})

-----------------------------------------------------------------------------
(* The handlers keep it.                                                   *)

\* What is left when a plain command failed, and what it does when it did not.
LEMMA PlainLeftKept ==
    ASSUME NEW verb \in Verbs \ {"insert", "insertNow", "delete", "enable"}, NEW w,
           Base(setting, w), Kept(w), NEW v, Left(w, Plain(verb), v)
    PROVE  Kept(v)
<1> DEFINE cmd == Plain(verb)
           S == {}
           T == {}
<1>1. Keeping(setting, w, cmd, S) /\ Fit(setting, w, cmd)
  BY PlainKeeping
<1>2. KeptBut(setting, w, S, T)
  BY DEF Kept
<1> HIDE DEF cmd, S, T
<1>3. KeptBut(setting, v, S, T)
  BY <1>1, <1>2, LeftKept DEF cmd
<1> QED
  BY <1>3 DEF Kept, S, T

\* Wishes do not depend on the run state,
LEMMA StatusKept ==
    ASSUME NEW w, NEW v, Kept(w), OnlyStatus(w, v)
    PROVE  Kept(v)
<1> DEFINE S == {}
           T == {}
<1>1. KeptBut(setting, w, S, T)
  BY DEF Kept
<1> HIDE DEF S, T
<1>2. KeptBut(setting, v, S, T)
  BY <1>1, KeptAlike DEF OnlyStatus
<1> QED
  BY <1>2 DEF Kept, S, T

\* nor on the mirror and the queue.
LEMMA SameKept ==
    ASSUME NEW w, NEW v, Kept(w), v.gdb = w.gdb, v.wanted = w.wanted
    PROVE  Kept(v)
<1> DEFINE S == {}
           T == {}
<1>1. KeptBut(setting, w, S, T)
  BY DEF Kept
<1> HIDE DEF S, T
<1>2. KeptBut(setting, v, S, T)
  BY <1>1, KeptAlike
<1> QED
  BY <1>2 DEF Kept, S, T

\* Reconcile keeps wishes served.
LEMMA ReconcileKept ==
    ASSUME NEW w, Base(setting, w), Kept(w), NEW v \in Reconcile(w)
    PROVE  Kept(v)
<1>1. w \in AllWorlds
  BY DEF Base, Shape
<1>2. CASE v = Listed(w)
  <2>1. v.gdb = w.gdb /\ v.wanted = w.wanted
    BY <1>1, <1>2, ListedIs
  <2> QED
    BY <2>1, SameKept
<1>3. CASE Left(w, Plain("list"), v)
  BY <1>3, PlainLeftKept DEF Verbs
<1> QED
  BY <1>2, <1>3, ReconcileIs

\* A breakpoint the server makes, for a wish or not.
Wishing(s, w, bp, wish, S) == wish => w.gdb.next \notin S /\ (bp.enabled = TRUE \/ Careless(s))

\* An insert that was answered serves its wish.
LEMMA InsertOkKept ==
    ASSUME NEW w, NEW verb \in {"insert", "insertNow"}, NEW bp, Showable(bp),
           NEW wish \in BOOLEAN, NEW S, NEW T, Base(setting, w), KeptBut(setting, w, S, T),
           Wishing(setting, w, bp, wish, S),
           NEW v, InsertOk(w, Inserting(verb, bp, wish), v)
    PROVE  KeptBut(setting, v, S, T)
<1> DEFINE k == w.gdb.next
           made == Made(w, Inserting(verb, bp, wish))
<1>0. w \in AllWorlds /\ bp \in Bps
  BY DEF Base, Shape, Showable
<1>1. /\ made.tag = bp.tag
      /\ made.enabled = bp.enabled
      /\ Put(v.gdb.table, w.gdb.table, k, made)
      /\ v.gdb.late = w.gdb.late
      /\ v.gdb.inherited = w.gdb.inherited
      /\ v.wanted = Wished(w, bp.tag, wish)
  BY <1>0, InsertOkPuts DEF SameStatus, Alike
<1>2. k \notin DOMAIN w.gdb.table /\ (Tame(setting, w) => k \notin Doomed(w))
  BY NextFree
<1>3. wish => k \notin S /\ (made.enabled = TRUE \/ Careless(setting))
  BY <1>1 DEF Wishing
<1> HIDE DEF k, made
<1>4. v.wanted = Wished(w, made.tag, wish)
  BY <1>1
<1> QED
  BY <1>1, <1>2, <1>3, <1>4, PutKept

\* One that failed makes no wish, or serves it unheard.
LEMMA InsertFailsKept ==
    ASSUME NEW w, NEW verb \in {"insert", "insertNow"}, NEW bp, Showable(bp),
           NEW wish \in BOOLEAN, NEW S, NEW T, Base(setting, w), KeptBut(setting, w, S, T),
           Wishing(setting, w, bp, wish, S), NEW v, InsertFails(w, verb, bp, wish, v)
    PROVE  KeptBut(setting, v, S, T)
<1> DEFINE cmd == Inserting(verb, bp, wish)
<1>1. Fit(setting, w, cmd)
  BY InsertingFits
<1>2. cmd.verb = verb /\ cmd.bp = bp /\ cmd.wish = wish
  BY InsertingIs DEF Showable
<1>3. Left(w, cmd, v)
  BY DEF InsertFails
<1> HIDE DEF cmd
<1>4. Keeping(setting, w, cmd, S)
  BY <1>2 DEF Keeping, Wishing
<1> QED
  BY <1>1, <1>3, <1>4, LeftKept

\* A drop is of a breakpoint that serves no wish, or takes its wish with it.
LEMMA DropKept ==
    ASSUME NEW w, NEW n \in 1 .. setting.numbers, NEW wish \in BOOLEAN, NEW S, NEW T,
           Base(setting, w), KeptBut(setting, w, S, T), wish \/ n \in S,
           ~wish /\ Tame(setting, w) => n < w.gdb.next,
           NEW v \in DropBreakpoint(w, n, wish)
    PROVE  KeptBut(setting, v, S, T)
<1> DEFINE cmd == Deleting(n, wish)
<1>0. w \in AllWorlds /\ n \in Nat
  BY DEF Base, Shape, Sized
<1>1. CASE DropOk(w, n, wish, v)
  <2>1. /\ Cut(v.gdb.table, w.gdb.table, n)
        /\ SameStatus(v.gdb, w.gdb)
        /\ v.wanted = {u \in w.wanted : wish => u.tag # w.gdb.table[n].tag}
    BY <1>0, <1>1, DropOkCuts
  <2> QED
    BY <2>1, CutKept DEF SameStatus
<1>2. CASE Left(w, cmd, v)
  <2>1. cmd \in Commands /\ cmd.verb = "delete" /\ cmd.n = n /\ cmd.wish = wish /\ ~cmd.typed
    BY <1>0, DeletingIs
  <2>2. Fit(setting, w, cmd)
    BY <2>1 DEF Fit, Legit
  <2>3. Keeping(setting, w, cmd, S)
    BY <2>1 DEF Keeping
  <2> HIDE DEF cmd
  <2> QED
    BY <1>2, <2>2, <2>3, LeftKept
<1>3. DropOk(w, n, wish, v) \/ DropFails(w, n, wish, v)
  BY <1>0, DropBreakpointIs
<1> QED
  BY <1>1, <1>2, <1>3 DEF DropFails

\* The disable of a placement may be of one that serves no wish yet,
LEMMA DisableOkKept ==
    ASSUME NEW w, NEW m \in DOMAIN w.st.mirror, NEW bp \in Bps, NEW S, NEW T,
           Base(setting, w), KeptBut(setting, w, S, T), m \in S \/ Careless(setting),
           NEW v, DisableOk(w, m, bp, v)
    PROVE  KeptBut(setting, v, S, T)
<1> DEFINE off == Off(w.gdb.table[m])
<1>0. w \in AllWorlds
  BY DEF Base, Shape
<1>1. /\ m \in DOMAIN w.gdb.table
      /\ Put(v.gdb.table, w.gdb.table, m, off)
      /\ off.tag = w.gdb.table[m].tag
      /\ SameStatus(v.gdb, w.gdb)
      /\ v.wanted = w.wanted
  BY <1>0, DisableOkPuts DEF Alike
<1> HIDE DEF off
<1> QED
  BY <1>1, TurnKept DEF SameStatus

\* also if it fails.
LEMMA DisableLeftKept ==
    ASSUME NEW w, NEW m \in 1 .. setting.numbers, NEW bp \in Bps, NEW S, NEW T,
           Base(setting, w), KeptBut(setting, w, S, T), m \in S \/ Careless(setting),
           NEW v, Left(w, Disabling(m, bp), v)
    PROVE  KeptBut(setting, v, S, T)
<1> DEFINE cmd == Disabling(m, bp)
<1>0. m \in Nat
  BY DEF Base, Shape, Sized
<1>1. cmd \in Commands /\ cmd.verb = "enable" /\ cmd.n = m /\ ~cmd.typed /\ ~cmd.wish
  BY <1>0, DisablingIs
<1>2. Left(w, cmd, v)
  OBVIOUS
<1> HIDE DEF cmd
<1>3. Fit(setting, w, cmd) /\ Keeping(setting, w, cmd, S)
  BY <1>1 DEF Fit, Legit, Keeping
<1> QED
  BY <1>2, <1>3, LeftKept

\* k may serve in the place of n.
LEMMA StandIn ==
    ASSUME NEW s, NEW w, NEW n, NEW k \in DOMAIN w.gdb.table, NEW T,
           KeptBut(s, w, {k}, T), Tame(s, w) => k # n /\ k \notin Doomed(w),
           Tame(s, w) /\ n \in DOMAIN w.gdb.table =>
              /\ w.gdb.table[k].tag = w.gdb.table[n].tag
              /\ w.gdb.table[k].enabled = w.gdb.table[n].enabled \/ Careless(s)
    PROVE  KeptBut(s, w, {n}, T)
<1> SUFFICES ASSUME NEW u \in w.wanted
             PROVE  /\ u.tag # 0
                    /\ Tame(s, w) => u.tag \in T \/ \E m \in DOMAIN w.gdb.table :
                                                       m \notin {n} /\ Serves(s, w, m, u)
  BY DEF KeptBut
<1>1. /\ u.tag # 0
      /\ Tame(s, w) =>
            u.tag \in T \/ \E m \in DOMAIN w.gdb.table : m \notin {k} /\ Serves(s, w, m, u)
  BY DEF KeptBut
<1>2. ASSUME Tame(s, w), NEW m \in DOMAIN w.gdb.table, m # k, Serves(s, w, m, u)
      PROVE  \E x \in DOMAIN w.gdb.table : x \notin {n} /\ Serves(s, w, x, u)
  <2>1. CASE m # n
    BY <1>2, <2>1
  <2>2. CASE m = n
    <3>1. Serves(s, w, k, u)
      BY <1>2, <2>2 DEF Serves
    <3> QED
      BY <1>2, <2>2, <3>1
  <2> QED
    BY <2>1, <2>2
<1> QED
  BY <1>1, <1>2

\* A placement serves the wish of the name by the new breakpoint before it drops
\* the old one.
LEMMA PlaceOneKept ==
    ASSUME NEW w, NEW n, Base(setting, w), Placeable(setting, w, n), Kept(w),
           Tame(setting, w) => w.st.mirror[n].place = "name", NEW v \in PlaceOne(w, n)
    PROVE  Kept(v)
<1> DEFINE bp == Placed(w, n)
           k == w.gdb.next
           cmd == Inserting("insertNow", bp, FALSE)
           T == {}
           K == {k}
           N == {n}
<1>0. /\ w \in AllWorlds /\ n \in DOMAIN w.st.mirror /\ w.st.mirror[n].by # "gdb"
      /\ n \in 1 .. setting.numbers /\ (Tame(setting, w) => n < k) /\ k \in Nat /\ n \in Nat
      /\ w.st.mirror \in Tables
  BY DEF Base, Shape, AllWorlds, Gdbs, Mirrors, Placeable, Sized
<1>1. /\ Showable(bp) /\ bp \in Bps /\ bp.tag = w.st.mirror[n].tag /\ bp.enabled = TRUE
      /\ w.st.mirror[n].enabled \in BOOLEAN
  <2>1. w.st.mirror[n] \in Bps
    BY <1>0, TableBp
  <2>2. Showable(bp) /\ bp.tag = w.st.mirror[n].tag /\ bp.enabled = TRUE
    <3>1. Showable(bp) /\ bp.tag = w.st.mirror[n].tag
      BY <1>0, PlacedIs
    <3> QED
      BY <3>1 DEF Placed, Breakpoint
  <2> QED
    BY <2>1, <2>2 DEF Bps, Showable
<1>2. k \notin DOMAIN w.gdb.table /\ (Tame(setting, w) => n # k /\ k \notin Doomed(w))
  BY <1>0, NextFree
<1>3. Tame(setting, w) /\ n \in DOMAIN w.gdb.table =>
         /\ w.gdb.table[n].tag = w.st.mirror[n].tag
         /\ w.gdb.table[n].enabled = w.st.mirror[n].enabled \/ Careless(setting)
  BY <1>0 DEF Base, Same, NamesAt, Careless
<1>4. PICK f \in BOOLEAN, verb \in {"insert", "insertNow"} : f = FALSE /\ verb = "insertNow"
  OBVIOUS
<1>5. KeptBut(setting, w, {}, T)
  BY DEF Kept
<1>6. KeptBut(setting, w, K, T)
  <2>1. KeptBut(setting, w, {} \cup {k}, T)
    BY <1>2, <1>5, KeptMore
  <2> QED
    BY <2>1
<1>7. \/ InsertFails(w, "insertNow", bp, FALSE, v)
      \/ \E x : /\ InsertOk(w, cmd, x)
                /\ w.st.mirror[n].enabled
                /\ v \in DropBreakpoint(x, n, FALSE)
      \/ \E x, y : /\ InsertOk(w, cmd, x)
                   /\ ~w.st.mirror[n].enabled
                   /\ DisableOk(x, k, bp, y) \/ DisableFails(x, k, bp, y)
                   /\ v \in DropBreakpoint(y, n, FALSE)
  BY PlaceOneIs
<1>c. cmd = Inserting(verb, bp, f)
  BY <1>4
<1>w. Wishing(setting, w, bp, f, K) /\ Wishing(setting, w, bp, f, {})
  BY <1>4 DEF Wishing
<1> HIDE DEF bp, k, cmd, T, K, N
\* What holds once the new one is made.
<1>8. ASSUME NEW x, InsertOk(w, cmd, x)
      PROVE  /\ Base(setting, x)
             /\ x.gdb.inherited = w.gdb.inherited
             /\ x.gdb.next = k + 1
             /\ x.gdb.up
             /\ Doomed(x) = Doomed(w)
             /\ k \in DOMAIN x.gdb.table
             /\ x.gdb.table[k].tag = bp.tag
             /\ x.gdb.table[k].enabled = TRUE
             /\ k \in DOMAIN x.st.mirror
             /\ n # k /\ n \in DOMAIN x.gdb.table =>
                   n \in DOMAIN w.gdb.table /\ x.gdb.table[n] = w.gdb.table[n]
             /\ KeptBut(setting, x, K, T)
  <2>1. InsertOk(w, Inserting(verb, bp, f), x)
    BY <1>8, <1>c
  <2> DEFINE made == Made(w, Inserting(verb, bp, f))
  <2>2. /\ w.gdb.up
        /\ x.gdb.next = k + 1
        /\ Alike(made, bp)
        /\ made.enabled = bp.enabled
        /\ Put(x.gdb.table, w.gdb.table, k, made)
        /\ Put(x.st.mirror, w.st.mirror, k, made)
        /\ SameStatus(x.gdb, w.gdb)
    BY <1>0, <1>1, <2>1, InsertOkPuts DEF k
  <2> HIDE DEF made
  <2>3. Base(setting, x)
    BY <1>1, <2>1, InsertOkIs
  <2>4. KeptBut(setting, x, K, T)
    BY <1>1, <1>6, <1>w, <2>1, InsertOkKept
  <2>5. Doomed(x) = Doomed(w) /\ x.gdb.inherited = w.gdb.inherited /\ x.gdb.up
    BY <2>2 DEF SameStatus, Doomed
  <2> QED
    BY <1>1, <1>2, <2>2, <2>3, <2>4, <2>5 DEF Put, Alike
\* And once the old one is dropped.
<1>9. ASSUME NEW y, Base(setting, y), y.gdb.inherited = w.gdb.inherited, k <= y.gdb.next,
             KeptBut(setting, y, N, T), v \in DropBreakpoint(y, n, FALSE)
      PROVE  Kept(v)
  <2>1. Tame(setting, y) => n < y.gdb.next
    <3>1. y.gdb.next \in Nat
      BY <1>9 DEF Base, Shape, AllWorlds, Gdbs
    <3>2. Tame(setting, y) => Tame(setting, w)
      BY <1>9 DEF Tame
    <3> QED
      BY <1>0, <1>9, <3>1, <3>2
  <2>2. v \in DropBreakpoint(y, n, f)
    BY <1>4, <1>9
  <2>3. n \in N
    BY DEF N
  <2>4. n \in 1 .. setting.numbers
    BY <1>0
  <2>5. KeptBut(setting, v, N, T)
    BY <1>9, <2>1, <2>2, <2>3, <2>4, DropKept
  <2>6. {} \subseteq N
    OBVIOUS
  <2>7. KeptBut(setting, v, {}, T)
    BY <2>5, <2>6, KeptLess
  <2> QED
    BY <2>7 DEF Kept, T
<1>10. CASE InsertFails(w, "insertNow", bp, FALSE, v)
  <2>1. InsertFails(w, verb, bp, f, v)
    BY <1>4, <1>10
  <2> DEFINE S == {}
  <2>2. Wishing(setting, w, bp, f, S) /\ KeptBut(setting, w, S, T)
    BY <1>5, <1>w
  <2> HIDE DEF S
  <2>3. KeptBut(setting, v, S, T)
    BY <1>1, <2>1, <2>2, InsertFailsKept
  <2> QED
    BY <2>3 DEF Kept, S, T
<1>11. ASSUME NEW x, InsertOk(w, cmd, x), w.st.mirror[n].enabled, v \in DropBreakpoint(x, n, FALSE)
       PROVE  Kept(v)
  <2>1. KeptBut(setting, x, N, T)
    <3>1. Tame(setting, x) => Tame(setting, w)
      BY <1>8, <1>11 DEF Tame
    <3>2. Tame(setting, x) /\ n \in DOMAIN x.gdb.table =>
             /\ x.gdb.table[k].tag = x.gdb.table[n].tag
             /\ x.gdb.table[k].enabled = x.gdb.table[n].enabled \/ Careless(setting)
      BY <1>1, <1>2, <1>3, <1>8, <1>11, <3>1
    <3>3. /\ KeptBut(setting, x, {k}, T) /\ k \in DOMAIN x.gdb.table
          /\ Tame(setting, x) => k # n /\ k \notin Doomed(x)
      BY <1>2, <1>8, <1>11, <3>1 DEF K
    <3>4. KeptBut(setting, x, {n}, T)
      BY <3>2, <3>3, StandIn
    <3> QED
      BY <3>4 DEF N
  <2>2. k <= x.gdb.next
    <3>1. x.gdb.next = k + 1
      BY <1>8, <1>11
    <3> QED
      BY <1>0, <3>1
  <2> QED
    BY <1>8, <1>9, <1>11, <2>1, <2>2
<1>12. ASSUME NEW x, NEW y, InsertOk(w, cmd, x), ~w.st.mirror[n].enabled,
              DisableOk(x, k, bp, y) \/ DisableFails(x, k, bp, y),
              v \in DropBreakpoint(y, n, FALSE)
       PROVE  Kept(v)
  <2>0. Base(setting, x) /\ k \in DOMAIN x.st.mirror /\ x \in AllWorlds /\ k \in K
    <3>1. Base(setting, x) /\ k \in DOMAIN x.st.mirror
      BY <1>8, <1>12
    <3> QED
      BY <3>1 DEF Base, Shape, K
  <2>r. k \in 1 .. setting.numbers
    BY <2>0 DEF Base, Shape, Sized
  <2>1. Base(setting, y) /\ Onward(x, y, n, k)
    BY <1>1, <1>12, <2>0, DisableBase, DisableOnward
  <2>2. y.gdb.inherited = w.gdb.inherited /\ k <= y.gdb.next
    <3>1. y.gdb.inherited = x.gdb.inherited /\ x.gdb.next <= y.gdb.next /\ y.gdb.next \in Nat
      BY <2>1 DEF Onward, AllWorlds, Gdbs
    <3>2. x.gdb.inherited = w.gdb.inherited /\ x.gdb.next = k + 1
      BY <1>8, <1>12
    <3> QED
      BY <1>0, <3>1, <3>2
  <2>t. Tame(setting, x) => Tame(setting, w)
    BY <1>8, <1>12 DEF Tame
  <2>3. CASE Careless(setting)
    <3>1. Tame(setting, x) /\ n \in DOMAIN x.gdb.table =>
             /\ x.gdb.table[k].tag = x.gdb.table[n].tag
             /\ x.gdb.table[k].enabled = x.gdb.table[n].enabled \/ Careless(setting)
      BY <1>1, <1>2, <1>3, <1>8, <1>12, <2>3, <2>t
    <3>2. /\ KeptBut(setting, x, {k}, T) /\ k \in DOMAIN x.gdb.table
          /\ Tame(setting, x) => k # n /\ k \notin Doomed(x)
      BY <1>2, <1>8, <1>12, <2>t DEF K
    <3>3. KeptBut(setting, x, {n}, T)
      BY <3>1, <3>2, StandIn
    <3>4. KeptBut(setting, x, N, T)
      BY <3>3 DEF N
    <3>p. bp \in Bps
      BY <1>1
    <3>5. ASSUME DisableOk(x, k, bp, y)
          PROVE  KeptBut(setting, y, N, T)
      BY <2>0, <2>3, <3>p, <3>4, <3>5, DisableOkKept
    <3>6. ASSUME DisableFails(x, k, bp, y)
          PROVE  KeptBut(setting, y, N, T)
      <4>1. Left(x, Disabling(k, bp), y)
        BY <3>6 DEF DisableFails
      <4> QED
        BY <2>0, <2>r, <2>3, <3>p, <3>4, <4>1, DisableLeftKept
    <3>7. KeptBut(setting, y, N, T)
      BY <1>12, <3>5, <3>6
    <3> QED
      BY <1>9, <1>12, <2>1, <2>2, <3>7
  <2>4. CASE ~Careless(setting)
    <3>1. DisableOk(x, k, bp, y)
      BY <1>8, <1>12, <2>4 DEF DisableFails, Careless
    <3>2. KeptBut(setting, y, K, T)
      <4>1. KeptBut(setting, x, K, T)
        BY <1>8, <1>12
      <4> QED
        BY <1>1, <2>0, <3>1, <4>1, DisableOkKept
    <3> DEFINE off == Off(x.gdb.table[k])
    <3>3. /\ Put(y.gdb.table, x.gdb.table, k, off)
          /\ off.tag = x.gdb.table[k].tag /\ ~off.enabled
          /\ SameStatus(y.gdb, x.gdb)
      BY <1>1, <2>0, <3>1, DisableOkPuts DEF Alike
    <3> HIDE DEF off
    <3>e. off.enabled = FALSE
      <4>1. Off(x.gdb.table[k]).enabled = FALSE
        <5>1. x.gdb.table[k] \in Bps
          <6>1. k \in DOMAIN x.gdb.table /\ x.gdb.table \in Tables
            BY <1>8, <1>12, <2>0 DEF AllWorlds, Gdbs
          <6> QED
            BY <6>1, TableBp
        <5> QED
          BY <5>1 DEF Off, Bps
      <4> QED
        BY <4>1 DEF off
    <3>4. Tame(setting, y) => Tame(setting, w) /\ n # k
      BY <1>2, <2>2 DEF Tame
    <3>5. Tame(setting, y) /\ n \in DOMAIN y.gdb.table =>
             /\ y.gdb.table[k].tag = y.gdb.table[n].tag
             /\ y.gdb.table[k].enabled = y.gdb.table[n].enabled \/ Careless(setting)
      <4> SUFFICES ASSUME Tame(setting, y), n \in DOMAIN y.gdb.table
                   PROVE  /\ y.gdb.table[k].tag = y.gdb.table[n].tag
                          /\ y.gdb.table[k].enabled = y.gdb.table[n].enabled
        OBVIOUS
      <4>1. n \in DOMAIN x.gdb.table /\ y.gdb.table[n] = x.gdb.table[n] /\ y.gdb.table[k] = off
        BY <3>3, <3>4 DEF Put
      <4>2. n \in DOMAIN w.gdb.table /\ x.gdb.table[n] = w.gdb.table[n]
        BY <1>8, <1>12, <3>4, <4>1
      <4>3. /\ w.gdb.table[n].tag = w.st.mirror[n].tag
            /\ w.gdb.table[n].enabled = w.st.mirror[n].enabled
            /\ w.st.mirror[n].enabled = FALSE
        BY <1>1, <1>3, <1>12, <2>4, <3>4, <4>2
      <4>4. off.tag = w.st.mirror[n].tag
        BY <1>1, <1>8, <1>12, <3>3
      <4> QED
        BY <3>e, <4>1, <4>2, <4>3, <4>4
    <3>6. /\ KeptBut(setting, y, {k}, T)
          /\ k \in DOMAIN y.gdb.table
          /\ Tame(setting, y) => k # n /\ k \notin Doomed(y)
      <4>1. Doomed(y) = Doomed(x)
        BY <3>3 DEF SameStatus, Doomed
      <4>2. Doomed(x) = Doomed(w)
        BY <1>8, <1>12
      <4>3. k \in DOMAIN y.gdb.table
        BY <3>3 DEF Put
      <4>4. KeptBut(setting, y, {k}, T)
        BY <3>2 DEF K
      <4> QED
        BY <1>2, <3>4, <4>1, <4>2, <4>3, <4>4
    <3>7. KeptBut(setting, y, {n}, T)
      BY <3>5, <3>6, StandIn
    <3>8. KeptBut(setting, y, N, T)
      BY <3>7 DEF N
    <3> QED
      BY <1>9, <1>12, <2>1, <2>2, <3>8
  <2> QED
    BY <2>3, <2>4
<1> QED
  BY <1>7, <1>10, <1>11, <1>12 DEF k

\* Where the loop over the deferred breakpoints stands: those it has still to
\* see to are what they were.
Awaiting(w, v, S) ==
    /\ Resolving(w, v, S)
    /\ Kept(v)
    /\ Tame(setting, v) =>
          \A m \in Deferred(w) : m \notin S => v.st.mirror[m].place = "name"

\* So each step of the loop over the deferred breakpoints does,
LEMMA AwaitingStep ==
    ASSUME NEW w, Base(setting, w), NEW S, NEW n \in Deferred(w), n \notin S,
           NEW v, Awaiting(w, v, S), NEW u \in PlaceOne(v, n)
    PROVE  Awaiting(w, u, S \cup {n})
<1>0. Resolving(w, v, S) /\ Base(setting, v)
  BY DEF Awaiting, Resolving
<1>n. w.gdb.next \in Nat /\ v.gdb.next \in Nat /\ \A m \in Deferred(w) : m \in Nat
  <2>1. \A m \in Deferred(w) : m \in 1 .. setting.numbers
    BY DeferredIs
  <2>2. setting.numbers \in Nat
    BY DEF Base, Shape, Sized
  <2>3. \A m \in Deferred(w) : m \in Nat
    BY <2>1, <2>2
  <2> QED
    BY <1>0, <2>3 DEF Base, Shape, AllWorlds, Gdbs
<1>1. Placeable(setting, v, n)
  BY <1>0, ResolvingPlaceable
<1>2. Tame(setting, v) => v.st.mirror[n].place = "name"
  BY DEF Awaiting
<1>3. Kept(u)
  <2>1. Kept(v)
    BY DEF Awaiting
  <2> QED
    BY <1>0, <1>1, <1>2, <2>1, PlaceOneKept
<1>4. Resolving(w, u, S \cup {n})
  BY <1>0, ResolvingStep
<1>5. Onward(v, u, n, v.gdb.next)
  BY <1>0, <1>1, PlaceOneBase
<1>6. ASSUME Tame(setting, u), NEW m \in Deferred(w), m \notin S \cup {n}
      PROVE  u.st.mirror[m].place = "name"
  <2>1. m \notin S /\ m # n
    BY <1>6
  <2>2. Tame(setting, v) /\ Tame(setting, w)
    BY <1>0, <1>5, <1>6 DEF Tame, Onward, Resolving
  <2>3. v.st.mirror[m].place = "name" /\ m \in DOMAIN v.st.mirror
    BY <1>0, <2>1, <2>2 DEF Awaiting, Resolving
  <2>4. m < w.gdb.next
    BY <2>2, DeferredIs
  <2>5. w.gdb.next <= v.gdb.next
    BY <1>0 DEF Resolving
  <2>6. m # v.gdb.next
    BY <1>n, <2>4, <2>5
  <2> QED
    BY <1>5, <2>1, <2>3, <2>6 DEF Onward
<1> QED
  BY <1>3, <1>4, <1>6 DEF Awaiting

\* from its beginning,
LEMMA AwaitingStart ==
    ASSUME NEW w, Base(setting, w), Kept(w)
    PROVE  Awaiting(w, w, {})
<1>1. \A m \in Deferred(w) : w.st.mirror[m].place = "name"
  BY DeferredIs
<1> QED
  BY <1>1, ResolvingStart DEF Awaiting

\* to its end.
LEMMA PlacementsKept ==
    ASSUME NEW w, Base(setting, w), Kept(w), NEW D \in SUBSET Deferred(w), IsFiniteSet(D),
           NEW v \in Placements(w, D)
    PROVE  Kept(v)
<1> DEFINE Q == [S \in SUBSET D |-> {u \in AllWorlds : Awaiting(w, u, S)}]
<1>q. ASSUME NEW S \in SUBSET D, NEW u, Awaiting(w, u, S)
      PROVE  u \in Q[S]
  BY <1>q DEF Awaiting, Resolving, Base, Shape
<1>r. ASSUME NEW S \in SUBSET D, NEW u \in Q[S]
      PROVE  Awaiting(w, u, S)
  OBVIOUS
<1> HIDE DEF Q
<1>1. w \in Q[{}]
  BY <1>q, AwaitingStart
<1>2. ASSUME NEW S \in SUBSET D, NEW n \in D, n \notin S, NEW u \in Q[S]
      PROVE  PlaceOne(u, n) \subseteq Q[S \cup {n}]
  <2>0. n \in Deferred(w)
    OBVIOUS
  <2>1. Awaiting(w, u, S)
    BY <1>r
  <2>2. \A x \in PlaceOne(u, n) : Awaiting(w, x, S \cup {n})
    BY <1>2, <2>0, <2>1, AwaitingStep
  <2>3. S \cup {n} \in SUBSET D
    OBVIOUS
  <2> QED
    BY <1>q, <2>2, <2>3
<1>3. Placements(w, D) \subseteq Q[D]
  BY <1>1, <1>2, ResolveLoop
<1>4. Awaiting(w, v, D)
  BY <1>r, <1>3
<1> QED
  BY <1>4 DEF Awaiting

\* So the placement keeps them, whichever the decompiler cannot place.
LEMMA ResolveKept ==
    ASSUME NEW w, Base(setting, w), Kept(w), NEW v \in ResolveDeferred(w)
    PROVE  Kept(v)
<1>1. PICK D \in SUBSET Deferred(w) : v \in Placements(Passing(w, D), D)
  BY ResolveDeferredIs
<1> DEFINE p == Passing(w, D)
<1>2. /\ Base(setting, p) /\ OnlyStatus(w, p)
      /\ D \in SUBSET Deferred(p) /\ IsFiniteSet(D)
  BY PassingIs
<1>3. v \in Placements(p, D)
  BY <1>1
<1> HIDE DEF p
<1>4. Kept(p)
  BY <1>2, StatusKept
<1> QED
  BY <1>2, <1>3, <1>4, PlacementsKept

\* A resume.
LEMMA CarryKept ==
    ASSUME NEW w, NEW v, NEW S, NEW T, Base(setting, w), KeptBut(setting, w, S, T), CarryOk(w, v)
    PROVE  KeptBut(setting, v, S, T)
<1> DEFINE x == Resumed(w)
<1>0. w \in AllWorlds /\ w.gdb \in Gdbs
  BY DEF Base, Shape, AllWorlds
<1>1. /\ x \in AllWorlds
      /\ x.wanted = w.wanted
      /\ x.gdb = [w.gdb EXCEPT !.process = "running", !.entry = FALSE, !.resumes = @ + 1]
  BY <1>0, ResumedIs
<1>2. /\ x.gdb.table = w.gdb.table /\ x.gdb.late = w.gdb.late
      /\ x.gdb.inherited = w.gdb.inherited
  BY <1>0, <1>1 DEF Gdbs
<1>3. v = InState(x, "running")
  BY DEF CarryOk
<1> HIDE DEF x
<1>4. OnlyStatus(x, v)
  BY <1>1, <1>3, InStateIs DEF RunStates
<1> QED
  BY <1>1, <1>2, <1>4, KeptAlike DEF OnlyStatus

\* A run, a continue or a load that failed leaves wishes served.
LEMMA PlainFailsKept ==
    ASSUME NEW verb \in Verbs \ {"insert", "insertNow", "delete", "enable"}, NEW w, NEW S, NEW T,
           Base(setting, w), KeptBut(setting, w, S, T), NEW v, Left(w, Plain(verb), v)
    PROVE  KeptBut(setting, v, S, T)
<1> DEFINE cmd == Plain(verb)
<1>1. Keeping(setting, w, cmd, S) /\ Fit(setting, w, cmd)
  BY PlainKeeping
<1> HIDE DEF cmd
<1> QED
  BY <1>1, LeftKept DEF cmd

\* So does a deferred start that goes on,
LEMMA CarriesKept ==
    ASSUME NEW w, NEW v, NEW S, NEW T, Base(setting, w), KeptBut(setting, w, S, T), Carries(w, v)
    PROVE  KeptBut(setting, v, S, T)
<1>1. CASE CarryOk(w, v)
  BY <1>1, CarryKept
<1>2. CASE Left(w, Plain("continue"), v)
  <2>1. "continue" \in Verbs \ {"insert", "insertNow", "delete", "enable"}
    BY DEF Verbs
  <2> QED
    BY <1>2, <2>1, PlainFailsKept
<1> QED
  BY <1>1, <1>2 DEF Carries

\* gdb's breakpoint on main.
LEMMA MainsKept ==
    ASSUME NEW w, NEW bp, OnMainBp(bp), NEW S, NEW T, Base(setting, w), KeptBut(setting, w, S, T),
           NEW v, Mains(w, bp, v)
    PROVE  KeptBut(setting, v, S, T)
<1>1. PICK f \in BOOLEAN, verb \in {"insert", "insertNow"} : f = FALSE /\ verb = "insertNow"
  OBVIOUS
<1> DEFINE cmd == Inserting(verb, bp, f)
<1>0. w \in AllWorlds /\ bp \in Bps
  BY DEF Base, Shape, OnMainBp
<1>2. /\ cmd \in Commands
      /\ cmd.verb = verb
      /\ cmd.bp = bp
      /\ ~cmd.typed
      /\ cmd.wish = f
  BY <1>0, InsertingIs
<1>3. Mains(w, bp, v) <=> \/ MainOk(w, bp, v)
                          \/ Left(w, cmd, v)
  BY <1>1 DEF Mains
<1>4. MainOk(w, bp, v) => v = Insert(w, cmd, f)
  BY <1>1 DEF MainOk
<1>5. Keeping(setting, w, cmd, S)
  BY <1>1, <1>2 DEF Keeping
<1>6. Fit(setting, w, cmd)
  BY <1>1, <1>2 DEF Fit, Legit, OnMainBp
<1> HIDE DEF cmd
<1>7. CASE MainOk(w, bp, v)
  BY <1>2, <1>4, <1>5, <1>7, InsertKept
<1>8. CASE Left(w, cmd, v)
  BY <1>5, <1>6, <1>8, LeftKept
<1> QED
  BY <1>3, <1>7, <1>8

\* and finishDeferredStart,
LEMMA FinishKept ==
    ASSUME NEW w, Base(setting, w), Kept(w), NEW v \in FinishDeferredStart(w)
    PROVE  Kept(v)
<1> DEFINE p == Deferring(w, "none")
           S == {}
<1>0. w \in AllWorlds
  BY DEF Base, Shape
<1>1. Base(setting, p) /\ OnlyStatus(w, p)
  BY <1>0, DeferringIs, StatusBase DEF Deferments
<1>2. FinishIs(w, v)
  BY FinishDeferredStartIs
<1>3. \/ v = w
      \/ v \in ResolveDeferred(p)
      \/ \E x \in ResolveDeferred(p) : Carries(x, v)
      \/ \E x \in ResolveDeferred(p) : \E y : Mains(x, MainOf(w), y) /\ Carries(y, v)
  BY <1>2 DEF FinishIs
<1>k. \A x : Kept(x) <=> KeptBut(setting, x, S, S)
  BY DEF Kept
<1> HIDE DEF p, S
<1>4. \A x \in ResolveDeferred(p) : Base(setting, x)
  BY <1>1, ResolveBase DEF Resolving
<1>5. OnMainBp(MainOf(w))
  BY <1>0, MainOfIs
<1>6. Kept(p)
  BY <1>1, StatusKept
<1>7. \A x \in ResolveDeferred(p) : Kept(x)
  BY <1>1, <1>6, ResolveKept
<1>8. ASSUME NEW x \in ResolveDeferred(p), Carries(x, v)
      PROVE  Kept(v)
  BY <1>4, <1>7, <1>8, <1>k, CarriesKept
<1>9. ASSUME NEW x \in ResolveDeferred(p), NEW y, Mains(x, MainOf(w), y), Carries(y, v)
      PROVE  Kept(v)
  <2>1. Base(setting, y)
    BY <1>4, <1>5, <1>9, MainsBase
  <2>2. KeptBut(setting, x, S, S)
    BY <1>7, <1>k
  <2>3. KeptBut(setting, y, S, S)
    BY <1>4, <1>5, <1>9, <2>2, MainsKept
  <2>4. KeptBut(setting, v, S, S)
    BY <1>9, <2>1, <2>3, CarriesKept
  <2> QED
    BY <1>k, <2>4
<1> QED
  BY <1>3, <1>7, <1>8, <1>9

\* and so the handling of a record.
LEMMA OnRecordKept ==
    ASSUME NEW w, Base(setting, w), Kept(w), w.intake # <<>>, NEW v, OnRecordIs(w, v)
    PROVE  Kept(v)
<1> DEFINE rec == Head(w.intake)
           t == Rest(w)
           x == InState(t, "stopped")
<1>0. w \in AllWorlds /\ rec \in Records /\ rec.n \in Nat
  <2>1. w \in AllWorlds /\ w.intake \in Seq(Records)
    BY DEF Base, Shape, AllWorlds
  <2>2. rec \in Records
    BY <2>1, TailIs
  <2> QED
    BY <2>1, <2>2 DEF Records
<1>1. t \in AllWorlds /\ t.gdb = w.gdb /\ t.wanted = w.wanted
  BY <1>0, RestIs
<1>2. \/ v = t
      \/ v = Heeded(t, rec)
      \/ v = Forget(t, rec.n)
      \/ \E r \in RunStates : v = InState(t, r)
      \/ v = Gone(t)
      \/ v \in FinishDeferredStart(x) /\ Taken(w, x)
  <2>1. \/ v = t
        \/ v = Heeded(t, rec)
        \/ v = Forget(t, rec.n)
        \/ \E r \in RunStates : v = InState(t, r)
        \/ v = Gone(t)
        \/ rec.kind = "stopped" /\ v \in FinishDeferredStart(x)
    BY DEF OnRecordIs, RunStates
  <2>2. rec.kind = "stopped" => Taken(w, x) \/ Taken(w, v)
    BY OnRecordTakes
  <2>3. rec.kind = "stopped" => Taken(w, x)
    <3> SUFFICES ASSUME rec.kind = "stopped"
                 PROVE  Taken(w, x)
      OBVIOUS
    <3>1. OnlyStatus(t, x)
      BY <1>1, InStateIs DEF RunStates
    <3>2. /\ x \in AllWorlds /\ x.gdb = t.gdb /\ x.adrift = t.adrift /\ x.intake = t.intake
          /\ x.st.mirror = t.st.mirror /\ x.st.ours = t.st.ours
      BY <3>1 DEF OnlyStatus
    <3>3. t.st = w.st /\ t.gdb = w.gdb /\ t.adrift = w.adrift /\ t.intake = Tail(w.intake)
      BY <1>0, RestIs
    <3>4. "stopped" \notin ToldKinds
      BY DEF ToldKinds
    <3> QED
      BY <3>2, <3>3, <3>4 DEF Taken, Ignoring
  <2> HIDE DEF rec, t, x
  <2> QED
    BY <2>1, <2>3
<1> HIDE DEF rec, t
<1>3. CASE v = Heeded(t, rec) \/ v = Forget(t, rec.n)
  <2>1. v.gdb = t.gdb /\ v.wanted = t.wanted
    <3>1. /\ Heeded(t, rec).gdb = t.gdb /\ Heeded(t, rec).wanted = t.wanted
          /\ Forget(t, rec.n).gdb = t.gdb /\ Forget(t, rec.n).wanted = t.wanted
      BY <1>0, <1>1, HeededIs, ForgetIs
    <3> QED
      BY <1>3, <3>1
  <2> QED
    BY <1>1, <2>1, SameKept
<1>4. ASSUME OnlyStatus(t, v)
      PROVE  Kept(v)
  <2>1. v.gdb = w.gdb /\ v.wanted = w.wanted
    BY <1>1, <1>4 DEF OnlyStatus
  <2> QED
    BY <2>1, SameKept
<1>5. CASE (\E r \in RunStates : v = InState(t, r)) \/ v = Gone(t)
  BY <1>1, <1>4, <1>5, InStateIs, GoneIs
<1>6. CASE v \in FinishDeferredStart(x) /\ Taken(w, x)
  <2>1. Base(setting, x)
    BY <1>6, TakenBase
  <2>2. OnlyStatus(t, x)
    BY <1>1, InStateIs DEF RunStates
  <2>3. x.gdb = w.gdb /\ x.wanted = w.wanted
    BY <1>1, <2>2 DEF OnlyStatus
  <2> HIDE DEF x
  <2>4. Kept(x)
    BY <2>3, SameKept
  <2> QED
    BY <1>6, <2>1, <2>4, FinishKept
<1>7. CASE v = t
  BY <1>1, <1>7, SameKept
<1> QED
  BY <1>2, <1>3, <1>5, <1>6, <1>7

\* The requests keep wishes served: to set a breakpoint,
LEMMA BpSetKept ==
    ASSUME NEW w, NEW place \in Places, NEW temporary \in BOOLEAN,
           NEW tag \in Nat, tag # 0 => ~temporary, Base(setting, w), Kept(w),
           NEW v \in BpSet(w, place, temporary, tag)
    PROVE  Kept(v)
<1> DEFINE bp == Breakpoint(place, temporary, tag, "user", w.gdb.resumes)
           S == {}
<1>1. PICK f \in BOOLEAN, verb \in {"insert", "insertNow"} : f = TRUE /\ verb = "insert"
  OBVIOUS
<1>2. Showable(bp) /\ \E r \in InsertBreakpoint(w, "insert", bp, TRUE) : v = r.w
  <2>1. v \in Worlds(InsertBreakpoint(w, "insert", bp, TRUE))
    BY DEF BpSet
  <2>2. Showable(Breakpoint(place, temporary, tag, "user", w.gdb.resumes))
    BY BpSetBase DEF Places
  <2> QED
    BY <2>1, <2>2 DEF Worlds
<1>3. bp.enabled = TRUE
  BY DEF Breakpoint
<1>4. Wishing(setting, w, bp, f, S)
  BY <1>3 DEF Wishing
<1>5. KeptBut(setting, w, S, S)
  BY DEF Kept
<1> HIDE DEF bp, S
<1>6. PICK r \in InsertBreakpoint(w, verb, bp, f) : v = r.w
  BY <1>1, <1>2
<1>7. InsertOk(w, Inserting(verb, bp, f), v) \/ InsertFails(w, verb, bp, f, v)
  BY <1>2, <1>6, InsertBreakpointBase
<1>8. KeptBut(setting, v, S, S)
  BY <1>2, <1>4, <1>5, <1>7, InsertOkKept, InsertFailsKept
<1> QED
  BY <1>8 DEF Kept, S

\* to delete one,
LEMMA BpDeleteKept ==
    ASSUME NEW w, NEW n \in 1 .. setting.numbers, Base(setting, w), Kept(w),
           NEW v \in DropBreakpoint(w, n, TRUE)
    PROVE  Kept(v)
<1> DEFINE S == {}
<1>1. PICK f \in BOOLEAN : f = TRUE
  OBVIOUS
<1>2. KeptBut(setting, w, S, S)
  BY DEF Kept
<1> HIDE DEF S
<1>3. v \in DropBreakpoint(w, n, f)
  BY <1>1
<1>4. ~f /\ Tame(setting, w) => n < w.gdb.next
  BY <1>1
<1>5. KeptBut(setting, v, S, S)
  BY <1>1, <1>2, <1>3, <1>4, DropKept
<1> QED
  BY <1>5 DEF Kept, S

\* to enable one,
LEMMA BpSetEnabledKept ==
    ASSUME NEW w, NEW n \in 1 .. setting.numbers, NEW on \in BOOLEAN, Base(setting, w), Kept(w),
           NEW v \in BpSetEnabled(w, n, on)
    PROVE  Kept(v)
<1> DEFINE cmd == Switching(n, on)
           S == {}
<1>0. n \in Nat /\ w \in AllWorlds
  BY DEF Base, Shape, Sized
<1>1. /\ cmd \in Commands
      /\ cmd.verb = "enable"
      /\ cmd.n = n
      /\ cmd.bp.enabled = on
      /\ ~cmd.typed
      /\ cmd.wish
  BY <1>0, SwitchingIs
<1>f. PICK f \in BOOLEAN : f = FALSE
  OBVIOUS
<1>2. \/ /\ n \in DOMAIN w.gdb.table
         /\ n \in DOMAIN w.st.mirror => v = Noted(Enable(w, cmd, f), n, on)
         /\ n \notin DOMAIN w.st.mirror => v = Enable(w, cmd, f)
      \/ Left(w, cmd, v)
  BY <1>0, <1>f, BpSetEnabledIs DEF SwitchOk
<1> HIDE DEF cmd
<1>3. Legit(setting, cmd) /\ Fit(setting, w, cmd)
  BY <1>1 DEF Legit, Fit
<1>4. Keeping(setting, w, cmd, S)
  BY <1>1 DEF Keeping
<1>5. KeptBut(setting, w, S, S)
  BY DEF Kept
<1>k. \A x : Kept(x) <=> KeptBut(setting, x, S, S)
  BY DEF Kept
<1> HIDE DEF S
<1>6. CASE Left(w, cmd, v)
  BY <1>3, <1>4, <1>5, <1>6, <1>k, LeftKept
<1>7. CASE /\ n \in DOMAIN w.gdb.table
           /\ n \in DOMAIN w.st.mirror => v = Noted(Enable(w, cmd, f), n, on)
           /\ n \notin DOMAIN w.st.mirror => v = Enable(w, cmd, f)
  <2> DEFINE x == Enable(w, cmd, f)
  <2>1. cmd.n \in DOMAIN w.gdb.table
    BY <1>1, <1>7
  <2>2. x \in AllWorlds /\ x.st = w.st
    BY <1>0, <1>1, <2>1, EnableIs
  <2>3. Kept(x)
    BY <1>1, <1>4, <1>5, <1>k, <2>1, EnableKept
  <2> HIDE DEF x
  <2>4. CASE n \in DOMAIN w.st.mirror
    <3>1. v = Noted(x, n, on) /\ n \in DOMAIN x.st.mirror
      BY <1>7, <2>2, <2>4 DEF x
    <3>2. v.gdb = x.gdb /\ v.wanted = x.wanted
      BY <2>2, <3>1, NotedIs
    <3> QED
      BY <2>3, <3>2, SameKept
  <2>5. CASE n \notin DOMAIN w.st.mirror
    BY <1>7, <2>3, <2>5 DEF x
  <2> QED
    BY <2>4, <2>5
<1> QED
  BY <1>2, <1>6, <1>7

\* to load,
LEMMA ExeLoadKept ==
    ASSUME NEW w, Base(setting, w), Kept(w), NEW r \in ExeLoad(w)
    PROVE  Kept(r.w)
<1> DEFINE x == Load(w)
           S == {}
<1>1. CASE LoadOk(w, r.w)
  <2>1. /\ Base(setting, LoadedState(x)) /\ OnlyStatus(x, LoadedState(x))
        /\ r.w \in Reconcile(LoadedState(x))
    BY <1>1, LoadedBase DEF LoadOk
  <2>2. KeptBut(setting, w, S, S)
    BY DEF Kept
  <2>3. KeptBut(setting, x, S, S)
    <3> HIDE DEF S
    <3> QED
      BY <2>2, LoadKept
  <2>4. Kept(x)
    BY <2>3 DEF Kept
  <2> HIDE DEF x
  <2>5. Kept(LoadedState(x))
    BY <2>1, <2>4, StatusKept
  <2> QED
    BY <2>1, <2>5, ReconcileKept
<1>2. CASE Left(w, Plain("load"), r.w)
  BY <1>2, PlainLeftKept DEF Verbs
<1> QED
  BY <1>1, <1>2, ExeLoadIs

\* to run, when gdb does
LEMMA RunOkKept ==
    ASSUME NEW w, NEW verb \in RunVerbs, NEW v, NEW S, NEW T, Base(setting, w),
           KeptBut(setting, w, S, T), RunOk(w, verb, v)
    PROVE  KeptBut(setting, v, S, T)
<1>n. PICK named \in SUBSET Deferred(w) : RunsNaming(w, verb, named, v)
  BY DEF RunOk
<1> DEFINE start == StartCommand(verb, named)
           M == Deferred(w) \ named
           x == Start(w, start.verb)
<1>0. start.verb \in RunVerbs /\ start.deferred \in Deferments
  BY StartCommandIs
<1>1. /\ start.verb = "runMain" => w.gdb.next <= setting.numbers
      /\ v = Starting(x, start.deferred, M)
  BY <1>n DEF RunsNaming
<1>m. M \in SUBSET Nat
  BY DeferredNat
<1> HIDE DEF start, M
<1>2. KeptBut(setting, x, S, T)
  BY StartKept
<1>3. x \in AllWorlds
  BY <1>1, StartBase DEF Base, Shape
<1> HIDE DEF x
<1>4. OnlyStatus(x, v)
  BY <1>0, <1>1, <1>3, <1>m, StartingIs
<1> QED
  BY <1>2, <1>4, KeptAlike DEF OnlyStatus

\* and when it does not,
LEMMA RunFailsKept ==
    ASSUME NEW w, NEW v, NEW S, NEW T, Base(setting, w),
           KeptBut(setting, w, S, T), RunFails(w, v)
    PROVE  KeptBut(setting, v, S, T)
<1>1. PICK verb \in RunVerbs : Left(w, Plain(verb), v)
  BY DEF RunFails
<1>2. verb \in Verbs \ {"insert", "insertNow", "delete", "enable"}
  BY DEF RunVerbs, Verbs
<1> QED
  BY <1>1, <1>2, PlainFailsKept

\* either way,
LEMMA RunKept ==
    ASSUME NEW w, NEW verb \in RunVerbs, Base(setting, w), Kept(w), NEW r \in Run(w, verb)
    PROVE  Kept(r.w)
<1> DEFINE S == {}
           v == r.w
<1>1. KeptBut(setting, w, S, S)
  BY DEF Kept
<1>2. RunOk(w, verb, v) \/ RunFails(w, v)
  BY RunIs
<1> HIDE DEF S, v
<1>3. KeptBut(setting, v, S, S)
  BY <1>1, <1>2, RunOkKept, RunFailsKept
<1> QED
  BY <1>3 DEF Kept, S, v

\* to continue,
LEMMA ContinueKept ==
    ASSUME NEW w, Base(setting, w), Kept(w), NEW r \in Continue(w)
    PROVE  Kept(r.w)
<1> DEFINE S == {}
           v == r.w
<1>1. KeptBut(setting, w, S, S)
  BY DEF Kept
<1>2. Carries(w, v)
  BY ContinueIs DEF Carries
<1> HIDE DEF S, v
<1>3. KeptBut(setting, v, S, S)
  BY <1>1, <1>2, CarriesKept
<1> QED
  BY <1>3 DEF Kept, S, v

\* to go to a place,
LEMMA GoingKept ==
    ASSUME NEW w, NEW x, NEW S, NEW T, Base(setting, x), KeptBut(setting, x, S, T),
           NEW r, Going(w, x, r)
    PROVE  KeptBut(setting, r.w, S, T)
<1>1. "run" \in RunVerbs
  BY DEF RunVerbs
<1>2. CASE CarryOk(x, r.w)
  BY <1>2, CarryKept
<1>3. CASE RunOk(x, "run", r.w)
  BY <1>1, <1>3, RunOkKept
<1>4. CASE Left(x, Plain("continue"), r.w)
  <2>1. Carries(x, r.w)
    BY <1>4 DEF Carries
  <2> QED
    BY <2>1, CarriesKept
<1>5. CASE RunFails(x, r.w)
  BY <1>5, RunFailsKept
<1> QED
  BY <1>2, <1>3, <1>4, <1>5, GoingIs

\* where only the run-to's own breakpoint is dropped,
LEMMA ExecRunToKept ==
    ASSUME NEW w, NEW place \in Places, Base(setting, w), Kept(w), NEW v \in ExecRunTo(w, place)
    PROVE  Kept(v)
<1> DEFINE bp == RunToBp(w, place)
           verb == RunToVerb(place)
           k == w.gdb.next
           K == {k}
           S == {}
<1>0. w \in AllWorlds
  BY DEF Base, Shape
<1>1. Showable(bp) /\ verb \in {"insert", "insertNow"}
  BY <1>0, RunToBpIs
<1>2. ExecRunToIs(w, place, v)
  BY ExecRunToComesTo
<1>t. PICK f \in BOOLEAN : f = FALSE
  OBVIOUS
<1>w. Wishing(setting, w, bp, f, S) /\ Wishing(setting, w, bp, f, K)
  BY <1>t DEF Wishing
<1>k. \A x : Kept(x) <=> KeptBut(setting, x, S, S)
  BY DEF Kept
<1>b. KeptBut(setting, w, S, S) /\ k \in K /\ S \subseteq K
  BY DEF Kept
<1>s. KeptBut(setting, w, K, S)
  <2>1. KeptBut(setting, w, {} \cup {k}, S)
    <3>1. k \notin DOMAIN w.gdb.table
      BY NextFree
    <3> HIDE DEF k
    <3> QED
      BY <1>b, <3>1, KeptMore
  <2> QED
    BY <2>1
<1> HIDE DEF S, K
<1>3. CASE InsertFails(w, verb, bp, FALSE, v)
  <2>1. InsertFails(w, verb, bp, f, v)
    BY <1>3, <1>t
  <2> HIDE DEF bp, verb
  <2>2. KeptBut(setting, v, S, S)
    BY <1>1, <1>b, <1>w, <2>1, InsertFailsKept
  <2> QED
    BY <1>k, <2>2
<1>4. ASSUME NEW x, NEW r, InsertOk(w, Sets(w, place), x), Going(w, x, r),
             \/ r.ok /\ v = r.w
             \/ ~r.ok /\ v \in DropBreakpoint(r.w, k, FALSE)
      PROVE  Kept(v)
  <2>1. InsertOk(w, Inserting(verb, bp, f), x)
    BY <1>4, <1>t DEF Sets
  <2> HIDE DEF bp, verb, k
  <2>2. Base(setting, x) /\ w.gdb.next <= setting.numbers /\ x \in AllWorlds
    BY <1>1, <2>1, InsertOkIs DEF Base, Shape
  <2>3. Base(setting, r.w) /\ r.w \in AllWorlds
    BY <1>4, <2>2, GoingIs DEF Base, Shape
  <2>k. KeptBut(setting, x, K, S)
    BY <1>1, <1>s, <1>w, <2>1, InsertOkKept
  <2>g. KeptBut(setting, r.w, K, S)
    BY <1>4, <2>2, <2>k, GoingKept
  <2>4. CASE r.ok
    <3>1. KeptBut(setting, r.w, S, S)
      BY <1>b, <2>g, KeptLess
    <3> QED
      BY <1>4, <1>k, <2>4, <3>1
  <2>5. CASE ~r.ok
    <3>1. Goes(x, r.w)
      BY <1>4, <2>2, <2>5, GoingGoes
    <3>2. x.gdb.next = w.gdb.next + 1 /\ w.gdb.next \in Nat
      <4>1. bp \in Bps
        BY <1>1 DEF Showable
      <4> QED
        BY <1>0, <1>1, <2>1, <4>1, InsertOkPuts
    <3>3. w.gdb.next \in 1 .. setting.numbers
      BY <2>2 DEF Base, Shape, Sized
    <3>4. x.gdb.next <= r.w.gdb.next /\ r.w.gdb.next \in Nat
      BY <2>3, <3>1 DEF Goes, AllWorlds, Gdbs
    <3>5. k \in 1 .. setting.numbers /\ k < r.w.gdb.next
      BY <3>2, <3>3, <3>4 DEF k
    <3>6. v \in DropBreakpoint(r.w, k, f)
      BY <1>4, <1>t, <2>5
    <3>7. k \in 1 .. setting.numbers
      BY <3>5
    <3>8. ~f /\ Tame(setting, r.w) => k < r.w.gdb.next
      BY <3>5
    <3>9. KeptBut(setting, v, K, S)
      BY <1>b, <2>3, <2>g, <3>6, <3>7, <3>8, DropKept
    <3>10. KeptBut(setting, v, S, S)
      BY <1>b, <3>9, KeptLess
    <3> QED
      BY <1>k, <3>10
  <2> QED
    BY <2>4, <2>5
<1> QED
  BY <1>2, <1>3, <1>4 DEF ExecRunToIs, k

\* and to type at the console.
LEMMA ConsoleExecKept ==
    ASSUME NEW w, NEW cmd, Base(setting, w), Kept(w), Fit(setting, w, cmd), cmd.typed, cmd.wish,
           "typed" \in setting.kinds, NEW v \in ConsoleExec(w, cmd)
    PROVE  Kept(v)
<1> DEFINE S == {}
<1>1. PICK r \in Send(w, cmd) :
         \/ r.w.st.runState = "running" /\ v = r.w
         \/ r.w.st.runState # "running" /\ v \in Reconcile(r.w)
  BY ConsoleExecIs DEF ConsoleIs
<1>2. Unanswered(cmd, FALSE)
  BY DEF Unanswered
<1>3. Base(setting, r.w)
  BY <1>2, SendBase
<1>4. Keeping(setting, w, cmd, S)
  BY DEF Keeping, Careless
<1>5. KeptBut(setting, w, S, S)
  BY DEF Kept
<1>6. Legit(setting, cmd) /\ Fit(setting, w, cmd)
  BY DEF Fit
<1>f. PICK f \in BOOLEAN : f = FALSE
  OBVIOUS
<1> HIDE DEF S
<1>7. ASSUME r.w = Execute(w, cmd, f)
      PROVE  KeptBut(setting, r.w, S, S)
  BY <1>4, <1>5, <1>6, <1>7, ExecuteKept
<1>8. ASSUME Left(w, cmd, r.w)
      PROVE  KeptBut(setting, r.w, S, S)
  BY <1>4, <1>5, <1>6, <1>8, LeftKept
<1>9. r.w = Execute(w, cmd, f) \/ Left(w, cmd, r.w)
  BY <1>f, SendIs DEF Succeeds, Fails
<1>10. KeptBut(setting, r.w, S, S)
  BY <1>7, <1>8, <1>9
<1>11. Kept(r.w)
  BY <1>10 DEF Kept, S
<1> QED
  BY <1>1, <1>3, <1>11, ReconcileKept

\* A wish that a new breakpoint serves needs no exception any more.
LEMMA Discharged ==
    ASSUME NEW s, NEW w, NEW k \in DOMAIN w.gdb.table, NEW T, NEW R, KeptBut(s, w, {}, T),
           Tame(s, w) => k \notin Doomed(w),
           w.gdb.table[k].enabled = TRUE,
           ~Careless(s) => \A u \in w.wanted : u.enabled = TRUE,
           \A a \in T : a = w.gdb.table[k].tag \/ a \in R
    PROVE  KeptBut(s, w, {}, R)
<1> SUFFICES ASSUME NEW u \in w.wanted
             PROVE  /\ u.tag # 0
                    /\ Tame(s, w) =>
                          u.tag \in R \/ \E n \in DOMAIN w.gdb.table : Serves(s, w, n, u)
  BY DEF KeptBut
<1>1. /\ u.tag # 0
      /\ Tame(s, w) => u.tag \in T \/ \E n \in DOMAIN w.gdb.table : Serves(s, w, n, u)
  BY DEF KeptBut
<1>2. ASSUME Tame(s, w), u.tag = w.gdb.table[k].tag
      PROVE  Serves(s, w, k, u)
  BY <1>2 DEF Serves
<1> QED
  BY <1>1, <1>2

\* Where the loop that restores the old mirror stands.
Restoring(mirror, v, j) ==
    /\ Base(setting, v)
    /\ KeptBut(setting, v, {}, {mirror[m].tag : m \in {x \in Restorable(mirror) : x > j}})
    /\ ~Careless(setting) => \A u \in v.wanted : u.enabled = TRUE

\* A breakpoint restored serves its wish again, or the wish is dropped; then one
\* less is owed.
LEMMA RestoreOneKept ==
    ASSUME NEW w, NEW old \in Bps, Base(setting, w), NEW T, NEW R, KeptBut(setting, w, {}, T),
           ~Careless(setting) => \A u \in w.wanted : u.enabled = TRUE,
           \A a \in T : a = old.tag \/ a \in R,
           NEW v \in RestoreOne(w, old)
    PROVE  /\ KeptBut(setting, v, {}, R)
           /\ ~Careless(setting) => \A u \in v.wanted : u.enabled = TRUE
<1> DEFINE bp == RestoredBp(w, old)
           k == w.gdb.next
           S == {}
<1>1. /\ Showable(bp)
      /\ \/ InsertOk(w, Inserting("insert", bp, TRUE), v)
         \/ \E x : InsertFails(w, "insert", bp, TRUE, x) /\ v = Unwished(x, old.tag)
  BY RestoreOneIs
<1>b. bp.tag = old.tag /\ bp.enabled = TRUE
  BY DEF RestoredBp, Breakpoint
<1>t. PICK f \in BOOLEAN : f = TRUE
  OBVIOUS
<1>v. PICK verb \in {"insert", "insertNow"} : verb = "insert"
  OBVIOUS
<1>w. Wishing(setting, w, bp, f, S)
  BY <1>b DEF Wishing
<1>s. KeptBut(setting, w, S, T)
  OBVIOUS
<1>0. w \in AllWorlds
  BY DEF Base, Shape
<1> HIDE DEF bp, S
<1>2. CASE InsertOk(w, Inserting("insert", bp, TRUE), v)
  <2>1. InsertOk(w, Inserting(verb, bp, f), v)
    BY <1>2, <1>t, <1>v
  <2>2. KeptBut(setting, v, S, T)
    BY <1>1, <1>s, <1>w, <2>1, InsertOkKept
  <2> DEFINE made == Made(w, Inserting(verb, bp, f))
  <2>3. /\ made.tag = old.tag
        /\ made.enabled = TRUE
        /\ Put(v.gdb.table, w.gdb.table, k, made)
        /\ SameStatus(v.gdb, w.gdb)
        /\ v.wanted = Wished(w, old.tag, f)
    <3>1. bp \in Bps
      BY <1>1 DEF Showable
    <3>2. /\ Alike(made, bp)
          /\ made.enabled = bp.enabled
          /\ Put(v.gdb.table, w.gdb.table, k, made)
          /\ SameStatus(v.gdb, w.gdb)
          /\ v.wanted = Wished(w, bp.tag, f)
      BY <1>0, <2>1, <3>1, InsertOkPuts
    <3> QED
      BY <1>b, <3>2 DEF Alike
  <2> HIDE DEF made, k
  <2>4. k \in DOMAIN v.gdb.table /\ v.gdb.table[k] = made
    BY <2>3 DEF Put
  <2>5. Tame(setting, v) => k \notin Doomed(v)
    <3>1. Tame(setting, w) => k \notin Doomed(w)
      BY NextFree DEF k
    <3> QED
      BY <2>3, <3>1 DEF Tame, SameStatus, Doomed
  <2>6. ~Careless(setting) => \A u \in v.wanted : u.enabled = TRUE
    <3>1. \A u \in v.wanted : u \in w.wanted \/ u = [tag |-> old.tag, enabled |-> TRUE]
      BY <2>3 DEF Wished
    <3> QED
      BY <3>1
  <2>7. KeptBut(setting, v, {}, R)
    <3>1. KeptBut(setting, v, {}, T)
      BY <2>2 DEF S
    <3>2. v.gdb.table[k].tag = old.tag /\ v.gdb.table[k].enabled = TRUE
      BY <2>3, <2>4
    <3>3. \A a \in T : a = v.gdb.table[k].tag \/ a \in R
      BY <3>2
    <3> QED
      BY <2>4, <2>5, <2>6, <3>1, <3>2, <3>3, Discharged
  <2> QED
    BY <2>6, <2>7
<1>3. ASSUME NEW x, InsertFails(w, "insert", bp, TRUE, x), v = Unwished(x, old.tag)
      PROVE  /\ KeptBut(setting, v, {}, R)
             /\ ~Careless(setting) => \A u \in v.wanted : u.enabled = TRUE
  <2>1. InsertFails(w, verb, bp, f, x)
    BY <1>3, <1>t, <1>v
  <2>2. x \in AllWorlds
    BY <1>1, <2>1, InsertFailsIs DEF Base, Shape
  <2>3. v.gdb = x.gdb /\ v.wanted = {u \in x.wanted : u.tag # old.tag}
    BY <1>3, <2>2, UnwishedIs
  <2>4. KeptBut(setting, x, S, T)
    BY <1>1, <1>s, <1>w, <2>1, InsertFailsKept
  <2>5. ~Careless(setting) => x = w
    BY <2>1 DEF InsertFails, Left, Careless
  <2>6. KeptBut(setting, v, {}, R)
    <3> SUFFICES ASSUME NEW u \in v.wanted
                 PROVE  /\ u.tag # 0
                        /\ Tame(setting, v) => u.tag \in R \/ \E n \in DOMAIN v.gdb.table :
                                                                 Serves(setting, v, n, u)
      BY DEF KeptBut
    <3>1. u \in x.wanted /\ u.tag # old.tag
      BY <2>3
    <3>2. /\ u.tag # 0
          /\ Tame(setting, x) => u.tag \in T \/ \E n \in DOMAIN x.gdb.table :
                                                   Serves(setting, x, n, u)
      BY <2>4, <3>1 DEF KeptBut
    <3>3. Tame(setting, v) => Tame(setting, x)
      BY <2>3 DEF Tame
    <3>4. \A n : Serves(setting, x, n, u) => Serves(setting, v, n, u)
      BY <2>3 DEF Serves, Doomed
    <3> QED
      BY <2>3, <3>1, <3>2, <3>3, <3>4
  <2>7. ~Careless(setting) => \A u \in v.wanted : u.enabled = TRUE
    BY <2>3, <2>5
  <2> QED
    BY <2>6, <2>7
<1> QED
  BY <1>1, <1>2, <1>3

\* After all of them none is owed.
LEMMA RestoreKept ==
    ASSUME NEW w, NEW mirror \in Tables, \A n \in Restorable(mirror) : n \in 1 .. setting.numbers,
           Restoring(mirror, w, 0), NEW v \in Restore(w, mirror)
    PROVE  Kept(v)
<1> DEFINE N == setting.numbers
           Q == [j \in 0 .. N |-> {u \in AllWorlds : Restoring(mirror, u, j)}]
           Left0(j) == {mirror[m].tag : m \in {x \in Restorable(mirror) : x > j}}
<1>n. N \in Nat
  BY DEF Restoring, Base, Shape, Sized
<1>q. ASSUME NEW j \in 0 .. N, NEW u, Restoring(mirror, u, j)
      PROVE  u \in Q[j]
  BY <1>q DEF Restoring, Base, Shape
<1>r. ASSUME NEW j \in 0 .. N, NEW u \in Q[j]
      PROVE  Restoring(mirror, u, j)
  OBVIOUS
<1>j. /\ 0 \in 0 .. N
      /\ N \in 0 .. N
      /\ \A n \in 1 .. N : n \in 0 .. N /\ n - 1 \in 0 .. N
  BY <1>n
<1>i. ASSUME NEW j, NEW u
      PROVE  Restoring(mirror, u, j) <=>
                /\ Base(setting, u)
                /\ KeptBut(setting, u, {}, Left0(j))
                /\ ~Careless(setting) => \A a \in u.wanted : a.enabled = TRUE
  BY DEF Restoring
<1>l. ASSUME NEW n \in 1 .. N
      PROVE  \A a \in Left0(n - 1) :
                a \in Left0(n) \/ (n \in Restorable(mirror) /\ a = mirror[n].tag)
  <2>1. \A x \in Restorable(mirror) : x \in Nat
    BY <1>n
  <2>2. \A x \in Restorable(mirror) : x > n - 1 => x > n \/ x = n
    BY <1>n, <2>1
  <2> QED
    BY <2>2
<1>e. Left0(N) = {}
  BY <1>n
<1> HIDE DEF Q, Left0
<1>1. w \in Q[0]
  BY <1>j, <1>q
<1>2. ASSUME NEW n \in 1 .. N, n \in Restorable(mirror), NEW u \in Q[n - 1]
      PROVE  RestoreOne(u, mirror[n]) \subseteq Q[n]
  <2> SUFFICES ASSUME NEW x \in RestoreOne(u, mirror[n])
               PROVE  x \in Q[n]
    OBVIOUS
  <2> DEFINE old == mirror[n]
             T == Left0(n - 1)
             R == Left0(n)
  <2>1. Restoring(mirror, u, n - 1)
    BY <1>j, <1>r
  <2>2. /\ Base(setting, u)
        /\ KeptBut(setting, u, {}, T)
        /\ ~Careless(setting) => \A a \in u.wanted : a.enabled = TRUE
    BY <1>i, <2>1
  <2>3. old \in Bps
    BY <1>2, TableBp DEF Restorable
  <2>4. \A a \in T : a = old.tag \/ a \in R
    BY <1>l
  <2>5. x \in RestoreOne(u, old)
    OBVIOUS
  <2> HIDE DEF old, T, R
  <2>6. /\ KeptBut(setting, x, {}, R)
        /\ ~Careless(setting) => \A a \in x.wanted : a.enabled = TRUE
    BY <2>2, <2>3, <2>4, <2>5, RestoreOneKept
  <2>7. Base(setting, x)
    BY <2>2, <2>3, <2>5, RestoreOneBase
  <2>8. Restoring(mirror, x, n)
    BY <1>i, <2>6, <2>7 DEF R
  <2> QED
    BY <1>j, <1>q, <2>8
<1>3. ASSUME NEW n \in 1 .. N, n \notin Restorable(mirror), NEW u \in Q[n - 1]
      PROVE  u \in Q[n]
  <2>1. Restoring(mirror, u, n - 1)
    BY <1>j, <1>r
  <2> DEFINE T == Left0(n - 1)
             R == Left0(n)
  <2>2. \A a \in T : a \in R
    BY <1>3, <1>l
  <2>3. KeptBut(setting, u, {}, T)
    BY <1>i, <2>1
  <2>4. KeptBut(setting, u, {}, R)
    <3> HIDE DEF T, R
    <3> QED
      BY <2>2, <2>3 DEF KeptBut
  <2>5. Restoring(mirror, u, n)
    BY <1>i, <2>1, <2>4
  <2> QED
    BY <1>j, <1>q, <2>5
<1>4. Restore(w, mirror) \subseteq Q[N]
  BY <1>n, <1>1, <1>2, <1>3, RestoreLoop
<1>5. Restoring(mirror, v, N)
  BY <1>j, <1>r, <1>4
<1>6. KeptBut(setting, v, {}, Left0(N))
  BY <1>i, <1>5
<1> QED
  BY <1>6, <1>e DEF Kept

\* So RestartGDB keeps the wishes it restores served.
LEMMA RestartKept ==
    ASSUME NEW w, Base(setting, w), Kept(w), NEW v \in RestartGDB(w)
    PROVE  Kept(v)
<1> DEFINE fresh == Fresh(w, QueuedIn(setting, w))
           old == w.st.mirror
<1>0. w \in AllWorlds /\ old \in Tables /\ QueuedIn(setting, w) \in SUBSET Nat
  BY DEF Base, Shape, Sized, AllWorlds, Mirrors, QueuedIn
<1>1. \/ v = w
      \/ v = fresh
      \/ \E r \in ExeLoad(fresh) :
             \/ ~r.ok /\ v = r.w
             \/ r.ok /\ v \in Restore(Owing(r.w, Lines(w)), old)
  BY RestartGDBIs DEF RestartIs
<1>2. Base(setting, fresh) /\ fresh.wanted = {}
  BY <1>0, FreshBase, FreshIs
<1> HIDE DEF fresh
<1>3. Kept(fresh)
  BY <1>2 DEF Kept, KeptBut
<1>4. ASSUME NEW r \in ExeLoad(fresh)
      PROVE  Base(setting, r.w) /\ Kept(r.w)
  BY <1>2, <1>3, ExeLoadBase, ExeLoadKept
<1>5. ASSUME NEW r \in ExeLoad(fresh), v \in Restore(Owing(r.w, Lines(w)), old)
      PROVE  Kept(v)
  <2> DEFINE x == Owing(r.w, Lines(w))
  <2>1. Lines(w) \in SUBSET Wishes /\ r.w \in AllWorlds
    <3>1. Base(setting, r.w)
      BY <1>4
    <3> QED
      BY <1>0, <3>1 DEF Lines, Base, Shape, AllWorlds
  <2>2. /\ x \in AllWorlds
        /\ x.st = r.w.st
        /\ x.gdb = r.w.gdb
        /\ x.intake = r.w.intake
        /\ x.adrift = r.w.adrift
        /\ x.wanted = {[u EXCEPT !.enabled = TRUE] : u \in Lines(w)}
    BY <2>1, OwingIs
  <2>3. v \in Restore(x, old)
    BY <1>5
  <2> HIDE DEF x
  <2>4. Base(setting, x)
    BY <1>4, <2>2, ActorBase
  <2>5. ASSUME NEW u \in x.wanted
        PROVE  /\ u.enabled = TRUE
               /\ u.tag # 0
               /\ \E n \in Restorable(old) : old[n].tag = u.tag
    <3>1. PICK o \in Lines(w) : u = [o EXCEPT !.enabled = TRUE]
      BY <2>2
    <3>2. o \in Wishes /\ o \in w.wanted /\ \E n \in Restorable(old) : old[n].tag = o.tag
      BY <2>1 DEF Lines
    <3>3. u.tag = o.tag /\ u.enabled = TRUE
      BY <3>1, <3>2 DEF Wishes
    <3>4. o.tag # 0
      BY <3>2 DEF Kept, KeptBut
    <3> QED
      BY <3>2, <3>3, <3>4
  <2>6. \A n \in Restorable(old) : n \in 1 .. setting.numbers
    BY DEF Restorable, Base, Shape, Sized
  <2>7. \A n \in Restorable(old) : n > 0
    BY <2>6 DEF Base, Shape, Sized
  <2>8. Restoring(old, x, 0)
    <3>1. \A u \in x.wanted :
             u.tag \in {old[m].tag : m \in {n \in Restorable(old) : n > 0}}
      BY <2>5, <2>7
    <3>2. KeptBut(setting, x, {}, {old[m].tag : m \in {n \in Restorable(old) : n > 0}})
      BY <2>5, <3>1 DEF KeptBut
    <3> QED
      BY <2>4, <2>5, <3>2 DEF Restoring
  <2> HIDE DEF old
  <2> QED
    BY <1>0, <2>3, <2>6, <2>8, RestoreKept
<1> QED
  BY <1>1, <1>3, <1>4, <1>5

\* Every request keeps wishes served,
LEMMA RequestKept ==
    ASSUME NEW w, Base(setting, w), Kept(w), NEW v, RequestIs(w, v)
    PROVE  Kept(v)
<1>1. ASSUME NEW place \in Places, NEW temporary \in BOOLEAN, NEW tag \in Nat,
             tag # 0 => ~temporary, v \in BpSet(IssuedState(w), place, temporary, tag)
      PROVE  Kept(v)
  <2> DEFINE x == IssuedState(w)
  <2>1. OnlyStatus(w, x)
    BY IssuedStateIs DEF Base, Shape
  <2> HIDE DEF x
  <2>2. Base(setting, x) /\ Kept(x)
    BY <2>1, StatusBase, StatusKept
  <2> QED
    BY <1>1, <2>2, BpSetKept DEF x, Places
<1>2. ASSUME NEW n \in 1 .. setting.numbers, v \in DropBreakpoint(w, n, TRUE)
      PROVE  Kept(v)
  BY <1>2, BpDeleteKept
<1>3. ASSUME NEW n \in 1 .. setting.numbers, NEW on \in BOOLEAN, v \in BpSetEnabled(w, n, on)
      PROVE  Kept(v)
  BY <1>3, BpSetEnabledKept
<1>4. CASE v \in Reconcile(w)
  BY <1>4, ReconcileKept
<1>5. ASSUME NEW r \in ExeLoad(w), v = r.w
      PROVE  Kept(v)
  BY <1>5, ExeLoadKept
<1>6. ASSUME NEW verb \in RunVerbs, NEW r \in Run(w, verb), v = r.w
      PROVE  Kept(v)
  BY <1>6, RunKept
<1>7. ASSUME NEW place \in Places, v \in ExecRunTo(w, place)
      PROVE  Kept(v)
  BY <1>7, ExecRunToKept
<1>8. ASSUME NEW r \in Continue(w), v = r.w
      PROVE  Kept(v)
  BY <1>8, ContinueKept
<1> QED
  BY <1>1, <1>2, <1>3, <1>4, <1>5, <1>6, <1>7, <1>8 DEF RequestIs

\* what is typed and a restart do,
LEMMA OtherKept ==
    ASSUME NEW w, Base(setting, w), Kept(w), NEW v, OtherIs(w, v)
    PROVE  Kept(v)
<1>1. ASSUME NEW verb \in {"insert", "delete", "enable"}, NEW n \in Nat, NEW bp \in Bps,
             "typed" \in setting.kinds, verb = "insert" => bp.by = "typed" /\ bp.tag = 0,
             verb # "insert" => n \in 1 .. setting.numbers, bp.place # "name",
             v \in ConsoleExec(w, TypedAs(verb, n, bp))
      PROVE  Kept(v)
  <2> DEFINE cmd == TypedAs(verb, n, bp)
  <2>1. Fit(setting, w, cmd) /\ cmd.typed /\ cmd.wish
    <3>1. /\ "typed" \in setting.kinds
          /\ verb = "insert" => bp.by = "typed" /\ bp.tag = 0
          /\ verb # "insert" => n \in 1 .. setting.numbers
          /\ bp.place # "name"
      BY <1>1
    <3> HIDE <1>1
    <3>2. Fit(setting, w, cmd)
      BY <3>1, TypedFits
    <3>3. cmd.typed /\ cmd.wish
      BY DEF TypedAs, Command
    <3> QED
      BY <3>2, <3>3
  <2> HIDE DEF cmd
  <2> QED
    BY <1>1, <2>1, ConsoleExecKept DEF cmd
<1> QED
  BY <1>1, RestartKept DEF OtherIs

\* A command gdb executes late.
LEMMA LateKept ==
    ASSUME NEW w, Base(setting, w), Kept(w), w.gdb.late # <<>>,
           NEW v, v = Execute(Popped(w), Head(w.gdb.late), TRUE)
    PROVE  Kept(v)
<1> DEFINE x == Popped(w)
           q == w.gdb.late
           cmd == Head(q)
           D == {m \in {cmd.n} : cmd.verb = "delete" /\ ~cmd.wish}
           T == {}
<1>0. w \in AllWorlds /\ w.gdb \in Gdbs
  BY DEF Base, Shape, AllWorlds
<1>1. /\ x \in AllWorlds
      /\ x.wanted = w.wanted
      /\ x.gdb = [w.gdb EXCEPT !.late = Tail(q)]
      /\ cmd \in Commands
      /\ 1 \in 1 .. Len(q) /\ q[1] = cmd
      /\ \A i \in 1 .. Len(Tail(q)) : i + 1 \in 1 .. Len(q) /\ Tail(q)[i] = q[i + 1]
  BY <1>0, PoppedIs
<1>2. Base(setting, x) /\ Legit(setting, cmd) /\ setting.late # 0
  BY PoppedBase
<1>t. PICK f \in BOOLEAN : f = TRUE
  OBVIOUS
<1>3. v = Execute(x, cmd, f)
  BY <1>t
<1> HIDE DEF x, q, cmd
<1>4. /\ x.gdb.table = w.gdb.table
      /\ x.gdb.inherited = w.gdb.inherited
      /\ x.gdb.late = Tail(q)
  BY <1>0, <1>1 DEF Gdbs
<1>5. \A n \in Doomed(x) : n \in Doomed(w)
  BY <1>1, <1>4 DEF Doomed, q
<1>6. \A n \in D : n \in Doomed(w)
  BY <1>1 DEF Doomed, Commands, q
<1>7. KeptBut(setting, x, D, T)
  <2> HIDE DEF D
  <2> QED
    BY <1>1, <1>4, <1>5, <1>6 DEF Kept, KeptBut, Serves, Tame
<1>8. Keeping(setting, x, cmd, D)
  BY <1>2 DEF Keeping, Careless
<1>9. {} \subseteq D
  OBVIOUS
<1> HIDE DEF D, T
<1>10. KeptBut(setting, v, D, T)
  BY <1>2, <1>3, <1>7, <1>8, ExecuteKept
<1>11. KeptBut(setting, v, {}, T)
  BY <1>9, <1>10, KeptLess
<1> QED
  BY <1>11 DEF Kept, T

\* and so do records and what happens by itself.
LEMMA EventKept ==
    ASSUME NEW w, Base(setting, w), Kept(w), NEW v, EventIs(w, v)
    PROVE  Kept(v)
<1> DEFINE S == {}
<1>0. w \in AllWorlds
  BY DEF Base, Shape
<1>k. \A x : Kept(x) <=> KeptBut(setting, x, S, S)
  BY DEF Kept
<1>s. \A n \in S : FALSE
  OBVIOUS
<1> HIDE DEF S
<1>b. KeptBut(setting, w, S, S)
  BY <1>k
<1>1. CASE w.intake # <<>> /\ OnRecordIs(w, v)
  BY <1>1, OnRecordKept
<1>2. CASE v = Pause(w) \/ v = Exit(w)
  BY <1>0, <1>2, <1>b, <1>k, PauseKept
<1>3. ASSUME NEW n \in 1 .. setting.numbers, CanHit(w.gdb, n), v = Hit(w, n)
      PROVE  Kept(v)
  <2>1. n \in DOMAIN w.gdb.table
    BY <1>3 DEF CanHit
  <2>2. KeptBut(setting, Hit(w, n), S, S)
    BY <1>b, <2>1, HitKept
  <2> QED
    BY <1>3, <1>k, <2>2
<1>4. CASE w.gdb.late # <<>> /\ v = Execute(Popped(w), Head(w.gdb.late), TRUE)
  BY <1>4, LateKept
<1>5. CASE v = Dead(w)
  <2>1. /\ v.wanted = w.wanted
        /\ v.gdb.table = w.gdb.table
        /\ v.gdb.inherited = w.gdb.inherited
        /\ v.gdb.late = <<>>
    BY <1>0, <1>5, DeadIs
  <2>2. Doomed(v) = {}
    BY <2>1 DEF Doomed
  <2>3. Steady(setting, w, v, S)
    BY <2>1, <2>2 DEF Steady
  <2> QED
    BY <1>b, <1>k, <2>3, SteadyKept
<1>6. CASE v = LoadLibrary(w)
  BY <1>6, <1>b, <1>k, LibraryKept
<1> QED
  BY <1>1, <1>2, <1>3, <1>4, <1>5, <1>6 DEF EventIs

\* So does every step.
LEMMA StepKept ==
    ASSUME NEW w, Base(setting, w), Kept(w), NEW v, StepIs(w, v)
    PROVE  Kept(v)
BY RequestKept, OtherKept, EventKept DEF StepIs

IKept == IBase /\ Kept(World)

\* Nobody has asked for anything at first,
LEMMA InitKept == Init => IKept
<1> SUFFICES ASSUME Init
             PROVE  IKept
  OBVIOUS
<1>1. World.wanted = {}
  BY DEF Init, World
<1>2. Kept(World)
  BY <1>1 DEF Kept, KeptBut
<1> QED
  BY <1>2, InitBase DEF IKept

\* and every step keeps wishes served.
LEMMA NextKept == IKept /\ [Next]_vars => IKept'
<1> SUFFICES ASSUME IKept, [Next]_vars
             PROVE  IKept'
  OBVIOUS
<1>b. Base(setting, World) /\ Kept(World) /\ IBase'
  BY NextBase DEF IKept, IBase
<1>k. Kept(World) <=> KeptBut(setting, World, {}, {})
  BY DEF Kept
<1>p. Kept(World)' <=> KeptBut(setting', World', {}, {})
  BY DEF Kept
<1>1. CASE Next
  <2>1. World \in AllWorlds /\ setting.numbers \in Nat
    BY <1>b DEF Base, Shape, Sized
  <2>2. PICK v : StepIs(World, v) /\ Become(v)
    BY <1>1, <2>1, NextIs
  <2>3. Base(setting, v) /\ Kept(v)
    BY <1>b, <2>2, StepBase, StepKept
  <2>4. v \in AllWorlds
    BY <2>3 DEF Base, Shape
  <2>5. World' = v /\ setting' = setting
    BY <2>2, <2>4, BecomeIs
  <2>6. KeptBut(setting, v, {}, {})
    BY <2>3 DEF Kept
  <2>7. KeptBut(setting', World', {}, {})
    BY <2>5, <2>6
  <2> QED
    BY <1>b, <1>p, <2>7 DEF IKept
<1>2. CASE UNCHANGED vars
  <2>1. World' = World /\ setting' = setting
    BY <1>2 DEF vars, World
  <2>2. KeptBut(setting', World', {}, {})
    BY <1>b, <1>k, <2>1
  <2> QED
    BY <1>b, <1>p, <2>2 DEF IKept
<1> QED
  BY <1>1, <1>2

\* What a user asked for and has not taken back is served by a breakpoint of
\* gdb's that no command still to be executed will delete unasked.
THEOREM KeptHolds == Spec => []IKept
BY InitKept, NextKept, PTL DEF Spec

\* A wish that is served is the property, and enabled as the user said unless
\* commands are late or typed.
LEMMA KeptServes == IKept => UsersBreakpointsKept
<1> SUFFICES ASSUME IKept, gdb.up, Asked("typed") => gdb.inherited = {}, NEW u \in wanted
             PROVE  \E n \in DOMAIN gdb.table :
                        /\ gdb.table[n].tag = u.tag
                        /\ \/ gdb.table[n].enabled = u.enabled
                           \/ setting.late > 0 \/ Asked("typed")
  BY DEF UsersBreakpointsKept
<1> DEFINE w == World
<1>0. w.gdb = gdb /\ w.wanted = wanted
  BY DEF World
<1>1. Kept(w) /\ setting.late \in Nat
  BY DEF IKept, IBase, Base, Shape, Sized
<1> HIDE DEF w
<1>2. Tame(setting, w)
  BY <1>0 DEF Tame, Asked
<1>3. PICK n \in DOMAIN gdb.table : Serves(setting, w, n, u)
  BY <1>0, <1>1, <1>2 DEF Kept, KeptBut
<1>4. /\ gdb.table[n].tag = u.tag
      /\ gdb.table[n].enabled = u.enabled \/ Careless(setting)
  BY <1>0, <1>3 DEF Serves
<1>5. Careless(setting) => setting.late > 0 \/ Asked("typed")
  BY <1>1 DEF Careless, Asked
<1> QED
  BY <1>4, <1>5

\* A breakpoint a user asked for and has not taken back is in gdb's table, enabled
\* as the user said: bpSet, bpDelete, bpSetEnabled and the placement of deferred
\* ones lose none, and restartGDB none on a line gdb had found (session.go:944
\* skips the others, which are no longer wanted of the new gdb).
THEOREM UsersBreakpointsKeptHolds == Spec => []UsersBreakpointsKept
BY KeptHolds, KeptServes, PTL
-----------------------------------------------------------------------------
(* What a run-to leaves, and what waits for the program to be mapped, when *)
(* gdb answers in time.                                                    *)

\* When no command is late, one that failed did nothing.
LEMMA LeftInTime ==
    ASSUME NEW w, NEW cmd, NEW v, setting.late = 0, Left(w, cmd, v)
    PROVE  v = w
BY DEF Left

\* A run-to of when the resumes stood at a is in gdb's table, shown, or told of.
Aimed(w, a) ==
    \/ \E n \in DOMAIN w.gdb.table : w.gdb.table[n].by = "runTo" /\ w.gdb.table[n].at = a
    \/ \E n \in DOMAIN w.st.mirror : w.st.mirror[n].by = "runTo" /\ w.st.mirror[n].at = a
    \/ \E i \in 1 .. Len(w.intake) : w.intake[i].bp.by = "runTo" /\ w.intake[i].bp.at = a

\* No run-to is more.
Narrows(w, v) == \A a : Aimed(v, a) => Aimed(w, a)

\* n is on a name, from when the resumes stood at a.
NamedAt(w, n, a) ==
    n \in DOMAIN w.gdb.table /\ w.gdb.table[n].place = "name" /\ w.gdb.table[n].at = a

\* The process is what it was, nothing said of it; a breakpoint on a name is an
\* old one, or of this moment.
Later(w, v) ==
    /\ w \in AllWorlds
    /\ v \in AllWorlds
    /\ v.gdb.up = w.gdb.up
    /\ v.gdb.process = w.gdb.process
    /\ v.gdb.entry = w.gdb.entry
    /\ v.gdb.resumes = w.gdb.resumes
    /\ v.gdb.began = w.gdb.began
    /\ v.gdb.overtaken = w.gdb.overtaken
    /\ v.gdb.inherited = w.gdb.inherited
    /\ w.gdb.next <= v.gdb.next
    /\ v.st.runState = w.st.runState
    /\ v.st.deferred = w.st.deferred
    /\ v.st.missed = w.st.missed
    /\ Overtaken(v) => Overtaken(w)
    /\ \A n \in DOMAIN v.gdb.table : v.gdb.table[n].place = "name" =>
          \/ NamedAt(w, n, v.gdb.table[n].at)
          \/ v.gdb.table[n].at = w.gdb.resumes

\* No breakpoint on a name that was asked for before the process began, but those
\* the decompiler could not place.
Clear(s, w) ==
    w.gdb.next <= s.numbers /\ w.gdb.process # "none" /\ ~w.gdb.overtaken =>
        \A n \in DOMAIN w.gdb.table :
            n \notin w.gdb.inherited /\ n \notin w.st.missed /\ w.gdb.table[n].place = "name" =>
                w.gdb.began < w.gdb.table[n].at

\* What is known of a process.
Alive(w) ==
    /\ ~w.gdb.up => w.gdb.process = "none"
    /\ w.gdb.process # "none" => w.gdb.began < w.gdb.resumes
    /\ w.gdb.process # "none" /\ ~w.gdb.overtaken => ~Overtaken(w)

\* Such a one is left only while the process stands at its first instruction,
\* and the actor knows that it asked for that stop.
Waits(s, w) ==
    /\ Alive(w)
    /\ w.st.deferred # "none" => w.st.runState # "stopped"
    /\ Clear(s, w) \/ (w.gdb.entry /\ w.st.deferred # "none")

\* The counts are numbers, so that they can be compared.
LEMMA Counts ==
    ASSUME NEW w \in AllWorlds
    PROVE  /\ w.gdb.next \in Nat /\ w.gdb.resumes \in Nat /\ w.gdb.began \in Nat
           /\ \A n \in DOMAIN w.gdb.table : w.gdb.table[n] \in Bps /\ w.gdb.table[n].at \in Nat
<1>1. w.gdb.table \in Tables
  BY DEF AllWorlds, Gdbs
<1>2. \A n \in DOMAIN w.gdb.table : w.gdb.table[n] \in Bps
  BY <1>1, TableBp
<1> QED
  BY <1>2 DEF AllWorlds, Gdbs, Bps

\* What waits on a name past the first instruction stays as it was.
LEMMA LaterClear ==
    ASSUME NEW s, s.numbers \in Nat, NEW w, NEW v, Later(w, v), Clear(s, w),
           w.gdb.process # "none" => w.gdb.began < w.gdb.resumes
    PROVE  Clear(s, v)
<1> SUFFICES ASSUME v.gdb.next <= s.numbers, v.gdb.process # "none", ~v.gdb.overtaken,
                    NEW n \in DOMAIN v.gdb.table,
                    n \notin v.gdb.inherited, n \notin v.st.missed, v.gdb.table[n].place = "name"
             PROVE  v.gdb.began < v.gdb.table[n].at
  BY DEF Clear
<1>1. w.gdb.next <= s.numbers
  BY Counts DEF Later
<1>2. /\ v.gdb.began = w.gdb.began /\ w.gdb.process # "none" /\ ~w.gdb.overtaken
      /\ n \notin w.gdb.inherited /\ n \notin w.st.missed
  BY DEF Later
<1>3. CASE NamedAt(w, n, v.gdb.table[n].at)
  BY <1>1, <1>2, <1>3 DEF Clear, NamedAt
<1>4. CASE v.gdb.table[n].at = w.gdb.resumes
  BY <1>2, <1>4
<1> QED
  BY <1>3, <1>4 DEF Later

\* So does what is known of the process,
LEMMA LaterAlive ==
    ASSUME NEW w, NEW v, Later(w, v), Alive(w)
    PROVE  Alive(v)
BY DEF Later, Alive

\* and so what waits for a deferred start.
LEMMA LaterWaits ==
    ASSUME NEW s, s.numbers \in Nat, NEW w, NEW v, Later(w, v), Waits(s, w)
    PROVE  Waits(s, v)
<1>1. Clear(s, w) => Clear(s, v)
  BY LaterClear DEF Waits, Alive
<1>2. Alive(v)
  BY LaterAlive DEF Waits
<1> QED
  BY <1>1, <1>2 DEF Later, Waits

\* Steps behind one another.
LEMMA LaterOn ==
    ASSUME NEW w, NEW v, NEW u, Later(w, v), Later(v, u)
    PROVE  Later(w, u)
<1>1. w.gdb.next <= u.gdb.next
  BY Counts DEF Later
<1>2. ASSUME NEW n \in DOMAIN u.gdb.table, u.gdb.table[n].place = "name"
      PROVE  \/ NamedAt(w, n, u.gdb.table[n].at)
             \/ u.gdb.table[n].at = w.gdb.resumes
  BY <1>2 DEF Later, NamedAt
<1>3. Overtaken(u) => Overtaken(w)
  BY DEF Later
<1> QED
  BY <1>1, <1>2, <1>3 DEF Later

\* No run-to is made by steps that make none.
LEMMA NarrowsOn ==
    ASSUME NEW w, NEW v, NEW u, Narrows(w, v), Narrows(v, u)
    PROVE  Narrows(w, u)
BY DEF Narrows

\* Moves that leave the queue.
LEMMA LaterBy ==
    ASSUME NEW w \in AllWorlds, NEW v \in AllWorlds, SameStatus(v.gdb, w.gdb),
           v.st.runState = w.st.runState, v.st.deferred = w.st.deferred,
           v.st.missed = w.st.missed, w.gdb.next <= v.gdb.next, v.intake = w.intake,
           \A n \in DOMAIN v.gdb.table : v.gdb.table[n].place = "name" =>
              \/ NamedAt(w, n, v.gdb.table[n].at)
              \/ v.gdb.table[n].at = w.gdb.resumes
    PROVE  Later(w, v)
BY DEF Later, SameStatus, Overtaken

\* A step that leaves the queue, and whose tables hold no new run-to, makes
\* none.
LEMMA NarrowsBy ==
    ASSUME NEW w, NEW v, v.intake = w.intake,
           \A n \in DOMAIN v.gdb.table : v.gdb.table[n].by = "runTo" => Aimed(w, v.gdb.table[n].at),
           \A n \in DOMAIN v.st.mirror : v.st.mirror[n].by = "runTo" => Aimed(w, v.st.mirror[n].at)
    PROVE  Narrows(w, v)
<1>1. \A i \in 1 .. Len(v.intake) : v.intake[i].bp.by = "runTo" => Aimed(w, v.intake[i].bp.at)
  BY DEF Aimed
<1> QED
  BY <1>1 DEF Narrows, Aimed

\* What is found in w is aimed there.
LEMMA AimedIn ==
    ASSUME NEW w
    PROVE  /\ \A n \in DOMAIN w.gdb.table :
                 w.gdb.table[n].by = "runTo" => Aimed(w, w.gdb.table[n].at)
           /\ \A n \in DOMAIN w.st.mirror :
                 w.st.mirror[n].by = "runTo" => Aimed(w, w.st.mirror[n].at)
BY DEF Aimed

\* A change of the run state makes none.
LEMMA StatusNarrows ==
    ASSUME NEW w, NEW v, OnlyStatus(w, v)
    PROVE  Narrows(w, v)
BY DEF Narrows, Aimed, OnlyStatus

\* A breakpoint made.
LEMMA InsertOkLater ==
    ASSUME NEW w \in AllWorlds, NEW verb \in {"insert", "insertNow"}, NEW bp \in Bps,
           NEW wish \in BOOLEAN, NEW v, InsertOk(w, Inserting(verb, bp, wish), v),
           bp.place = "name" => bp.at = w.gdb.resumes
    PROVE  /\ Later(w, v)
           /\ (bp.by = "runTo" => Aimed(w, bp.at)) => Narrows(w, v)
<1> DEFINE k == w.gdb.next
           made == Made(w, Inserting(verb, bp, wish))
<1>1. /\ v \in AllWorlds
      /\ k \in Nat
      /\ v.gdb.next = k + 1
      /\ Alike(made, bp)
      /\ Put(v.gdb.table, w.gdb.table, k, made)
      /\ Put(v.st.mirror, w.st.mirror, k, made)
      /\ SameStatus(v.gdb, w.gdb)
      /\ SameActor(v.st, w.st)
      /\ v.intake = w.intake
  BY InsertOkPuts
<1> HIDE DEF made
<1>2. w.gdb.next <= v.gdb.next
  <2>1. k \in Nat /\ v.gdb.next = k + 1
    BY <1>1
  <2> QED
    BY <2>1
<1> HIDE DEF k
<1>3. ASSUME NEW n \in DOMAIN v.gdb.table, v.gdb.table[n].place = "name"
      PROVE  \/ NamedAt(w, n, v.gdb.table[n].at)
             \/ v.gdb.table[n].at = w.gdb.resumes
  BY <1>1, <1>3 DEF Put, Alike, NamedAt
<1>4. Later(w, v)
  BY <1>1, <1>2, <1>3, LaterBy DEF SameActor
<1>5. ASSUME bp.by = "runTo" => Aimed(w, bp.at)
      PROVE  Narrows(w, v)
  <2>1. ASSUME NEW n \in DOMAIN v.gdb.table, v.gdb.table[n].by = "runTo"
        PROVE  Aimed(w, v.gdb.table[n].at)
    BY <1>1, <1>5, <2>1, AimedIn DEF Put, Alike
  <2>2. ASSUME NEW n \in DOMAIN v.st.mirror, v.st.mirror[n].by = "runTo"
        PROVE  Aimed(w, v.st.mirror[n].at)
    BY <1>1, <1>5, <2>2, AimedIn DEF Put, Alike
  <2> QED
    BY <1>1, <2>1, <2>2, NarrowsBy
<1> QED
  BY <1>4, <1>5

\* A breakpoint dropped.
LEMMA DropOkLater ==
    ASSUME NEW w \in AllWorlds, NEW n \in Nat, NEW wish \in BOOLEAN, NEW v,
           DropOk(w, n, wish, v)
    PROVE  Later(w, v) /\ Narrows(w, v)
<1>1. /\ v \in AllWorlds
      /\ v.gdb.next = w.gdb.next
      /\ Cut(v.gdb.table, w.gdb.table, n)
      /\ Cut(v.st.mirror, w.st.mirror, n)
      /\ SameStatus(v.gdb, w.gdb)
      /\ SameActor(v.st, w.st)
      /\ v.intake = w.intake
  BY DropOkCuts
<1>2. w.gdb.next <= v.gdb.next
  BY <1>1, Counts
<1>3. \A m \in DOMAIN v.gdb.table : v.gdb.table[m].place = "name" => NamedAt(w, m, v.gdb.table[m].at)
  BY <1>1 DEF Cut, NamedAt
<1>4. Later(w, v)
  BY <1>1, <1>2, <1>3, LaterBy DEF SameActor
<1>5. \A m \in DOMAIN v.gdb.table : v.gdb.table[m].by = "runTo" => Aimed(w, v.gdb.table[m].at)
  BY <1>1, AimedIn DEF Cut
<1>6. \A m \in DOMAIN v.st.mirror : v.st.mirror[m].by = "runTo" => Aimed(w, v.st.mirror[m].at)
  BY <1>1, AimedIn DEF Cut
<1> QED
  BY <1>1, <1>4, <1>5, <1>6, NarrowsBy

\* A breakpoint disabled.
LEMMA DisableOkLater ==
    ASSUME NEW w \in AllWorlds, NEW m \in DOMAIN w.st.mirror, NEW bp \in Bps, NEW v,
           DisableOk(w, m, bp, v)
    PROVE  Later(w, v) /\ Narrows(w, v)
<1>1. /\ v \in AllWorlds
      /\ m \in DOMAIN w.gdb.table
      /\ v.gdb.next = w.gdb.next
      /\ Put(v.gdb.table, w.gdb.table, m, Off(w.gdb.table[m]))
      /\ Put(v.st.mirror, w.st.mirror, m, Off(w.st.mirror[m]))
      /\ Alike(Off(w.gdb.table[m]), w.gdb.table[m])
      /\ SameStatus(v.gdb, w.gdb)
      /\ SameActor(v.st, w.st)
      /\ v.intake = w.intake
  BY DisableOkPuts
<1>a. w.st.mirror[m] \in Bps
  BY TableBp DEF AllWorlds, Mirrors
<1>b. Alike(Off(w.st.mirror[m]), w.st.mirror[m])
  BY <1>a, TurnedIs DEF Off, Turned
<1>2. w.gdb.next <= v.gdb.next
  BY <1>1, Counts
<1>3. \A n \in DOMAIN v.gdb.table : v.gdb.table[n].place = "name" => NamedAt(w, n, v.gdb.table[n].at)
  BY <1>1 DEF Put, NamedAt, Alike
<1>4. Later(w, v)
  BY <1>1, <1>2, <1>3, LaterBy DEF SameActor
<1>5. \A n \in DOMAIN v.gdb.table : v.gdb.table[n].by = "runTo" => Aimed(w, v.gdb.table[n].at)
  BY <1>1, AimedIn DEF Put, Alike
<1>6. \A n \in DOMAIN v.st.mirror : v.st.mirror[n].by = "runTo" => Aimed(w, v.st.mirror[n].at)
  BY <1>1, <1>b, AimedIn DEF Put, Alike
<1> QED
  BY <1>1, <1>4, <1>5, <1>6, NarrowsBy

\* The list.
LEMMA ListedLater ==
    ASSUME NEW w \in AllWorlds
    PROVE  Later(w, Listed(w)) /\ Narrows(w, Listed(w))
<1> DEFINE v == Listed(w)
<1>1. /\ v \in AllWorlds
      /\ v.st.mirror = SeenTable(w)
      /\ SameActor(v.st, w.st)
      /\ v.gdb = w.gdb
      /\ v.intake = w.intake
  BY ListedIs
<1> HIDE DEF v
<1>2. w.gdb.next <= v.gdb.next
  BY <1>1, Counts
<1>3. SameStatus(v.gdb, w.gdb)
  BY <1>1 DEF SameStatus
<1>4. \A n \in DOMAIN v.gdb.table : v.gdb.table[n].place = "name" => NamedAt(w, n, v.gdb.table[n].at)
  BY <1>1 DEF NamedAt
<1>5. Later(w, v)
  BY <1>1, <1>2, <1>3, <1>4, LaterBy DEF SameActor
<1>6. \A n \in DOMAIN v.st.mirror : n \in DOMAIN w.gdb.table /\ v.st.mirror[n] = w.gdb.table[n]
  BY <1>1 DEF SeenTable, Seen
<1>7. \A n \in DOMAIN v.st.mirror : v.st.mirror[n].by = "runTo" => Aimed(w, v.st.mirror[n].at)
  BY <1>6, AimedIn
<1>8. \A n \in DOMAIN v.gdb.table : v.gdb.table[n].by = "runTo" => Aimed(w, v.gdb.table[n].at)
  BY <1>1, AimedIn
<1> QED
  BY <1>1, <1>5, <1>7, <1>8, NarrowsBy DEF v

\* What is new in the queue says of no exit, and of no run-to that is not in w.
QueueLater(w, q) ==
    \A i \in 1 .. Len(q) :
        \/ \E j \in 1 .. Len(w.intake) : w.intake[j] = q[i]
        \/ q[i].kind # "exited" /\ (q[i].bp.by = "runTo" => Aimed(w, q[i].bp.at))

\* A step that leaves the process, and whose names are old or of this moment.
LEMMA LaterWith ==
    ASSUME NEW w \in AllWorlds, NEW v \in AllWorlds, SameStatus(v.gdb, w.gdb),
           v.st.runState = w.st.runState, v.st.deferred = w.st.deferred,
           v.st.missed = w.st.missed, w.gdb.next <= v.gdb.next, QueueLater(w, v.intake),
           \A n \in DOMAIN v.gdb.table : v.gdb.table[n].place = "name" =>
              \/ NamedAt(w, n, v.gdb.table[n].at)
              \/ v.gdb.table[n].at = w.gdb.resumes
    PROVE  Later(w, v)
<1>1. DOMAIN v.intake = 1 .. Len(v.intake) /\ DOMAIN w.intake = 1 .. Len(w.intake)
  BY DEF AllWorlds
<1>2. Overtaken(v) => Overtaken(w)
  BY <1>1 DEF Overtaken, QueueLater
<1> QED
  BY <1>2 DEF Later, SameStatus

\* A step whose tables and queue hold no new run-to makes none.
LEMMA NarrowsWith ==
    ASSUME NEW w, NEW v, QueueLater(w, v.intake),
           \A n \in DOMAIN v.gdb.table : v.gdb.table[n].by = "runTo" => Aimed(w, v.gdb.table[n].at),
           \A n \in DOMAIN v.st.mirror : v.st.mirror[n].by = "runTo" => Aimed(w, v.st.mirror[n].at)
    PROVE  Narrows(w, v)
<1>1. ASSUME NEW i \in 1 .. Len(v.intake), v.intake[i].bp.by = "runTo"
      PROVE  Aimed(w, v.intake[i].bp.at)
  <2>1. \A j \in 1 .. Len(w.intake) : w.intake[j].bp.by = "runTo" => Aimed(w, w.intake[j].bp.at)
    BY DEF Aimed
  <2> QED
    BY <1>1, <2>1 DEF QueueLater
<1>2. ASSUME NEW a, Aimed(v, a)
      PROVE  Aimed(w, a)
  <2>1. CASE \E n \in DOMAIN v.gdb.table : v.gdb.table[n].by = "runTo" /\ v.gdb.table[n].at = a
    BY <2>1
  <2>2. CASE \E n \in DOMAIN v.st.mirror : v.st.mirror[n].by = "runTo" /\ v.st.mirror[n].at = a
    BY <2>2
  <2>3. CASE \E i \in 1 .. Len(v.intake) : v.intake[i].bp.by = "runTo" /\ v.intake[i].bp.at = a
    BY <1>1, <2>3
  <2> QED
    BY <1>2, <2>1, <2>2, <2>3 DEF Aimed
<1> QED
  BY <1>2 DEF Narrows

\* The same queue says nothing new,
LEMMA QueueSame ==
    ASSUME NEW w
    PROVE  QueueLater(w, w.intake)
BY DEF QueueLater

\* nor does a record that is no exit and of no new run-to,
LEMMA QueueTold ==
    ASSUME NEW w \in AllWorlds, NEW rec \in Records, NEW q \in Seq(Records), QueueLater(w, q),
           rec.kind # "exited", rec.bp.by = "runTo" => Aimed(w, rec.bp.at)
    PROVE  QueueLater(w, Append(q, rec)) /\ Append(q, rec) \in Seq(Records)
<1> DEFINE x == Append(q, rec)
<1>1. /\ x \in Seq(Records)
      /\ \A i \in 1 .. Len(x) : (i \in 1 .. Len(q) /\ x[i] = q[i]) \/ x[i] = rec
  OBVIOUS
<1> HIDE DEF x
<1>2. QueueLater(w, x)
  BY <1>1 DEF QueueLater
<1> QED
  BY <1>1, <1>2 DEF x

\* nor does the rest of it.
LEMMA QueueRest ==
    ASSUME NEW w \in AllWorlds, w.intake # <<>>
    PROVE  QueueLater(w, Tail(w.intake))
<1>1. w.intake \in Seq(Records)
  BY DEF AllWorlds
<1>2. \A i \in 1 .. Len(Tail(w.intake)) : \E k \in 1 .. Len(w.intake) : w.intake[k] = Tail(w.intake)[i]
  BY <1>1, TailHolds
<1> QED
  BY <1>2 DEF QueueLater

\* What gdb executes of a breakpoint, told or not.
LEMMA InsertLater ==
    ASSUME NEW s, NEW w, Base(s, w), NEW cmd \in Commands, NEW unheard \in BOOLEAN,
           cmd.bp.by # "runTo", cmd.bp.place # "name"
    PROVE  Later(w, Insert(w, cmd, unheard)) /\ Narrows(w, Insert(w, cmd, unheard))
<1> DEFINE v == Insert(w, cmd, unheard)
           n == w.gdb.next
           bp == Made(w, cmd)
           rec == Record("created", n, bp)
<1>0. w \in AllWorlds /\ n \in Nat /\ w.gdb.table \in Tables
  BY DEF Base, Shape, AllWorlds, Gdbs
<1>1. /\ v \in AllWorlds
      /\ v.st = w.st
      /\ v.gdb.table = With(w.gdb.table, n, bp)
      /\ v.gdb.next = n + 1
      /\ SameStatus(v.gdb, w.gdb)
      /\ cmd.typed => v.intake = Append(w.intake, rec)
      /\ ~cmd.typed => v.intake = w.intake
  BY <1>0, InsertIs
<1>2. bp \in Bps /\ Alike(bp, cmd.bp)
  BY <1>0, MadeIs
<1>a. w.gdb.next <= v.gdb.next
  <2>1. n \in Nat /\ v.gdb.next = n + 1
    BY <1>0, <1>1
  <2> QED
    BY <2>1
<1> HIDE DEF v, bp
<1>3. "created" \in Kinds
  BY DEF Kinds, ToldKinds
<1>4. rec \in Records /\ rec.kind = "created" /\ rec.bp = bp
  BY <1>0, <1>2, <1>3, RecordType
<1>5. Put(v.gdb.table, w.gdb.table, n, bp)
  BY <1>0, <1>1, <1>2, PutTable
<1> HIDE DEF rec, n
<1>6. QueueLater(w, w.intake) /\ w.intake \in Seq(Records)
  BY <1>0, QueueSame DEF AllWorlds
<1>7. QueueLater(w, Append(w.intake, rec))
  <2>1. rec.kind # "exited" /\ rec.bp.by # "runTo"
    BY <1>2, <1>4 DEF Alike
  <2> QED
    BY <1>0, <1>4, <1>6, <2>1, QueueTold
<1>8. QueueLater(w, v.intake)
  BY <1>1, <1>6, <1>7
<1>9. \A m \in DOMAIN v.gdb.table : v.gdb.table[m].place = "name" => NamedAt(w, m, v.gdb.table[m].at)
  BY <1>2, <1>5 DEF Put, Alike, NamedAt
<1>10. Later(w, v)
  BY <1>0, <1>1, <1>a, <1>8, <1>9, LaterWith
<1>11. \A m \in DOMAIN v.gdb.table : v.gdb.table[m].by = "runTo" => Aimed(w, v.gdb.table[m].at)
  BY <1>2, <1>5, AimedIn DEF Put, Alike
<1>12. \A m \in DOMAIN v.st.mirror : v.st.mirror[m].by = "runTo" => Aimed(w, v.st.mirror[m].at)
  BY <1>1, AimedIn
<1>13. Narrows(w, v)
  BY <1>8, <1>11, <1>12, NarrowsWith
<1> QED
  BY <1>10, <1>13 DEF v

\* A delete makes no name and no run-to,
LEMMA DeleteLater ==
    ASSUME NEW s, NEW w, Base(s, w), NEW cmd \in Commands, NEW unheard \in BOOLEAN,
           cmd.n \in DOMAIN w.gdb.table
    PROVE  Later(w, Delete(w, cmd, unheard)) /\ Narrows(w, Delete(w, cmd, unheard))
<1> DEFINE v == Delete(w, cmd, unheard)
           n == cmd.n
           bp == w.gdb.table[n]
           rec == Record("deleted", n, bp)
<1>0. w \in AllWorlds /\ n \in Nat /\ w.gdb.table \in Tables
  BY DEF Base, Shape, AllWorlds, Gdbs, Commands
<1>1. /\ v \in AllWorlds
      /\ v.st = w.st
      /\ v.gdb.table = Without(w.gdb.table, n)
      /\ v.gdb.next = w.gdb.next
      /\ SameStatus(v.gdb, w.gdb)
      /\ cmd.typed => v.intake = Append(w.intake, rec)
      /\ ~cmd.typed => v.intake = w.intake
  BY <1>0, DeleteIs
<1>2. bp \in Bps
  BY <1>0, TableBp
<1>a. w.gdb.next <= v.gdb.next
  BY <1>0, <1>1, Counts
<1>b. bp.by = "runTo" => Aimed(w, bp.at)
  BY AimedIn
<1>5. Cut(v.gdb.table, w.gdb.table, n)
  BY <1>0, <1>1, CutTable
<1> HIDE DEF v, bp
<1>3. "deleted" \in Kinds
  BY DEF Kinds, ToldKinds
<1>4. rec \in Records /\ rec.kind = "deleted" /\ rec.bp = bp
  BY <1>0, <1>2, <1>3, RecordType
<1> HIDE DEF rec, n
<1>6. QueueLater(w, w.intake) /\ w.intake \in Seq(Records)
  BY <1>0, QueueSame DEF AllWorlds
<1>7. QueueLater(w, Append(w.intake, rec))
  <2>1. rec.kind # "exited" /\ (rec.bp.by = "runTo" => Aimed(w, rec.bp.at))
    BY <1>4, <1>b
  <2> QED
    BY <1>0, <1>4, <1>6, <2>1, QueueTold
<1>8. QueueLater(w, v.intake)
  BY <1>1, <1>6, <1>7
<1>9. \A m \in DOMAIN v.gdb.table : v.gdb.table[m].place = "name" => NamedAt(w, m, v.gdb.table[m].at)
  BY <1>5 DEF Cut, NamedAt
<1>10. Later(w, v)
  BY <1>0, <1>1, <1>a, <1>8, <1>9, LaterWith
<1>11. \A m \in DOMAIN v.gdb.table : v.gdb.table[m].by = "runTo" => Aimed(w, v.gdb.table[m].at)
  BY <1>5, AimedIn DEF Cut
<1>12. \A m \in DOMAIN v.st.mirror : v.st.mirror[m].by = "runTo" => Aimed(w, v.st.mirror[m].at)
  BY <1>1, AimedIn
<1>13. Narrows(w, v)
  BY <1>8, <1>11, <1>12, NarrowsWith
<1> QED
  BY <1>10, <1>13 DEF v

\* nor does an enable,
LEMMA EnableLater ==
    ASSUME NEW s, NEW w, Base(s, w), NEW cmd \in Commands, NEW unheard \in BOOLEAN,
           cmd.n \in DOMAIN w.gdb.table
    PROVE  Later(w, Enable(w, cmd, unheard)) /\ Narrows(w, Enable(w, cmd, unheard))
<1> DEFINE v == Enable(w, cmd, unheard)
           n == cmd.n
           on == cmd.bp.enabled
           bp == Turned(w.gdb.table[n], on)
           rec == Record("modified", n, bp)
<1>0. w \in AllWorlds /\ n \in Nat /\ w.gdb.table \in Tables /\ on \in BOOLEAN
  BY DEF Base, Shape, AllWorlds, Gdbs, Commands, Bps
<1>1. /\ v \in AllWorlds
      /\ v.st = w.st
      /\ v.gdb.table = With(w.gdb.table, n, bp)
      /\ v.gdb.next = w.gdb.next
      /\ SameStatus(v.gdb, w.gdb)
      /\ cmd.typed => v.intake = Append(w.intake, rec)
      /\ ~cmd.typed => v.intake = w.intake
  BY <1>0, EnableIs
<1>2. bp \in Bps /\ Alike(bp, w.gdb.table[n])
  <2>1. w.gdb.table[n] \in Bps
    BY <1>0, TableBp
  <2> HIDE DEF n, on
  <2> QED
    BY <1>0, <2>1, TurnedIs
<1>a. w.gdb.next <= v.gdb.next
  BY <1>0, <1>1, Counts
<1> HIDE DEF v, bp
<1>b. bp.by = "runTo" => Aimed(w, bp.at)
  BY <1>2, AimedIn DEF Alike
<1>5. Put(v.gdb.table, w.gdb.table, n, bp)
  BY <1>0, <1>1, <1>2, PutTable
<1>3. "modified" \in Kinds
  BY DEF Kinds, ToldKinds
<1>4. rec \in Records /\ rec.kind = "modified" /\ rec.bp = bp
  BY <1>0, <1>2, <1>3, RecordType
<1>n. n \in DOMAIN w.gdb.table
  OBVIOUS
<1> HIDE DEF rec, n
<1>6. QueueLater(w, w.intake) /\ w.intake \in Seq(Records)
  BY <1>0, QueueSame DEF AllWorlds
<1>7. QueueLater(w, Append(w.intake, rec))
  <2>1. rec.kind # "exited" /\ (rec.bp.by = "runTo" => Aimed(w, rec.bp.at))
    BY <1>4, <1>b
  <2> QED
    BY <1>0, <1>4, <1>6, <2>1, QueueTold
<1>8. QueueLater(w, v.intake)
  BY <1>1, <1>6, <1>7
<1>9. \A m \in DOMAIN v.gdb.table : v.gdb.table[m].place = "name" => NamedAt(w, m, v.gdb.table[m].at)
  BY <1>2, <1>5, <1>n DEF Put, Alike, NamedAt
<1>10. Later(w, v)
  BY <1>0, <1>1, <1>a, <1>8, <1>9, LaterWith
<1>11. \A m \in DOMAIN v.gdb.table : v.gdb.table[m].by = "runTo" => Aimed(w, v.gdb.table[m].at)
  BY <1>b, <1>5, AimedIn DEF Put
<1>12. \A m \in DOMAIN v.st.mirror : v.st.mirror[m].by = "runTo" => Aimed(w, v.st.mirror[m].at)
  BY <1>1, AimedIn
<1>13. Narrows(w, v)
  BY <1>8, <1>11, <1>12, NarrowsWith
<1> QED
  BY <1>10, <1>13 DEF v

\* nor does nothing.
LEMMA LaterSelf ==
    ASSUME NEW w \in AllWorlds
    PROVE  Later(w, w) /\ Narrows(w, w)
BY Counts DEF Later, Narrows, NamedAt

\* The resumes go on, and no run-to is more.
Past(w, v) ==
    /\ w \in AllWorlds
    /\ v \in AllWorlds
    /\ w.gdb.resumes <= v.gdb.resumes
    /\ Narrows(w, v)

\* Run-tos stay behind, step by step.
LEMMA PastOn ==
    ASSUME NEW w, NEW v, NEW u, Past(w, v), Past(v, u)
    PROVE  Past(w, u)
<1>1. Narrows(w, u)
  BY NarrowsOn DEF Past
<1>2. w.gdb.resumes <= u.gdb.resumes
  BY Counts DEF Past
<1> QED
  BY <1>1, <1>2 DEF Past

\* A step that leaves the process and makes no run-to leaves them behind.
LEMMA LaterPast ==
    ASSUME NEW w, NEW v, Later(w, v), Narrows(w, v)
    PROVE  Past(w, v)
BY Counts DEF Later, Past

\* A change of the run state does.
LEMMA StatusPast ==
    ASSUME NEW w \in AllWorlds, NEW v, OnlyStatus(w, v)
    PROVE  /\ Past(w, v)
           /\ Alive(w) => Alive(v)
           /\ v.st.missed = w.st.missed => \A s : Clear(s, w) => Clear(s, v)
<1>1. v \in AllWorlds /\ v.gdb = w.gdb /\ v.intake = w.intake
  BY DEF OnlyStatus
<1>2. Narrows(w, v)
  BY StatusNarrows
<1>3. Past(w, v)
  BY <1>1, <1>2, Counts DEF Past
<1>4. Alive(w) => Alive(v)
  BY <1>1 DEF Alive, Overtaken
<1> QED
  BY <1>1, <1>3, <1>4 DEF Clear

-----------------------------------------------------------------------------
(* Placing leaves none on a name.                                          *)

\* While gdb can make breakpoints, n is not on a name any more, and none is new.
Unnamed(s, w, v, n) ==
    v.gdb.up /\ v.gdb.next <= s.numbers =>
        \A m \in DOMAIN v.gdb.table : v.gdb.table[m].place = "name" =>
            m # n /\ m \in DOMAIN w.gdb.table /\ w.gdb.table[m].place = "name"

\* A drop that is answered in time takes the breakpoint away.
LEMMA DropInTime ==
    ASSUME NEW w, NEW n \in 1 .. setting.numbers, NEW wish \in BOOLEAN, Base(setting, w),
           setting.late = 0, NEW v \in DropBreakpoint(w, n, wish)
    PROVE  /\ Later(w, v)
           /\ Narrows(w, v)
           /\ w.gdb.up => /\ n \notin DOMAIN v.gdb.table
                          /\ \A m \in DOMAIN v.gdb.table : /\ m \in DOMAIN w.gdb.table
                                                           /\ v.gdb.table[m] = w.gdb.table[m]
<1>0. w \in AllWorlds /\ n \in Nat
  BY DEF Base, Shape, Sized
<1>1. DropOk(w, n, wish, v) \/ DropFails(w, n, wish, v)
  BY <1>0, DropBreakpointIs
<1>2. CASE DropOk(w, n, wish, v)
  <2>1. Later(w, v) /\ Narrows(w, v)
    BY <1>0, <1>2, DropOkLater
  <2>2. Cut(v.gdb.table, w.gdb.table, n)
    BY <1>0, <1>2, DropOkCuts
  <2> QED
    BY <2>1, <2>2 DEF Cut
<1>3. CASE DropFails(w, n, wish, v)
  <2>1. v = w /\ (w.gdb.up => n \notin DOMAIN w.gdb.table)
    BY <1>3, LeftInTime DEF DropFails
  <2> QED
    BY <1>0, <2>1, LaterSelf
<1> QED
  BY <1>1, <1>2, <1>3

\* The disable of a placement leaves places.
LEMMA DisableInTime ==
    ASSUME NEW w, NEW m \in DOMAIN w.st.mirror, NEW bp \in Bps, Base(setting, w),
           setting.late = 0, NEW v, DisableOk(w, m, bp, v) \/ DisableFails(w, m, bp, v)
    PROVE  /\ Later(w, v)
           /\ Narrows(w, v)
           /\ \A k \in DOMAIN v.gdb.table : /\ k \in DOMAIN w.gdb.table
                                            /\ v.gdb.table[k].place = w.gdb.table[k].place
<1>0. w \in AllWorlds
  BY DEF Base, Shape
<1>2. CASE DisableOk(w, m, bp, v)
  <2>1. Later(w, v) /\ Narrows(w, v)
    BY <1>0, <1>2, DisableOkLater
  <2>2. /\ Put(v.gdb.table, w.gdb.table, m, Off(w.gdb.table[m]))
        /\ Alike(Off(w.gdb.table[m]), w.gdb.table[m])
        /\ m \in DOMAIN w.gdb.table
    BY <1>0, <1>2, DisableOkPuts
  <2>3. \A k \in DOMAIN v.gdb.table : /\ k \in DOMAIN w.gdb.table
                                      /\ v.gdb.table[k].place = w.gdb.table[k].place
    BY <2>2 DEF Put, Alike
  <2> QED
    BY <2>1, <2>3
<1>3. CASE DisableFails(w, m, bp, v)
  <2>1. v = w
    BY <1>3, LeftInTime DEF DisableFails
  <2> QED
    BY <1>0, <2>1, LaterSelf
<1> QED
  BY <1>2, <1>3

\* A breakpoint gdb would not make, for it can make no more.
LEMMA InsertInTime ==
    ASSUME NEW w, NEW bp \in Bps, bp.place = "address", setting.late = 0, Base(setting, w),
           NEW v, InsertFails(w, "insertNow", bp, FALSE, v)
    PROVE  /\ v = w
           /\ ~setting.refuse /\ w.gdb.up => ~(w.gdb.next <= setting.numbers)
<1>1. v = w
  BY LeftInTime DEF InsertFails
<1> DEFINE cmd == Inserting("insertNow", bp, FALSE)
<1>2. ~setting.refuse /\ w.gdb.up => ~Accepts(w, cmd)
  BY DEF InsertFails
<1>3. cmd.verb = "insertNow" /\ cmd.bp = bp
  BY DEF Inserting, Command
<1>4. ~Resolved(w.gdb, bp).pending
  <2>1. w.gdb \in Gdbs
    BY DEF Base, Shape, AllWorlds
  <2> QED
    BY <2>1, ResolvedIs DEF Alike, Waiting
<1> HIDE DEF cmd
<1>5. CanMake(w.gdb) => Accepts(w, cmd)
  BY <1>3, <1>4 DEF Accepts
<1> QED
  BY <1>1, <1>2, <1>5 DEF CanMake

\* A placement that gdb does not refuse leaves no breakpoint on the name.
LEMMA PlaceOneInTime ==
    ASSUME NEW w, NEW n, Base(setting, w), Placeable(setting, w, n), setting.late = 0,
           NEW v \in PlaceOne(w, n)
    PROVE  Later(w, v) /\ Narrows(w, v) /\ (~setting.refuse => Unnamed(setting, w, v, n))
<1> DEFINE bp == Placed(w, n)
           k == w.gdb.next
           cmd == Inserting("insertNow", bp, FALSE)
<1>0. /\ w \in AllWorlds
      /\ k \in Nat
      /\ n \in DOMAIN w.st.mirror
      /\ w.st.mirror[n].by # "gdb"
      /\ n \in 1 .. setting.numbers
  BY DEF Base, Shape, Sized, AllWorlds, Gdbs, Placeable
<1>1. /\ Showable(bp) /\ bp \in Bps
      /\ bp.place = "address"
      /\ bp.by = w.st.mirror[n].by
      /\ bp.at = w.st.mirror[n].at
  BY <1>0, PlacedIs DEF Showable
<1>2. \/ InsertFails(w, "insertNow", bp, FALSE, v)
      \/ \E x : /\ InsertOk(w, cmd, x)
                /\ v \in DropBreakpoint(x, n, FALSE)
      \/ \E x, y : /\ InsertOk(w, cmd, x)
                   /\ DisableOk(x, k, bp, y) \/ DisableFails(x, k, bp, y)
                   /\ v \in DropBreakpoint(y, n, FALSE)
  BY PlaceOneIs
<1>a. bp.by = "runTo" => Aimed(w, bp.at)
  BY <1>0, <1>1, AimedIn
<1>f. PICK f \in BOOLEAN : f = FALSE
  OBVIOUS
<1>v. PICK verb \in {"insert", "insertNow"} : verb = "insertNow"
  OBVIOUS
<1> HIDE DEF bp
<1>3. CASE InsertFails(w, "insertNow", bp, FALSE, v)
  <2>1. v = w /\ (~setting.refuse /\ w.gdb.up => ~(w.gdb.next <= setting.numbers))
    BY <1>1, <1>3, InsertInTime
  <2> QED
    BY <1>0, <2>1, LaterSelf DEF Unnamed
<1>4. ASSUME NEW x, InsertOk(w, cmd, x)
      PROVE  /\ Base(setting, x)
             /\ Later(w, x)
             /\ Narrows(w, x)
             /\ k \in DOMAIN x.st.mirror
             /\ \A m \in DOMAIN x.gdb.table : x.gdb.table[m].place = "name" =>
                   m \in DOMAIN w.gdb.table /\ w.gdb.table[m].place = "name"
  <2>0. InsertOk(w, Inserting(verb, bp, f), x)
    BY <1>4, <1>f, <1>v
  <2>1. Base(setting, x)
    BY <1>1, <2>0, InsertOkIs
  <2>2. Later(w, x) /\ Narrows(w, x)
    BY <1>0, <1>1, <1>a, <2>0, InsertOkLater
  <2>3. /\ Put(x.st.mirror, w.st.mirror, k, Made(w, Inserting(verb, bp, f)))
        /\ Put(x.gdb.table, w.gdb.table, k, Made(w, Inserting(verb, bp, f)))
        /\ Alike(Made(w, Inserting(verb, bp, f)), bp)
    BY <1>0, <1>1, <2>0, InsertOkPuts
  <2>4. \A m \in DOMAIN x.gdb.table : x.gdb.table[m].place = "name" =>
                   m \in DOMAIN w.gdb.table /\ w.gdb.table[m].place = "name"
    BY <1>1, <2>3 DEF Put, Alike
  <2> QED
    BY <2>1, <2>2, <2>3, <2>4 DEF Put
<1>5. ASSUME NEW y, Base(setting, y), Later(w, y), Narrows(w, y),
             \A m \in DOMAIN y.gdb.table : y.gdb.table[m].place = "name" =>
                   m \in DOMAIN w.gdb.table /\ w.gdb.table[m].place = "name",
             v \in DropBreakpoint(y, n, FALSE)
      PROVE  Later(w, v) /\ Narrows(w, v) /\ Unnamed(setting, w, v, n)
  <2>0. v \in DropBreakpoint(y, n, f)
    BY <1>5, <1>f
  <2>1. /\ Later(y, v)
        /\ Narrows(y, v)
        /\ y.gdb.up => /\ n \notin DOMAIN v.gdb.table
                       /\ \A m \in DOMAIN v.gdb.table : /\ m \in DOMAIN y.gdb.table
                                                        /\ v.gdb.table[m] = y.gdb.table[m]
    BY <1>0, <1>5, <2>0, DropInTime
  <2>2. Later(w, v) /\ Narrows(w, v)
    BY <1>5, <2>1, LaterOn, NarrowsOn
  <2>3. v.gdb.up = y.gdb.up
    BY <2>1 DEF Later
  <2>4. Unnamed(setting, w, v, n)
    BY <1>5, <2>1, <2>3 DEF Unnamed
  <2> QED
    BY <2>2, <2>4
<1>6. CASE \E x : /\ InsertOk(w, cmd, x)
                  /\ v \in DropBreakpoint(x, n, FALSE)
  BY <1>4, <1>5, <1>6
<1>7. CASE \E x, y : /\ InsertOk(w, cmd, x)
                     /\ DisableOk(x, k, bp, y) \/ DisableFails(x, k, bp, y)
                     /\ v \in DropBreakpoint(y, n, FALSE)
  <2>1. PICK x, y : /\ InsertOk(w, cmd, x)
                    /\ DisableOk(x, k, bp, y) \/ DisableFails(x, k, bp, y)
                    /\ v \in DropBreakpoint(y, n, FALSE)
    BY <1>7
  <2>2. /\ Base(setting, x)
        /\ Later(w, x)
        /\ Narrows(w, x)
        /\ k \in DOMAIN x.st.mirror
        /\ \A m \in DOMAIN x.gdb.table : x.gdb.table[m].place = "name" =>
              m \in DOMAIN w.gdb.table /\ w.gdb.table[m].place = "name"
    BY <1>4, <2>1
  <2> HIDE DEF k
  <2>3. /\ Base(setting, y)
        /\ Later(x, y)
        /\ Narrows(x, y)
        /\ \A m \in DOMAIN y.gdb.table : /\ m \in DOMAIN x.gdb.table
                                         /\ y.gdb.table[m].place = x.gdb.table[m].place
    BY <1>1, <2>1, <2>2, DisableBase, DisableInTime
  <2>4. Later(w, y) /\ Narrows(w, y)
    BY <2>2, <2>3, LaterOn, NarrowsOn
  <2>5. \A m \in DOMAIN y.gdb.table : y.gdb.table[m].place = "name" =>
           m \in DOMAIN w.gdb.table /\ w.gdb.table[m].place = "name"
    BY <2>2, <2>3
  <2> QED
    BY <1>5, <2>1, <2>3, <2>4, <2>5
<1> QED
  BY <1>2, <1>3, <1>6, <1>7

\* Where the loop stands when the numbers of S have been seen to.
Placing(w, v, S) ==
    /\ Resolving(w, v, S)
    /\ Later(w, v)
    /\ Narrows(w, v)
    /\ ~setting.refuse /\ v.gdb.up /\ v.gdb.next <= setting.numbers =>
          \A m \in DOMAIN v.gdb.table :
              m \notin v.gdb.inherited /\ v.gdb.table[m].place = "name" =>
                  m \in Deferred(w) \ S

\* So, in the loop over the deferred breakpoints, at its beginning,
LEMMA PlacingStart ==
    ASSUME NEW w, Base(setting, w), setting.late = 0
    PROVE  Placing(w, w, {})
<1>1. w \in AllWorlds
  BY DEF Base, Shape
<1>2. Later(w, w) /\ Narrows(w, w) /\ Resolving(w, w, {})
  BY <1>1, LaterSelf, ResolvingStart
<1>3. ASSUME NEW m \in DOMAIN w.gdb.table, m \notin w.gdb.inherited, w.gdb.table[m].place = "name"
      PROVE  m \in Deferred(w)
  BY <1>3 DEF Base, NamesShown, Deferred
<1> QED
  BY <1>2, <1>3 DEF Placing

\* and at each of its steps, none on a name is left of those it has seen to.
LEMMA PlacingStep ==
    ASSUME NEW w, Base(setting, w), setting.late = 0, NEW S, NEW n \in Deferred(w),
           n \notin S, NEW v, Placing(w, v, S), NEW u \in PlaceOne(v, n)
    PROVE  Placing(w, u, S \cup {n})
<1>1. Resolving(w, v, S)
  BY DEF Placing
<1>2. Resolving(w, u, S \cup {n})
  BY <1>1, ResolvingStep
<1>3. Placeable(setting, v, n) /\ Base(setting, v)
  BY <1>1, ResolvingPlaceable DEF Resolving
<1>4. Later(v, u) /\ Narrows(v, u) /\ (~setting.refuse => Unnamed(setting, v, u, n))
  BY <1>3, PlaceOneInTime
<1>5. Later(w, u) /\ Narrows(w, u)
  BY <1>4, LaterOn, NarrowsOn DEF Placing
<1>6. ASSUME ~setting.refuse, u.gdb.up, u.gdb.next <= setting.numbers,
             NEW m \in DOMAIN u.gdb.table,
             m \notin u.gdb.inherited, u.gdb.table[m].place = "name"
      PROVE  m \in Deferred(w) \ (S \cup {n})
  <2>1. m # n /\ m \in DOMAIN v.gdb.table /\ v.gdb.table[m].place = "name"
    BY <1>4, <1>6 DEF Unnamed
  <2>2. v.gdb.up /\ m \notin v.gdb.inherited
    BY <1>4, <1>6 DEF Later
  <2>3. v.gdb.next <= setting.numbers
    <3>1. v.gdb.next <= u.gdb.next /\ v.gdb.next \in Nat /\ u.gdb.next \in Nat
      BY <1>4, Counts DEF Later
    <3>2. setting.numbers \in Nat
      BY DEF Base, Shape, Sized
    <3> QED
      BY <1>6, <3>1, <3>2
  <2>4. m \in Deferred(w) \ S
    BY <1>6, <2>1, <2>2, <2>3 DEF Placing
  <2> QED
    BY <2>1, <2>4
<1> QED
  BY <1>2, <1>5, <1>6 DEF Placing

\* to its end.
LEMMA PlacementsInTime ==
    ASSUME NEW w, Base(setting, w), setting.late = 0, NEW D \in SUBSET Deferred(w),
           IsFiniteSet(D), NEW v \in Placements(w, D)
    PROVE  Placing(w, v, D)
<1> DEFINE Q == [S \in SUBSET D |-> {u \in AllWorlds : Placing(w, u, S)}]
<1>q. ASSUME NEW S \in SUBSET D, NEW u, Placing(w, u, S)
      PROVE  u \in Q[S]
  BY <1>q DEF Placing, Resolving, Base, Shape
<1>r. ASSUME NEW S \in SUBSET D, NEW u \in Q[S]
      PROVE  Placing(w, u, S)
  OBVIOUS
<1> HIDE DEF Q
<1>1. w \in Q[{}]
  BY <1>q, PlacingStart
<1>2. ASSUME NEW S \in SUBSET D, NEW n \in D, n \notin S, NEW u \in Q[S]
      PROVE  PlaceOne(u, n) \subseteq Q[S \cup {n}]
  <2>0. n \in Deferred(w)
    OBVIOUS
  <2>1. Placing(w, u, S)
    BY <1>r
  <2>2. \A x \in PlaceOne(u, n) : Placing(w, x, S \cup {n})
    BY <1>2, <2>0, <2>1, PlacingStep
  <2>3. S \cup {n} \in SUBSET D
    OBVIOUS
  <2> QED
    BY <1>q, <2>2, <2>3
<1>3. Placements(w, D) \subseteq Q[D]
  BY <1>1, <1>2, ResolveLoop
<1> QED
  BY <1>r, <1>3

\* After it none is on a name but those of an earlier gdb, and those the
\* decompiler could not place.
LEMMA ResolveInTime ==
    ASSUME NEW w, Base(setting, w), setting.late = 0, NEW v \in ResolveDeferred(w)
    PROVE  /\ Base(setting, v)
           /\ Past(w, v)
           /\ Alive(w) => Alive(v)
           /\ v.st.deferred = w.st.deferred
           /\ ~setting.refuse /\ v.gdb.up /\ v.gdb.next <= setting.numbers =>
                 \A m \in DOMAIN v.gdb.table :
                     m \notin v.gdb.inherited /\ m \notin v.st.missed =>
                         v.gdb.table[m].place # "name"
<1>0. w \in AllWorlds
  BY DEF Base, Shape
<1>1. PICK D \in SUBSET Deferred(w) : v \in Placements(Passing(w, D), D)
  BY ResolveDeferredIs
<1> DEFINE p == Passing(w, D)
<1>2. /\ Base(setting, p) /\ OnlyStatus(w, p)
      /\ p.st.deferred = w.st.deferred
      /\ p.st.missed = Deferred(p) \ D
      /\ D \in SUBSET Deferred(p) /\ IsFiniteSet(D)
  BY PassingIs
<1>3. v \in Placements(p, D)
  BY <1>1
<1> HIDE DEF p
<1>4. Placing(p, v, D)
  BY <1>2, <1>3, PlacementsInTime
<1>5. Past(w, p) /\ (Alive(w) => Alive(p))
  BY <1>0, <1>2, StatusPast
<1>6. Later(p, v) /\ Narrows(p, v) /\ Base(setting, v)
  BY <1>4 DEF Placing, Resolving
<1>7. Past(p, v) /\ (Alive(p) => Alive(v))
  BY <1>6, LaterPast, LaterAlive
<1>8. Past(w, v)
  BY <1>5, <1>7, PastOn
<1>9. v.st.deferred = p.st.deferred /\ v.st.missed = p.st.missed
  BY <1>6 DEF Later
<1> QED
  BY <1>2, <1>4, <1>5, <1>6, <1>7, <1>8, <1>9 DEF Placing

-----------------------------------------------------------------------------
(* The program's moves.                                                    *)

\* What gdb says of the program, of no exit, when its breakpoints do not change.
LEMMA SaysPast ==
    ASSUME NEW w \in AllWorlds, NEW v \in AllWorlds, NEW kind \in Kinds,
           w.gdb.resumes <= v.gdb.resumes,
           v.gdb.table = w.gdb.table, v.st.mirror = w.st.mirror,
           v.intake = Append(w.intake, Record(kind, 0, NoBreakpoint))
    PROVE  /\ Past(w, v)
           /\ kind # "exited" => (Overtaken(v) => Overtaken(w))
<1> DEFINE rec == Record(kind, 0, NoBreakpoint)
           q == w.intake
<1>1. NoBreakpoint \in Bps /\ NoBreakpoint.by = "gdb" /\ 0 \in Nat
  BY NoBreakpointType DEF NoBreakpoint, Breakpoint
<1>2. rec \in Records /\ rec.bp = NoBreakpoint /\ rec.kind = kind
  BY <1>1, RecordType
<1> HIDE DEF rec
<1>3. q \in Seq(Records) /\ v.intake = Append(q, rec) /\ v.intake \in Seq(Records)
  BY DEF AllWorlds, rec
<1>4. \A i \in 1 .. Len(v.intake) : (i \in 1 .. Len(q) /\ v.intake[i] = q[i]) \/ v.intake[i] = rec
  BY <1>2, <1>3
<1>5. ASSUME NEW i \in 1 .. Len(v.intake), v.intake[i].bp.by = "runTo"
      PROVE  Aimed(w, v.intake[i].bp.at)
  <2>1. \E j \in 1 .. Len(w.intake) : w.intake[j] = v.intake[i]
    BY <1>1, <1>2, <1>4, <1>5
  <2> QED
    BY <1>5, <2>1 DEF Aimed
<1>6. \A n \in DOMAIN v.gdb.table : v.gdb.table[n].by = "runTo" => Aimed(w, v.gdb.table[n].at)
  BY AimedIn
<1>7. \A n \in DOMAIN v.st.mirror : v.st.mirror[n].by = "runTo" => Aimed(w, v.st.mirror[n].at)
  BY AimedIn
<1>8. Narrows(w, v)
  BY <1>5, <1>6, <1>7 DEF Narrows, Aimed
<1>9. kind # "exited" => (Overtaken(v) => Overtaken(w))
  <2>1. DOMAIN v.intake = 1 .. Len(v.intake) /\ DOMAIN q = 1 .. Len(q)
    BY <1>3
  <2> QED
    BY <1>2, <1>4, <2>1 DEF Overtaken
<1> QED
  BY <1>8, <1>9 DEF Past

\* The program resumed.
LEMMA ResumedInTime ==
    ASSUME NEW s, s.numbers \in Nat, NEW w \in AllWorlds, w.gdb.process = "stopped"
    PROVE  /\ Past(w, Resumed(w))
           /\ Alive(w) => Alive(Resumed(w))
           /\ Clear(s, w) => Clear(s, Resumed(w))
<1> DEFINE v == Resumed(w)
           r == w.gdb.resumes + 1
           g == [w.gdb EXCEPT !.process = "running", !.entry = FALSE, !.resumes = r]
<1>0. w.gdb \in Gdbs /\ r \in Nat /\ w.gdb.resumes <= r /\ w.gdb.resumes < r
  BY DEF AllWorlds, Gdbs
<1>1. /\ v \in AllWorlds
      /\ v.st = w.st
      /\ v.gdb = [w.gdb EXCEPT !.process = "running", !.entry = FALSE, !.resumes = @ + 1]
      /\ v.intake = Append(w.intake, Record("running", 0, NoBreakpoint))
  BY ResumedIs DEF Kin
<1>2. v.gdb = g
  BY <1>1, Zenon
<1> HIDE DEF v, r
<1>3. /\ g.process = "running"
      /\ g.resumes = r
      /\ g.began = w.gdb.began
      /\ g.up = w.gdb.up
      /\ g.overtaken = w.gdb.overtaken
      /\ g.table = w.gdb.table
      /\ g.next = w.gdb.next
      /\ g.inherited = w.gdb.inherited
  BY <1>0 DEF Gdbs
<1> HIDE DEF g
<1>4. "running" \in Kinds
  BY DEF Kinds
<1>5. Past(w, v) /\ (Overtaken(v) => Overtaken(w))
  BY <1>0, <1>1, <1>2, <1>3, <1>4, SaysPast
<1>6. Alive(w) => Alive(v)
  <2>1. Alive(w) => w.gdb.began < w.gdb.resumes
    BY DEF Alive
  <2>2. w.gdb.began < w.gdb.resumes => w.gdb.began < r
    BY <1>0, Counts
  <2> QED
    BY <1>2, <1>3, <1>5, <2>1, <2>2 DEF Alive
<1>7. Clear(s, w) => Clear(s, v)
  BY <1>1, <1>2, <1>3 DEF Clear
<1> QED
  BY <1>5, <1>6, <1>7 DEF v

\* A deferred start that goes on leaves what waits behind.
LEMMA CarryInTime ==
    ASSUME NEW w, Base(setting, w), NEW v, setting.late = 0, Carries(w, v)
    PROVE  /\ Past(w, v)
           /\ Alive(w) => Alive(v)
           /\ Clear(setting, w) => Clear(setting, v)
           /\ v.st.deferred = w.st.deferred
           /\ CarryOk(w, v) => v.gdb.resumes = w.gdb.resumes + 1
<1>0. w \in AllWorlds /\ setting.numbers \in Nat
  BY DEF Base, Shape, Sized
<1>1. ASSUME CarryOk(w, v)
      PROVE  /\ Past(w, v)
             /\ Alive(w) => Alive(v)
             /\ Clear(setting, w) => Clear(setting, v)
             /\ v.st.deferred = w.st.deferred
             /\ v.gdb.resumes = w.gdb.resumes + 1
  <2> DEFINE x == Resumed(w)
  <2>1. w.gdb.process = "stopped" /\ v = InState(x, "running")
    BY <1>1 DEF CarryOk
  <2>2. /\ Past(w, x)
        /\ Alive(w) => Alive(x)
        /\ Clear(setting, w) => Clear(setting, x)
    BY <1>0, <2>1, ResumedInTime
  <2>3. x \in AllWorlds /\ x.st = w.st /\ x.gdb.resumes = w.gdb.resumes + 1
    <3>1. /\ x \in AllWorlds
          /\ x.st = w.st
          /\ x.gdb = [w.gdb EXCEPT !.process = "running", !.entry = FALSE, !.resumes = @ + 1]
      BY <1>0, ResumedIs DEF Kin
    <3>2. w.gdb \in Gdbs
      BY <1>0 DEF AllWorlds
    <3> QED
      BY <3>1, <3>2 DEF Gdbs
  <2> HIDE DEF x
  <2>4. "running" \in RunStates
    BY DEF RunStates
  <2>5. OnlyStatus(x, v) /\ v.st.deferred = x.st.deferred /\ v.st.missed = x.st.missed
    BY <2>1, <2>3, <2>4, InStateIs
  <2>6. /\ Past(x, v)
        /\ Alive(x) => Alive(v)
        /\ Clear(setting, x) => Clear(setting, v)
    BY <2>3, <2>5, StatusPast
  <2>7. Past(w, v)
    BY <2>2, <2>6, PastOn
  <2> QED
    BY <2>2, <2>3, <2>5, <2>6, <2>7 DEF OnlyStatus
<1>2. CASE Left(w, Plain("continue"), v)
  <2>1. v = w
    BY <1>2, LeftInTime
  <2>2. Past(w, w)
    BY <1>0, LaterSelf, LaterPast
  <2> QED
    BY <1>1, <2>1, <2>2
<1> QED
  BY <1>1, <1>2 DEF Carries

\* gdb's breakpoint on main is neither a name nor a run-to.
LEMMA MainsInTime ==
    ASSUME NEW w, NEW bp, OnMainBp(bp), Base(setting, w), setting.late = 0, NEW v, Mains(w, bp, v)
    PROVE  Later(w, v) /\ Narrows(w, v)
<1>1. PICK f \in BOOLEAN, verb \in {"insert", "insertNow"} : f = FALSE /\ verb = "insertNow"
  OBVIOUS
<1> DEFINE cmd == Inserting(verb, bp, f)
<1>0. w \in AllWorlds /\ bp \in Bps
  BY DEF Base, Shape, OnMainBp
<1>2. cmd \in Commands /\ cmd.bp = bp
  BY <1>0, InsertingIs
<1>3. v = Insert(w, cmd, f) \/ Left(w, cmd, v)
  BY <1>1 DEF Mains, MainOk
<1>4. cmd.bp.by # "runTo" /\ cmd.bp.place # "name"
  BY <1>2 DEF OnMainBp
<1> HIDE DEF cmd
<1>5. CASE v = Insert(w, cmd, f)
  BY <1>2, <1>4, <1>5, InsertLater
<1>6. CASE Left(w, cmd, v)
  <2>1. v = w
    BY <1>6, LeftInTime
  <2> QED
    BY <1>0, <2>1, LaterSelf
<1> QED
  BY <1>3, <1>5, <1>6

\* A stop handled.
LEMMA FinishInTime ==
    ASSUME NEW w, Base(setting, w), setting.late = 0, NEW v \in FinishDeferredStart(w)
    PROVE  /\ Past(w, v)
           /\ ~setting.refuse /\ Alive(w) /\ (w.st.deferred = "none" => Clear(setting, w))
                 => Waits(setting, v)
<1> DEFINE p == Deferring(w, "none")
<1>0. w \in AllWorlds
  BY DEF Base, Shape
<1>1. "none" \in Deferments
  BY DEF Deferments
<1>2. OnlyStatus(w, p) /\ p.st.deferred = "none"
  BY <1>0, <1>1, DeferringIs
<1>3. /\ Base(setting, p)
      /\ Past(w, p)
      /\ Alive(w) => Alive(p)
  BY <1>0, <1>2, StatusBase, StatusPast
<1>4. FinishIs(w, v)
  BY FinishDeferredStartIs
<1>5. \/ w.st.deferred = "none" /\ v = w
      \/ v \in ResolveDeferred(p)
      \/ \E x \in ResolveDeferred(p) : Carries(x, v)
      \/ \E x \in ResolveDeferred(p) : \E y : Mains(x, MainOf(w), y) /\ Carries(y, v)
  BY <1>4 DEF FinishIs
<1> HIDE DEF p
<1>6. ASSUME NEW x \in ResolveDeferred(p)
      PROVE  /\ Base(setting, x)
             /\ Past(w, x)
             /\ x.st.deferred = "none"
             /\ Alive(w) => Alive(x)
             /\ ~setting.refuse /\ Alive(w) => Clear(setting, x)
  <2>1. /\ Base(setting, x)
        /\ Past(p, x)
        /\ Alive(p) => Alive(x)
        /\ x.st.deferred = p.st.deferred
        /\ ~setting.refuse /\ x.gdb.up /\ x.gdb.next <= setting.numbers =>
              \A m \in DOMAIN x.gdb.table :
                  m \notin x.gdb.inherited /\ m \notin x.st.missed => x.gdb.table[m].place # "name"
    BY <1>3, <1>6, ResolveInTime
  <2>2. x.st.deferred = "none"
    BY <1>2, <2>1
  <2>3. Past(w, x)
    BY <1>3, <2>1, PastOn
  <2>4. Alive(w) => Alive(x)
    BY <1>3, <2>1
  <2>5. ~setting.refuse /\ Alive(w) => Clear(setting, x)
    <3>1. Alive(x) /\ x.gdb.process # "none" => x.gdb.up
      BY DEF Alive
    <3> QED
      BY <2>1, <2>4, <3>1 DEF Clear
  <2> QED
    BY <2>1, <2>2, <2>3, <2>4, <2>5
<1>7. CASE w.st.deferred = "none" /\ v = w
  BY <1>0, <1>7, LaterSelf, LaterPast DEF Waits
<1>8. CASE v \in ResolveDeferred(p)
  BY <1>6, <1>8 DEF Waits
<1>9. ASSUME NEW y, Base(setting, y), Past(w, y), y.st.deferred = "none", Alive(w) => Alive(y),
             ~setting.refuse /\ Alive(w) => Clear(setting, y), Carries(y, v)
      PROVE  Past(w, v) /\ (~setting.refuse /\ Alive(w) => Waits(setting, v))
  <2>1. /\ Past(y, v)
        /\ Alive(y) => Alive(v)
        /\ Clear(setting, y) => Clear(setting, v)
        /\ v.st.deferred = y.st.deferred
    BY <1>9, CarryInTime
  <2>2. Past(w, v)
    BY <1>9, <2>1, PastOn
  <2> QED
    BY <1>9, <2>1, <2>2 DEF Waits
<1>10. CASE \E x \in ResolveDeferred(p) : Carries(x, v)
  BY <1>6, <1>9, <1>10
<1>11. CASE \E x \in ResolveDeferred(p) : \E y : Mains(x, MainOf(w), y) /\ Carries(y, v)
  <2>0. PICK x \in ResolveDeferred(p) : \E y : Mains(x, MainOf(w), y) /\ Carries(y, v)
    BY <1>11
  <2>1. PICK y : Mains(x, MainOf(w), y) /\ Carries(y, v)
    BY <2>0
  <2>2. /\ Base(setting, x)
        /\ Past(w, x)
        /\ x.st.deferred = "none"
        /\ Alive(w) => Alive(x)
        /\ ~setting.refuse /\ Alive(w) => Clear(setting, x)
    BY <1>6
  <2> DEFINE bp == MainOf(w)
  <2>3. OnMainBp(bp)
    BY <1>0, MainOfIs
  <2> HIDE DEF bp
  <2>4. Base(setting, y) /\ Later(x, y) /\ Narrows(x, y)
    <3>1. Mains(x, bp, y)
      BY <2>1 DEF bp
    <3> QED
      BY <2>2, <2>3, <3>1, MainsBase, MainsInTime
  <2>5. Past(x, y) /\ y.st.deferred = "none" /\ (Alive(x) => Alive(y))
    BY <2>2, <2>4, LaterPast, LaterAlive DEF Later
  <2>6. Alive(x) /\ Clear(setting, x) => Clear(setting, y)
    <3>1. setting.numbers \in Nat
      BY DEF Base, Shape, Sized
    <3> QED
      BY <2>4, <3>1, LaterClear DEF Alive
  <2>7. Past(w, y)
    BY <2>2, <2>5, PastOn
  <2> QED
    BY <1>9, <2>1, <2>2, <2>4, <2>5, <2>6, <2>7
<1> QED
  BY <1>5, <1>7, <1>8, <1>10, <1>11

\* A record handled: the queue is shorter by one,
LEMMA RestInTime ==
    ASSUME NEW s, s.numbers \in Nat, NEW w, Base(s, w), w.intake # <<>>
    PROVE  Later(w, Rest(w)) /\ Narrows(w, Rest(w))
<1> DEFINE v == Rest(w)
<1>0. w \in AllWorlds
  BY DEF Base, Shape
<1>1. v \in AllWorlds /\ v.st = w.st /\ v.gdb = w.gdb /\ v.intake = Tail(w.intake)
  BY <1>0, RestIs
<1> HIDE DEF v
<1>2. QueueLater(w, v.intake)
  BY <1>0, <1>1, QueueRest
<1>3. SameStatus(v.gdb, w.gdb) /\ w.gdb.next <= v.gdb.next
  BY <1>0, <1>1, Counts DEF SameStatus
<1>4. \A n \in DOMAIN v.gdb.table : v.gdb.table[n].place = "name" => NamedAt(w, n, v.gdb.table[n].at)
  BY <1>1 DEF NamedAt
<1>5. Later(w, v)
  BY <1>0, <1>1, <1>2, <1>3, <1>4, LaterWith
<1>6. /\ \A n \in DOMAIN v.gdb.table : v.gdb.table[n].by = "runTo" => Aimed(w, v.gdb.table[n].at)
      /\ \A n \in DOMAIN v.st.mirror : v.st.mirror[n].by = "runTo" => Aimed(w, v.st.mirror[n].at)
  BY <1>1, AimedIn
<1>7. Narrows(w, v)
  BY <1>2, <1>6, NarrowsWith
<1> QED
  BY <1>5, <1>7 DEF v

\* and the mirror follows it.
LEMMA HeedInTime ==
    ASSUME NEW s, s.numbers \in Nat, NEW w, Base(s, w), w.intake # <<>>, NEW v,
           v = Heeded(Rest(w), Head(w.intake)) \/ v = Forget(Rest(w), Head(w.intake).n)
    PROVE  Later(w, v) /\ Past(w, v)
<1> DEFINE t == Rest(w)
           rec == Head(w.intake)
<1>0. w \in AllWorlds
  BY DEF Base, Shape
<1>1. t \in AllWorlds /\ t.st = w.st /\ t.gdb = w.gdb /\ t.intake = Tail(w.intake)
  BY <1>0, RestIs
<1>2. Later(w, t) /\ Narrows(w, t)
  BY RestInTime
<1>3. rec \in Records /\ \E k \in 1 .. Len(w.intake) : w.intake[k] = rec
  <2>1. w.intake \in Seq(Records)
    BY <1>0 DEF AllWorlds
  <2> QED
    BY <2>1, TailIs
<1>4. rec.bp.by = "runTo" => Aimed(w, rec.bp.at)
  BY <1>3 DEF Aimed
<1> HIDE DEF t, rec
<1>5. rec.n \in Nat
  BY <1>3 DEF Records
<1>6. /\ v \in AllWorlds
      /\ SameActor(v.st, t.st)
      /\ v.gdb = t.gdb
      /\ v.intake = t.intake
      /\ \A n \in DOMAIN v.st.mirror : \/ v.st.mirror[n] = rec.bp
                                       \/ n \in DOMAIN t.st.mirror /\ v.st.mirror[n] = t.st.mirror[n]
  <2>1. CASE v = Heeded(t, rec)
    <3>1. /\ v \in AllWorlds
          /\ SameActor(v.st, t.st)
          /\ v.gdb = t.gdb
          /\ v.intake = t.intake
          /\ Put(v.st.mirror, t.st.mirror, rec.n, rec.bp)
      BY <1>1, <1>3, <2>1, HeededIs
    <3> QED
      BY <3>1 DEF Put
  <2>2. CASE v = Forget(t, rec.n)
    <3>1. /\ v \in AllWorlds
          /\ SameActor(v.st, t.st)
          /\ v.gdb = t.gdb
          /\ v.intake = t.intake
          /\ v.st.mirror = Without(t.st.mirror, rec.n)
      BY <1>1, <1>5, <2>2, ForgetIs
    <3>2. t.st.mirror \in Tables
      BY <1>1 DEF AllWorlds, Mirrors
    <3>3. Cut(v.st.mirror, t.st.mirror, rec.n)
      BY <1>5, <3>1, <3>2, CutTable
    <3> QED
      BY <3>1, <3>3 DEF Cut
  <2> QED
    BY <2>1, <2>2 DEF t, rec
<1>7. Later(w, v)
  <2>1. Overtaken(v) => Overtaken(t)
    BY <1>6 DEF Overtaken
  <2> QED
    BY <1>0, <1>1, <1>2, <1>6, <2>1 DEF Later, SameActor
<1>8. Narrows(w, v)
  <2>1. QueueLater(w, v.intake)
    BY <1>0, <1>1, <1>6, QueueRest
  <2>2. \A n \in DOMAIN v.gdb.table : v.gdb.table[n].by = "runTo" => Aimed(w, v.gdb.table[n].at)
    BY <1>1, <1>6, AimedIn
  <2>3. \A n \in DOMAIN v.st.mirror : v.st.mirror[n].by = "runTo" => Aimed(w, v.st.mirror[n].at)
    BY <1>1, <1>4, <1>6, AimedIn
  <2> QED
    BY <2>1, <2>2, <2>3, NarrowsWith
<1> QED
  BY <1>7, <1>8, LaterPast

\* The stop noted, before the deferred start is finished.
LEMMA StoppedRest ==
    ASSUME NEW w, Base(setting, w), w.intake # <<>>, Head(w.intake).kind = "stopped"
    PROVE  Base(setting, InState(Rest(w), "stopped"))
<1> DEFINE t == Rest(w)
           x == InState(t, "stopped")
<1>0. w \in AllWorlds
  BY DEF Base, Shape
<1>1. /\ t \in AllWorlds
      /\ t.st = w.st
      /\ t.gdb = w.gdb
      /\ t.adrift = w.adrift
      /\ t.intake = Tail(w.intake)
  BY <1>0, RestIs
<1>2. OnlyStatus(t, x)
  BY <1>1, InStateIs DEF RunStates
<1>3. /\ x \in AllWorlds /\ x.gdb = t.gdb /\ x.adrift = t.adrift /\ x.intake = t.intake
      /\ x.st.mirror = t.st.mirror /\ x.st.ours = t.st.ours
  BY <1>2 DEF OnlyStatus
<1>4. "stopped" \notin ToldKinds
  BY DEF ToldKinds
<1>5. Taken(w, x)
  BY <1>1, <1>3, <1>4 DEF Taken, Ignoring
<1> HIDE DEF x
<1> QED
  BY <1>5, TakenBase DEF x, t

\* A record handled in time: a stop that ends a deferred start has placed the
\* names when it resumes.
LEMMA OnRecordInTime ==
    ASSUME NEW w, Base(setting, w), w.intake # <<>>, setting.late = 0, NEW v, OnRecordIs(w, v)
    PROVE  /\ Past(w, v)
           /\ ~setting.refuse /\ Waits(setting, w) => Waits(setting, v)
<1> DEFINE rec == Head(w.intake)
           t == Rest(w)
           x == InState(t, "stopped")
<1>0. w \in AllWorlds /\ setting.numbers \in Nat
  BY DEF Base, Shape, Sized
<1>1. /\ t \in AllWorlds /\ t.st = w.st /\ t.gdb = w.gdb
      /\ Later(w, t) /\ Past(w, t)
  BY <1>0, RestIs, RestInTime, LaterPast
<1>2. \/ v = t
      \/ v = Heeded(t, rec) \/ v = Forget(t, rec.n)
      \/ \E r \in {"running", "none"} : v = InState(t, r)
      \/ rec.kind = "exited" /\ v = Gone(t)
      \/ rec.kind = "stopped" /\ v \in FinishDeferredStart(x)
  BY DEF OnRecordIs
<1>3. CASE v = t
  BY <1>0, <1>1, <1>3, LaterWaits
<1>4. CASE v = Heeded(t, rec) \/ v = Forget(t, rec.n)
  <2>1. Later(w, v) /\ Past(w, v)
    BY <1>0, <1>4, HeedInTime
  <2> QED
    BY <1>0, <2>1, LaterWaits
<1>5. ASSUME NEW r \in {"running", "none"}, v = InState(t, r)
      PROVE  /\ Past(w, v)
             /\ ~setting.refuse /\ Waits(setting, w) => Waits(setting, v)
  <2> HIDE DEF t
  <2>1. /\ OnlyStatus(t, v)
        /\ v.st.runState = r
        /\ v.st.deferred = t.st.deferred
        /\ v.st.missed = t.st.missed
    BY <1>1, <1>5, InStateIs DEF RunStates
  <2>2. /\ Past(t, v)
        /\ Alive(t) => Alive(v)
        /\ Clear(setting, t) => Clear(setting, v)
    BY <1>1, <2>1, StatusPast
  <2>3. Past(w, v)
    BY <1>1, <2>2, PastOn
  <2>4. Waits(setting, w) => Waits(setting, t)
    BY <1>0, <1>1, LaterWaits
  <2>5. v.gdb.entry = t.gdb.entry
    BY <2>1 DEF OnlyStatus
  <2> QED
    BY <1>5, <2>1, <2>2, <2>3, <2>4, <2>5 DEF Waits
<1>6. CASE rec.kind = "exited" /\ v = Gone(t)
  <2>1. Overtaken(w)
    <3>1. w.intake \in Seq(Records)
      BY <1>0 DEF AllWorlds
    <3>2. 1 \in DOMAIN w.intake /\ w.intake[1] = rec
      BY <3>1, TailIs
    <3> QED
      BY <1>6, <3>2 DEF Overtaken
  <2> HIDE DEF t
  <2>2. OnlyStatus(t, v) /\ v.st.deferred = "none"
    BY <1>1, <1>6, GoneIs
  <2>3. Past(t, v) /\ (Alive(t) => Alive(v))
    BY <1>1, <2>2, StatusPast
  <2>4. Past(w, v)
    BY <1>1, <2>3, PastOn
  <2>5. Alive(w) => Alive(t)
    BY <1>1, LaterAlive
  <2>6. v.gdb = w.gdb
    BY <1>1, <2>2 DEF OnlyStatus
  <2>7. Alive(w) => Clear(setting, v)
    BY <2>1, <2>6 DEF Alive, Clear
  <2> QED
    BY <2>2, <2>3, <2>4, <2>5, <2>7 DEF Waits
<1>7. CASE rec.kind = "stopped" /\ v \in FinishDeferredStart(x)
  <2>1. Base(setting, x)
    BY <1>7, StoppedRest
  <2> HIDE DEF t
  <2>2. OnlyStatus(t, x) /\ x.st.deferred = t.st.deferred /\ x.st.missed = t.st.missed
    BY <1>1, InStateIs DEF RunStates
  <2>3. /\ Past(t, x)
        /\ Alive(t) => Alive(x)
        /\ Clear(setting, t) => Clear(setting, x)
    BY <1>1, <2>2, StatusPast
  <2>4. Past(w, x)
    BY <1>1, <2>3, PastOn
  <2>5. Waits(setting, w) => Waits(setting, t)
    BY <1>0, <1>1, LaterWaits
  <2>6. Waits(setting, w) => Alive(x) /\ (x.st.deferred = "none" => Clear(setting, x))
    BY <2>2, <2>3, <2>5 DEF Waits
  <2> HIDE DEF x
  <2>7. /\ Past(x, v)
        /\ ~setting.refuse /\ Alive(x) /\ (x.st.deferred = "none" => Clear(setting, x))
              => Waits(setting, v)
    BY <1>7, <2>1, FinishInTime
  <2>8. Past(w, v)
    BY <2>4, <2>7, PastOn
  <2> QED
    BY <2>6, <2>7, <2>8
<1> QED
  BY <1>2, <1>3, <1>4, <1>5, <1>6, <1>7

-----------------------------------------------------------------------------
(* gdb's moves.                                                            *)

\* An exit in the queue was there before.
LEMMA QueueOvertaken ==
    ASSUME NEW w \in AllWorlds, NEW v \in AllWorlds, QueueLater(w, v.intake)
    PROVE  Overtaken(v) => Overtaken(w)
<1>1. DOMAIN v.intake = 1 .. Len(v.intake) /\ DOMAIN w.intake = 1 .. Len(w.intake)
  BY DEF AllWorlds
<1> QED
  BY <1>1 DEF Overtaken, QueueLater

\* The breakpoints are those there were.
LEMMA MovesPast ==
    ASSUME NEW w \in AllWorlds, NEW v \in AllWorlds, v.st = w.st, QueueLater(w, v.intake),
           w.gdb.resumes <= v.gdb.resumes,
           \A n \in DOMAIN v.gdb.table : /\ n \in DOMAIN w.gdb.table
                                         /\ Alike(v.gdb.table[n], w.gdb.table[n])
    PROVE  Past(w, v)
<1>1. \A n \in DOMAIN v.gdb.table : v.gdb.table[n].by = "runTo" => Aimed(w, v.gdb.table[n].at)
  BY AimedIn DEF Alike
<1>2. \A n \in DOMAIN v.st.mirror : v.st.mirror[n].by = "runTo" => Aimed(w, v.st.mirror[n].at)
  BY AimedIn
<1>3. Narrows(w, v)
  BY <1>1, <1>2, NarrowsWith
<1> QED
  BY <1>3 DEF Past

\* Without a process nothing waits.
LEMMA NoProcess ==
    ASSUME NEW s, NEW v, v.gdb.process = "none"
    PROVE  Alive(v) /\ Clear(s, v)
BY DEF Alive, Clear

\* The process stops, if it does not end.
LEMMA StopsInTime ==
    ASSUME NEW s, NEW w \in AllWorlds, NEW v \in AllWorlds, v.st = w.st, QueueLater(w, v.intake),
           w.gdb.process = "running",
           v.gdb.up = w.gdb.up, v.gdb.entry = w.gdb.entry, v.gdb.next = w.gdb.next,
           v.gdb.resumes = w.gdb.resumes, v.gdb.began = w.gdb.began,
           v.gdb.overtaken = w.gdb.overtaken, v.gdb.inherited = w.gdb.inherited,
           \A n \in DOMAIN v.gdb.table : /\ n \in DOMAIN w.gdb.table
                                         /\ Alike(v.gdb.table[n], w.gdb.table[n])
    PROVE  Past(w, v) /\ (Waits(s, w) => Waits(s, v))
<1>1. Past(w, v)
  BY Counts, MovesPast
<1>2. Alive(w) => Alive(v)
  BY QueueOvertaken DEF Alive
<1>3. Clear(s, w) => Clear(s, v)
  BY DEF Clear, Alike
<1> QED
  BY <1>1, <1>2, <1>3 DEF Waits

\* The program's stop leaves names waiting as they were,
LEMMA PauseInTime ==
    ASSUME NEW s, NEW w \in AllWorlds, w.gdb.process = "running"
    PROVE  Past(w, Pause(w)) /\ (Waits(s, w) => Waits(s, Pause(w)))
<1> DEFINE v == Pause(w)
           d == w.gdb.stops + 1
           g == [w.gdb EXCEPT !.process = "stopped", !.stops = d]
           rec == Record("stopped", 0, NoBreakpoint)
<1>0. w.gdb \in Gdbs /\ d \in Nat /\ w.intake \in Seq(Records)
  BY DEF AllWorlds, Gdbs
<1>1. /\ v \in AllWorlds
      /\ v.st = w.st
      /\ v.gdb = [w.gdb EXCEPT !.process = "stopped", !.stops = @ + 1]
      /\ v.intake = Append(w.intake, rec)
  BY PauseIs DEF Kin
<1>2. v.gdb = g
  BY <1>1, Zenon
<1> HIDE DEF v, d
<1>3. /\ g.up = w.gdb.up
      /\ g.entry = w.gdb.entry
      /\ g.next = w.gdb.next
      /\ g.resumes = w.gdb.resumes
      /\ g.began = w.gdb.began
      /\ g.overtaken = w.gdb.overtaken
      /\ g.inherited = w.gdb.inherited
      /\ g.table = w.gdb.table
  BY <1>0 DEF Gdbs
<1> HIDE DEF g
<1>4. "stopped" \in Kinds /\ 0 \in Nat /\ NoBreakpoint \in Bps /\ NoBreakpoint.by = "gdb"
  BY NoBreakpointType DEF Kinds, NoBreakpoint, Breakpoint
<1>5. rec \in Records /\ rec.kind = "stopped" /\ rec.bp = NoBreakpoint
  BY <1>4, RecordType
<1> HIDE DEF rec
<1>6. rec.kind # "exited" /\ (rec.bp.by = "runTo" => Aimed(w, rec.bp.at))
  BY <1>4, <1>5
<1>7. QueueLater(w, v.intake)
  BY <1>0, <1>1, <1>5, <1>6, QueueSame, QueueTold
<1>8. \A n \in DOMAIN v.gdb.table : /\ n \in DOMAIN w.gdb.table
                                    /\ Alike(v.gdb.table[n], w.gdb.table[n])
  BY <1>2, <1>3 DEF Alike
<1>9. Past(w, v) /\ (Waits(s, w) => Waits(s, v))
  BY <1>1, <1>2, <1>3, <1>7, <1>8, StopsInTime
<1> QED
  BY <1>9 DEF v

\* its exit does,
LEMMA ExitInTime ==
    ASSUME NEW s, NEW w \in AllWorlds
    PROVE  Past(w, Exit(w)) /\ (Waits(s, w) => Waits(s, Exit(w)))
<1> DEFINE v == Exit(w)
           d == w.gdb.stops + 1
           g == [w.gdb EXCEPT !.process = "none", !.stops = d]
<1>0. w.gdb \in Gdbs /\ d \in Nat
  BY DEF AllWorlds, Gdbs
<1>1. /\ v \in AllWorlds
      /\ v.st = w.st
      /\ v.gdb = [w.gdb EXCEPT !.process = "none", !.stops = @ + 1]
      /\ v.intake = Append(w.intake, Record("exited", 0, NoBreakpoint))
  BY ExitIs DEF Kin
<1>2. v.gdb = g
  BY <1>1, Zenon
<1> HIDE DEF v, d
<1>3. g.process = "none" /\ g.resumes = w.gdb.resumes /\ g.table = w.gdb.table
  BY <1>0 DEF Gdbs
<1> HIDE DEF g
<1>4. "exited" \in Kinds
  BY DEF Kinds
<1>5. w.gdb.resumes <= v.gdb.resumes
  BY <1>2, <1>3, Counts
<1>6. Past(w, v)
  BY <1>1, <1>2, <1>3, <1>4, <1>5, SaysPast
<1>7. Alive(v) /\ Clear(s, v)
  BY <1>2, <1>3, NoProcess
<1> QED
  BY <1>1, <1>6, <1>7 DEF v, Waits

\* a hit does,
LEMMA HitInTime ==
    ASSUME NEW s, NEW w, Base(s, w), w.gdb.process = "running", NEW n \in DOMAIN w.gdb.table
    PROVE  Past(w, Hit(w, n)) /\ (Waits(s, w) => Waits(s, Hit(w, n)))
<1> DEFINE v == Hit(w, n)
           h == HitStop(w, n)
           d == w.gdb.stops + 1
           g == [w.gdb EXCEPT !.process = "stopped", !.stops = d]
           bp == w.gdb.table[n]
           told == Record("modified", n, bp)
           stop == Record("stopped", 0, NoBreakpoint)
           gone == Record("deleted", n, bp)
           cut == Without(w.gdb.table, n)
           e == [h.gdb EXCEPT !.table = cut]
<1>0. /\ w \in AllWorlds /\ w.gdb \in Gdbs /\ d \in Nat /\ w.intake \in Seq(Records)
      /\ w.gdb.table \in Tables
  BY DEF Base, Shape, AllWorlds, Gdbs
<1>1. n \in Nat /\ bp \in Bps
  BY <1>0, TableBp
<1>2. /\ h \in AllWorlds
      /\ h.st = w.st
      /\ h.gdb = [w.gdb EXCEPT !.process = "stopped", !.stops = @ + 1]
      /\ h.intake = Append(Append(w.intake, told), stop)
      /\ told \in Records
  BY <1>0, HitStopIs DEF Kin
<1>3. h.gdb = g
  BY <1>2, Zenon
<1>4. /\ v \in AllWorlds
      /\ v.st = w.st
      /\ ~bp.temporary => v = h
      /\ bp.temporary => /\ v.gdb = e
                         /\ v.intake = Append(h.intake, gone)
  BY <1>0, HitIs
<1>a. bp.by = "runTo" => Aimed(w, bp.at)
  BY AimedIn
<1>c. cut \in Tables /\ Cut(cut, w.gdb.table, n)
  BY <1>0, <1>1, TableWithout, CutTable
<1>n. n \in DOMAIN w.gdb.table
  OBVIOUS
<1> HIDE DEF v, h, d, bp, cut
<1>5. /\ g \in Gdbs
      /\ g.up = w.gdb.up
      /\ g.entry = w.gdb.entry
      /\ g.next = w.gdb.next
      /\ g.resumes = w.gdb.resumes
      /\ g.began = w.gdb.began
      /\ g.overtaken = w.gdb.overtaken
      /\ g.inherited = w.gdb.inherited
      /\ g.table = w.gdb.table
  BY <1>0 DEF Gdbs
<1> HIDE DEF g
<1>6. /\ e.up = w.gdb.up
      /\ e.entry = w.gdb.entry
      /\ e.next = w.gdb.next
      /\ e.resumes = w.gdb.resumes
      /\ e.began = w.gdb.began
      /\ e.overtaken = w.gdb.overtaken
      /\ e.inherited = w.gdb.inherited
      /\ e.table = cut
  BY <1>3, <1>5, <1>c DEF Gdbs
<1> HIDE DEF e
<1>7. /\ "modified" \in Kinds /\ "stopped" \in Kinds /\ "deleted" \in Kinds /\ 0 \in Nat
      /\ NoBreakpoint \in Bps /\ NoBreakpoint.by = "gdb"
  BY NoBreakpointType DEF Kinds, ToldKinds, NoBreakpoint, Breakpoint
<1>8. /\ told \in Records /\ told.kind = "modified" /\ told.bp = bp
      /\ stop \in Records /\ stop.kind = "stopped" /\ stop.bp = NoBreakpoint
      /\ gone \in Records /\ gone.kind = "deleted" /\ gone.bp = bp
  BY <1>1, <1>7, RecordType
<1> HIDE DEF told, stop, gone
<1>9. QueueLater(w, h.intake) /\ h.intake \in Seq(Records)
  <2> DEFINE q == Append(w.intake, told)
  <2>1. told.kind # "exited" /\ (told.bp.by = "runTo" => Aimed(w, told.bp.at))
    BY <1>8, <1>a
  <2>2. QueueLater(w, q) /\ q \in Seq(Records)
    BY <1>0, <1>8, <2>1, QueueSame, QueueTold
  <2>3. stop.kind # "exited" /\ (stop.bp.by = "runTo" => Aimed(w, stop.bp.at))
    BY <1>7, <1>8
  <2> HIDE DEF q
  <2>4. QueueLater(w, Append(q, stop)) /\ Append(q, stop) \in Seq(Records)
    BY <1>0, <1>8, <2>2, <2>3, QueueTold
  <2> QED
    BY <1>2, <2>4 DEF q
<1>10. CASE ~bp.temporary
  <2>1. v.gdb = g /\ v.intake = h.intake
    BY <1>3, <1>4, <1>10
  <2>2. \A m \in DOMAIN v.gdb.table : /\ m \in DOMAIN w.gdb.table
                                      /\ Alike(v.gdb.table[m], w.gdb.table[m])
    BY <1>5, <2>1 DEF Alike
  <2>3. Past(w, v) /\ (Waits(s, w) => Waits(s, v))
    BY <1>0, <1>4, <1>5, <1>9, <2>1, <2>2, StopsInTime
  <2> QED
    BY <2>3 DEF v
<1>11. CASE bp.temporary
  <2>1. v.gdb = e /\ v.intake = Append(h.intake, gone)
    BY <1>4, <1>11
  <2>2. \A m \in DOMAIN v.gdb.table : /\ m \in DOMAIN w.gdb.table
                                      /\ Alike(v.gdb.table[m], w.gdb.table[m])
    BY <1>6, <1>c, <2>1 DEF Alike, Cut
  <2>3. gone.kind # "exited" /\ (gone.bp.by = "runTo" => Aimed(w, gone.bp.at))
    BY <1>8, <1>a
  <2>4. QueueLater(w, v.intake)
    BY <1>0, <1>8, <1>9, <2>1, <2>3, QueueTold
  <2>5. Past(w, v) /\ (Waits(s, w) => Waits(s, v))
    BY <1>0, <1>4, <1>6, <2>1, <2>2, <2>4, StopsInTime
  <2> QED
    BY <2>5 DEF v
<1> QED
  BY <1>10, <1>11

\* and so does the end of a process.
LEMMA EndedLater ==
    ASSUME NEW w \in AllWorlds
    PROVE  QueueLater(w, Ended(w).intake) /\ Ended(w).intake \in Seq(Records)
<1> DEFINE rec == Record("ended", 0, NoBreakpoint)
<1>1. \/ Ended(w).intake = w.intake
      \/ Ended(w).intake = Append(w.intake, rec)
  BY EndedIs
<1>2. "ended" \in Kinds /\ 0 \in Nat /\ NoBreakpoint \in Bps /\ NoBreakpoint.by = "gdb"
  BY NoBreakpointType DEF Kinds, NoBreakpoint, Breakpoint
<1>3. rec \in Records /\ rec.kind = "ended" /\ rec.bp = NoBreakpoint
  BY <1>2, RecordType
<1> HIDE DEF rec
<1>4. w.intake \in Seq(Records) /\ QueueLater(w, w.intake)
  BY QueueSame DEF AllWorlds
<1>5. rec.kind # "exited" /\ (rec.bp.by = "runTo" => Aimed(w, rec.bp.at))
  BY <1>2, <1>3
<1>6. QueueLater(w, Append(w.intake, rec)) /\ Append(w.intake, rec) \in Seq(Records)
  BY <1>3, <1>4, <1>5, QueueTold
<1> QED
  BY <1>1, <1>4, <1>6

\* What gdb finds in a new file or a library is told of breakpoints there are.
LEMMA NewsLater ==
    ASSUME NEW s, NEW w, NEW g \in Gdbs, Shape(s, w), NEW q \in Seq(Records), QueueLater(w, q)
    PROVE  /\ QueueLater(w, q \o RereadNews(w, g))
           /\ \A n \in DOMAIN Reread(w, g) : /\ n \in DOMAIN w.gdb.table
                                            /\ Alike(Reread(w, g)[n], w.gdb.table[n])
<1> DEFINE news == RereadNews(w, g)
           table == Reread(w, g)
<1>0. w \in AllWorlds
  BY DEF Shape
<1>3. /\ DOMAIN table = DOMAIN w.gdb.table
      /\ \A n \in DOMAIN table : Alike(table[n], w.gdb.table[n])
  BY <1>0, RereadIs
<1>4. /\ news \in Seq(Records)
      /\ \A j \in 1 .. Len(news) : /\ news[j].n \in DOMAIN table
                                   /\ news[j].kind = "modified"
                                   /\ news[j].bp = table[news[j].n]
  BY RereadNewsAre
<1> HIDE DEF news, table
<1>5. \A j \in 1 .. Len(news) : /\ news[j].kind # "exited"
                                /\ news[j].bp.by = "runTo" => Aimed(w, news[j].bp.at)
  BY <1>3, <1>4, AimedIn DEF Alike
<1> DEFINE z == q \o news
<1>7. \A i \in 1 .. Len(z) : \/ i \in 1 .. Len(q) /\ z[i] = q[i]
                             \/ \E j \in 1 .. Len(news) : z[i] = news[j]
  BY <1>4, QueueHolds
<1> HIDE DEF z
<1>8. QueueLater(w, z)
  BY <1>5, <1>7 DEF QueueLater
<1> QED
  BY <1>3, <1>8 DEF z, news, table

\* A load ends the process.
LEMMA LoadInTime ==
    ASSUME NEW s, NEW w, Base(s, w)
    PROVE  Past(w, Load(w)) /\ Alive(Load(w)) /\ Clear(s, Load(w))
<1> DEFINE v == Load(w)
           q == Ended(w).intake
           g == WithProgram(w.gdb)
<1>0. w \in AllWorlds /\ Shape(s, w)
  BY DEF Base, Shape
<1>1. /\ v \in AllWorlds
      /\ v.st = w.st
      /\ v.gdb.table = Reread(w, g)
      /\ v.gdb.process = "none"
      /\ v.gdb.resumes = w.gdb.resumes
      /\ v.intake = q \o RereadNews(w, g)
  BY LoadIs DEF Base
<1>2. QueueLater(w, q) /\ q \in Seq(Records)
  BY <1>0, EndedLater
<1>3. g \in Gdbs
  BY <1>0 DEF WithProgram, AllWorlds, Gdbs
<1> HIDE DEF v, q, g
<1>4. /\ QueueLater(w, q \o RereadNews(w, g))
      /\ \A n \in DOMAIN Reread(w, g) : /\ n \in DOMAIN w.gdb.table
                                       /\ Alike(Reread(w, g)[n], w.gdb.table[n])
  BY <1>0, <1>2, <1>3, NewsLater
<1>5. w.gdb.resumes <= v.gdb.resumes
  BY <1>0, <1>1, Counts
<1>6. \A n \in DOMAIN v.gdb.table : /\ n \in DOMAIN w.gdb.table
                                    /\ Alike(v.gdb.table[n], w.gdb.table[n])
  BY <1>1, <1>4
<1>7. Past(w, v)
  <2>1. QueueLater(w, v.intake)
    BY <1>1, <1>4
  <2> QED
    BY <1>0, <1>1, <1>5, <1>6, <2>1, MovesPast
<1> QED
  BY <1>1, <1>7, NoProcess DEF v

\* A library ends none, and says of none.
LEMMA LibraryInTime ==
    ASSUME NEW s, NEW w, Base(s, w), w.gdb.process = "running"
    PROVE  Past(w, LoadLibrary(w)) /\ (Waits(s, w) => Waits(s, LoadLibrary(w)))
<1> DEFINE v == LoadLibrary(w)
           g == WithLibrary(w.gdb)
<1>0. w \in AllWorlds /\ Shape(s, w)
  BY DEF Base, Shape
<1>1. /\ v \in AllWorlds
      /\ v.st = w.st
      /\ v.gdb.table = Reread(w, g)
      /\ SameRest(v.gdb, w.gdb)
      /\ v.gdb.resumes = w.gdb.resumes
      /\ v.gdb.began = w.gdb.began
      /\ v.gdb.entry = w.gdb.entry
      /\ v.gdb.overtaken = w.gdb.overtaken
      /\ v.intake = w.intake \o RereadNews(w, g)
  BY <1>0, LibraryIs
<1>2. QueueLater(w, w.intake) /\ w.intake \in Seq(Records)
  BY <1>0, QueueSame DEF AllWorlds
<1>3. g \in Gdbs
  BY <1>0 DEF WithLibrary, AllWorlds, Gdbs
<1> HIDE DEF v, g
<1>4. /\ QueueLater(w, w.intake \o RereadNews(w, g))
      /\ \A n \in DOMAIN Reread(w, g) : /\ n \in DOMAIN w.gdb.table
                                       /\ Alike(Reread(w, g)[n], w.gdb.table[n])
  BY <1>0, <1>2, <1>3, NewsLater
<1>5. \A n \in DOMAIN v.gdb.table : /\ n \in DOMAIN w.gdb.table
                                    /\ Alike(v.gdb.table[n], w.gdb.table[n])
  BY <1>1, <1>4
<1>6. QueueLater(w, v.intake)
  BY <1>1, <1>4
<1>7. /\ v.gdb.up = w.gdb.up
      /\ v.gdb.next = w.gdb.next
      /\ v.gdb.inherited = w.gdb.inherited
  BY <1>1 DEF SameRest
<1>8. Past(w, v) /\ (Waits(s, w) => Waits(s, v))
  BY <1>0, <1>1, <1>5, <1>6, <1>7, StopsInTime
<1> QED
  BY <1>8 DEF v

-----------------------------------------------------------------------------
(* The handlers, in time.                                                  *)

\* A start says of no exit, and asks for no breakpoint on a name.
LEMMA StartInTime ==
    ASSUME NEW w \in AllWorlds, NEW verb, NEW v, v = Start(w, verb)
    PROVE  /\ Past(w, v)
           /\ Runs(w, verb, v)
           /\ Overtaken(v) => Overtaken(w)
           /\ \A n \in DOMAIN v.gdb.table : v.gdb.table[n].place = "name" =>
                  n \in DOMAIN w.gdb.table /\ w.gdb.table[n].place = "name"
<1> DEFINE e == Ended(w).intake
           rec == Record("running", 0, NoBreakpoint)
<1>0. w.gdb.table \in Tables /\ w.gdb.next \in Nat /\ w.gdb.resumes \in Nat
  BY DEF AllWorlds, Gdbs
<1>1. Runs(w, verb, v) /\ (RunsPlainly(w, v) \/ RunsToMain(w, v))
  BY StartIs
<1>2. QueueLater(w, e) /\ e \in Seq(Records)
  BY EndedLater
<1> HIDE DEF e
<1>3. "running" \in Kinds /\ 0 \in Nat /\ NoBreakpoint \in Bps /\ NoBreakpoint.by = "gdb"
  BY NoBreakpointType DEF Kinds, NoBreakpoint, Breakpoint
<1>4. rec \in Records /\ rec.kind = "running" /\ rec.bp = NoBreakpoint
  BY <1>3, RecordType
<1>5. rec.kind # "exited" /\ (rec.bp.by = "runTo" => Aimed(w, rec.bp.at))
  BY <1>3, <1>4
<1>6. w.gdb.resumes <= v.gdb.resumes /\ v \in AllWorlds /\ v.st = w.st
  <2>1. v.gdb.resumes = w.gdb.resumes + 1
    BY <1>1 DEF Runs
  <2> QED
    BY <1>0, <1>1, <2>1 DEF Runs
<1>7. ASSUME RunsPlainly(w, v)
      PROVE  /\ QueueLater(w, v.intake)
             /\ \A n \in DOMAIN v.gdb.table : v.gdb.table[n].by = "runTo" => Aimed(w, v.gdb.table[n].at)
             /\ \A n \in DOMAIN v.gdb.table : v.gdb.table[n].place = "name" =>
                    n \in DOMAIN w.gdb.table /\ w.gdb.table[n].place = "name"
  <2>1. v.gdb.table = w.gdb.table /\ v.intake = Append(e, rec)
    BY <1>7 DEF RunsPlainly, e
  <2> HIDE DEF rec
  <2>2. QueueLater(w, v.intake)
    BY <1>2, <1>4, <1>5, <2>1, QueueTold
  <2> QED
    BY <2>1, <2>2, AimedIn
<1>8. ASSUME RunsToMain(w, v)
      PROVE  /\ QueueLater(w, v.intake)
             /\ \A n \in DOMAIN v.gdb.table : v.gdb.table[n].by = "runTo" => Aimed(w, v.gdb.table[n].at)
             /\ \A n \in DOMAIN v.gdb.table : v.gdb.table[n].place = "name" =>
                    n \in DOMAIN w.gdb.table /\ w.gdb.table[n].place = "name"
  <2> DEFINE k == w.gdb.next
  <2>1. PICK bp \in Bps : /\ OnMainBp(bp)
                          /\ v.gdb.table = With(w.gdb.table, k, bp)
                          /\ v.intake = Append(Append(e, Record("created", k, bp)), rec)
    BY <1>8 DEF RunsToMain, e
  <2> DEFINE made == Record("created", k, bp)
  <2>2. "created" \in Kinds /\ bp.by = "gdb" /\ bp.place = "main"
    BY <2>1 DEF Kinds, ToldKinds, OnMainBp
  <2>3. made \in Records /\ made.kind = "created" /\ made.bp = bp
    BY <1>0, <2>2, RecordType
  <2>4. v.intake = Append(Append(e, made), rec)
    BY <2>1
  <2> HIDE DEF made, rec, k
  <2>5. made.kind # "exited" /\ (made.bp.by = "runTo" => Aimed(w, made.bp.at))
    BY <2>2, <2>3
  <2> DEFINE f == Append(e, made)
  <2>6. QueueLater(w, f) /\ f \in Seq(Records)
    BY <1>2, <2>3, <2>5, QueueTold
  <2> HIDE DEF f
  <2>7. QueueLater(w, v.intake)
    BY <1>4, <1>5, <2>4, <2>6, QueueTold DEF f
  <2>8. Put(v.gdb.table, w.gdb.table, k, bp)
    BY <1>0, <2>1, PutTable DEF k
  <2>9. \A n \in DOMAIN v.gdb.table : /\ n = k => v.gdb.table[n] = bp
                                      /\ n # k => /\ n \in DOMAIN w.gdb.table
                                                  /\ v.gdb.table[n] = w.gdb.table[n]
    BY <2>8 DEF Put
  <2> QED
    BY <2>2, <2>7, <2>9, AimedIn
<1> HIDE DEF rec
<1>9. Overtaken(v) => Overtaken(w)
  BY <1>1, <1>6, <1>7, <1>8, QueueOvertaken
<1>10. \A n \in DOMAIN v.st.mirror : v.st.mirror[n].by = "runTo" => Aimed(w, v.st.mirror[n].at)
  BY <1>6, AimedIn
<1>11. Narrows(w, v)
  BY <1>1, <1>7, <1>8, <1>10, NarrowsWith
<1> QED
  BY <1>1, <1>6, <1>7, <1>8, <1>9, <1>11 DEF Past

\* A run.
LEMMA RunOkInTime ==
    ASSUME NEW w, NEW verb \in RunVerbs, Base(setting, w), setting.late = 0, NEW v,
           RunOk(w, verb, v)
    PROVE  /\ Past(w, v)
           /\ v.gdb.resumes = w.gdb.resumes + 1
           /\ Waits(setting, v)
<1>n. PICK named \in SUBSET Deferred(w) : RunsNaming(w, verb, named, v)
  BY DEF RunOk
<1> DEFINE a == StartCommand(verb, named).verb
           d == StartCommand(verb, named).deferred
           M == Deferred(w) \ named
           x == Start(w, a)
<1>0. w \in AllWorlds /\ w.gdb.resumes \in Nat /\ setting.numbers \in Nat
  BY DEF Base, Shape, Sized, AllWorlds, Gdbs
<1>1. /\ a \in RunVerbs
      /\ d \in Deferments
      /\ d # "none" => a = "starti"
      /\ d = "none" => named = {}
  BY StartCommandIs
<1>2. w.gdb.up /\ v = Starting(x, d, M)
  BY <1>n DEF RunsNaming, Heard
<1>m. M \in SUBSET Nat
  BY DeferredNat
<1>d. d = "none" => M = Deferred(w)
  BY <1>1
<1> HIDE DEF a, d, M
<1>3. /\ Past(w, x)
      /\ Runs(w, a, x)
      /\ Overtaken(x) => Overtaken(w)
      /\ \A n \in DOMAIN x.gdb.table : x.gdb.table[n].place = "name" =>
             n \in DOMAIN w.gdb.table /\ w.gdb.table[n].place = "name"
  BY <1>0, StartInTime
<1> HIDE DEF x
<1>4. x \in AllWorlds
  BY <1>3 DEF Past
<1>5. /\ OnlyStatus(x, v)
      /\ v.st.runState = "running"
      /\ v.st.deferred = d
      /\ v.st.missed = M
  BY <1>1, <1>2, <1>4, <1>m, StartingIs
<1>6. Past(x, v) /\ (Alive(x) => Alive(v))
  BY <1>4, <1>5, StatusPast
<1>7. Past(w, v)
  BY <1>3, <1>6, PastOn
<1>8. v.gdb = x.gdb
  BY <1>5 DEF OnlyStatus
<1>9. v.gdb.resumes = w.gdb.resumes + 1
  BY <1>3, <1>8 DEF Runs
<1>10. Alive(x)
  <2>1. x.gdb.up /\ x.gdb.process = "running" /\ x.gdb.overtaken = Overtaken(w)
    BY <1>2, <1>3 DEF Runs
  <2>2. x.gdb.began < x.gdb.resumes
    <3>1. x.gdb.began = w.gdb.resumes /\ x.gdb.resumes = w.gdb.resumes + 1
      BY <1>3 DEF Runs
    <3> QED
      BY <1>0, <3>1
  <2> QED
    BY <1>3, <2>1, <2>2 DEF Alive
<1>11. CASE d = "none"
  <2>1. \A n \in DOMAIN w.gdb.table :
           n \notin w.gdb.inherited /\ w.gdb.table[n].place = "name" => n \in Deferred(w)
    BY DEF Base, NamesShown, Deferred
  <2>2. v.gdb.inherited = w.gdb.inherited
    BY <1>3, <1>8 DEF Runs
  <2>3. \A n \in DOMAIN v.gdb.table :
           n \notin v.gdb.inherited /\ v.gdb.table[n].place = "name" => n \in v.st.missed
    BY <1>3, <1>5, <1>8, <1>d, <1>11, <2>1, <2>2
  <2>4. Clear(setting, v)
    BY <2>3 DEF Clear
  <2> QED
    BY <1>5, <1>6, <1>7, <1>9, <1>10, <1>11, <2>4 DEF Waits
<1>12. CASE d # "none"
  <2>1. x.gdb.entry = TRUE
    BY <1>1, <1>3, <1>12 DEF Runs
  <2> QED
    BY <1>5, <1>6, <1>7, <1>8, <1>9, <1>10, <1>12, <2>1 DEF Waits
<1> QED
  BY <1>11, <1>12

\* What a step may leave, in time.
Keeps(w, v) == Past(w, v) /\ (Waits(setting, w) => Waits(setting, v))

\* A step that leaves the process keeps both.
LEMMA LaterKeeps ==
    ASSUME NEW w, NEW v, setting.numbers \in Nat, Later(w, v), Narrows(w, v)
    PROVE  Keeps(w, v)
BY LaterPast, LaterWaits DEF Keeps

\* Steps that keep both, behind one another.
LEMMA KeepsOn ==
    ASSUME NEW w, NEW v, NEW u, Keeps(w, v), Keeps(v, u)
    PROVE  Keeps(w, u)
BY PastOn DEF Keeps

\* No step keeps both.
LEMMA KeepsSelf ==
    ASSUME NEW w \in AllWorlds
    PROVE  Keeps(w, w)
BY LaterSelf, LaterPast DEF Keeps

\* A resume, when the program is known to have stopped.
LEMMA ResumeInTime ==
    ASSUME NEW w, Base(setting, w), setting.late = 0, NEW v, Carries(w, v),
           w.st.runState = "stopped"
    PROVE  Keeps(w, v)
<1>1. /\ Past(w, v)
      /\ Alive(w) => Alive(v)
      /\ Clear(setting, w) => Clear(setting, v)
      /\ v.st.deferred = w.st.deferred
  BY CarryInTime
<1>2. ASSUME Waits(setting, w)
      PROVE  Waits(setting, v)
  BY <1>1, <1>2 DEF Waits
<1> QED
  BY <1>1, <1>2 DEF Keeps

\* The requests keep both, when gdb answers in time: to continue,
LEMMA ContinueInTime ==
    ASSUME NEW w, Base(setting, w), setting.late = 0, w.st.runState = "stopped",
           NEW r \in Continue(w)
    PROVE  Keeps(w, r.w)
<1>1. Carries(w, r.w)
  BY ContinueIs DEF Carries
<1> QED
  BY <1>1, ResumeInTime

\* to run, which defers the start if a name waits,
LEMMA RunInTime ==
    ASSUME NEW w, Base(setting, w), setting.late = 0, NEW verb \in RunVerbs,
           NEW r \in Run(w, verb)
    PROVE  Keeps(w, r.w)
<1>0. w \in AllWorlds
  BY DEF Base, Shape
<1>1. \/ RunOk(w, verb, r.w)
      \/ RunFails(w, r.w)
  BY RunIs
<1>2. CASE RunOk(w, verb, r.w)
  BY <1>2, RunOkInTime DEF Keeps
<1>3. CASE RunFails(w, r.w)
  <2>1. r.w = w
    BY <1>3, LeftInTime DEF RunFails
  <2> QED
    BY <1>0, <2>1, KeepsSelf
<1> QED
  BY <1>1, <1>2, <1>3

\* to list,
LEMMA ReconcileInTime ==
    ASSUME NEW w, Base(setting, w), setting.late = 0, NEW v \in Reconcile(w)
    PROVE  Keeps(w, v)
<1>0. w \in AllWorlds /\ setting.numbers \in Nat
  BY DEF Base, Shape, Sized
<1>1. v = Listed(w) \/ Left(w, Plain("list"), v)
  BY ReconcileIs
<1>2. CASE v = Listed(w)
  BY <1>0, <1>2, ListedLater, LaterKeeps
<1>3. CASE Left(w, Plain("list"), v)
  <2>1. v = w
    BY <1>3, LeftInTime
  <2> QED
    BY <1>0, <2>1, KeepsSelf
<1> QED
  BY <1>1, <1>2, <1>3

\* to load,
LEMMA ExeLoadInTime ==
    ASSUME NEW w, Base(setting, w), setting.late = 0, NEW r \in ExeLoad(w)
    PROVE  Keeps(w, r.w)
<1>0. w \in AllWorlds
  BY DEF Base, Shape
<1>1. LoadOk(w, r.w) \/ Left(w, Plain("load"), r.w)
  BY ExeLoadIs
<1>2. CASE LoadOk(w, r.w)
  <2> DEFINE x == Load(w)
             y == LoadedState(x)
  <2>1. Past(w, x) /\ Alive(x) /\ Clear(setting, x)
    BY LoadInTime
  <2>2. Base(setting, y) /\ OnlyStatus(x, y)
    BY LoadedBase
  <2>3. y.st.runState = "none" /\ y.st.missed = x.st.missed
    <3>1. x \in AllWorlds
      BY <2>1 DEF Past
    <3> HIDE DEF x
    <3> QED
      BY <3>1, LoadedStateIs
  <2>4. r.w \in Reconcile(y)
    BY <1>2 DEF LoadOk
  <2> HIDE DEF x, y
  <2>5. Past(x, y) /\ Alive(y) /\ Clear(setting, y)
    BY <2>1, <2>2, <2>3, StatusPast DEF Past
  <2>6. Waits(setting, y)
    BY <2>3, <2>5 DEF Waits
  <2>7. Keeps(y, r.w)
    BY <2>2, <2>4, ReconcileInTime
  <2> QED
    BY <2>1, <2>5, <2>6, <2>7, PastOn DEF Keeps
<1>3. CASE Left(w, Plain("load"), r.w)
  <2>1. r.w = w
    BY <1>3, LeftInTime
  <2> QED
    BY <1>0, <2>1, KeepsSelf
<1> QED
  BY <1>1, <1>2, <1>3

\* A breakpoint of a user's.
LEMMA InsertsInTime ==
    ASSUME NEW w, Base(setting, w), setting.late = 0, NEW verb \in {"insert", "insertNow"},
           NEW bp \in Bps, NEW wish \in BOOLEAN, bp.by # "runTo",
           bp.place = "name" => bp.at = w.gdb.resumes,
           NEW v, InsertOk(w, Inserting(verb, bp, wish), v) \/ InsertFails(w, verb, bp, wish, v)
    PROVE  Keeps(w, v)
<1>0. w \in AllWorlds /\ setting.numbers \in Nat
  BY DEF Base, Shape, Sized
<1>1. CASE InsertOk(w, Inserting(verb, bp, wish), v)
  <2>1. Later(w, v) /\ Narrows(w, v)
    BY <1>0, <1>1, InsertOkLater
  <2> QED
    BY <1>0, <2>1, LaterKeeps
<1>2. CASE InsertFails(w, verb, bp, wish, v)
  <2>1. v = w
    BY <1>2, LeftInTime DEF InsertFails
  <2> QED
    BY <1>0, <2>1, KeepsSelf
<1> QED
  BY <1>1, <1>2

\* to set a breakpoint, whose name waits for the next start,
LEMMA BpSetInTime ==
    ASSUME NEW w, NEW place \in Places, NEW temporary \in BOOLEAN,
           NEW tag \in Nat, tag # 0 => ~temporary, Base(setting, w), setting.late = 0,
           NEW v \in BpSet(w, place, temporary, tag)
    PROVE  Keeps(w, v)
<1> DEFINE bp == Breakpoint(place, temporary, tag, "user", w.gdb.resumes)
<1>1. PICK f \in BOOLEAN, verb \in {"insert", "insertNow"} : f = TRUE /\ verb = "insert"
  OBVIOUS
<1>2. Showable(bp) /\ \E r \in InsertBreakpoint(w, "insert", bp, TRUE) : v = r.w
  <2>1. v \in Worlds(InsertBreakpoint(w, "insert", bp, TRUE))
    BY DEF BpSet
  <2>2. Showable(Breakpoint(place, temporary, tag, "user", w.gdb.resumes))
    BY BpSetBase DEF Places
  <2> QED
    BY <2>1, <2>2 DEF Worlds
<1>3. bp \in Bps /\ bp.by # "runTo" /\ bp.at = w.gdb.resumes
  BY <1>2 DEF Showable, Breakpoint
<1> HIDE DEF bp
<1>6. PICK r \in InsertBreakpoint(w, verb, bp, f) : v = r.w
  BY <1>1, <1>2
<1>7. InsertOk(w, Inserting(verb, bp, f), v) \/ InsertFails(w, verb, bp, f, v)
  BY <1>2, <1>6, InsertBreakpointBase
<1> QED
  BY <1>3, <1>7, InsertsInTime

\* to delete one,
LEMMA BpDeleteInTime ==
    ASSUME NEW w, NEW n \in 1 .. setting.numbers, Base(setting, w), setting.late = 0,
           NEW v \in DropBreakpoint(w, n, TRUE)
    PROVE  Keeps(w, v)
<1>0. setting.numbers \in Nat
  BY DEF Base, Shape, Sized
<1>1. PICK f \in BOOLEAN : f = TRUE
  OBVIOUS
<1>2. v \in DropBreakpoint(w, n, f)
  BY <1>1
<1>3. Later(w, v) /\ Narrows(w, v)
  BY <1>2, DropInTime
<1> QED
  BY <1>0, <1>3, LaterKeeps

\* to note one enabled,
LEMMA NotedLater ==
    ASSUME NEW w \in AllWorlds, NEW n \in DOMAIN w.st.mirror, NEW on \in BOOLEAN
    PROVE  Later(w, Noted(w, n, on)) /\ Narrows(w, Noted(w, n, on))
<1> DEFINE v == Noted(w, n, on)
           bp == Turned(w.st.mirror[n], on)
<1>1. /\ v \in AllWorlds
      /\ v.st.mirror = With(w.st.mirror, n, bp)
      /\ SameActor(v.st, w.st)
      /\ v.gdb = w.gdb
      /\ v.intake = w.intake
  BY NotedIs
<1>2. w.st.mirror \in Tables /\ n \in Nat /\ w.st.mirror[n] \in Bps
  BY TableBp DEF AllWorlds, Mirrors
<1>3. bp \in Bps /\ Alike(bp, w.st.mirror[n])
  BY <1>2, TurnedIs
<1> HIDE DEF v, bp
<1>4. Put(v.st.mirror, w.st.mirror, n, bp)
  BY <1>1, <1>2, <1>3, PutTable
<1>5. w.gdb.next <= v.gdb.next
  BY <1>1, Counts
<1>6. SameStatus(v.gdb, w.gdb)
  BY <1>1 DEF SameStatus
<1>7. \A m \in DOMAIN v.gdb.table : v.gdb.table[m].place = "name" => NamedAt(w, m, v.gdb.table[m].at)
  BY <1>1 DEF NamedAt
<1>8. Later(w, v)
  BY <1>1, <1>5, <1>6, <1>7, LaterBy DEF SameActor
<1>9. \A m \in DOMAIN v.gdb.table : v.gdb.table[m].by = "runTo" => Aimed(w, v.gdb.table[m].at)
  BY <1>1, AimedIn
<1>10. \A m \in DOMAIN v.st.mirror : v.st.mirror[m].by = "runTo" => Aimed(w, v.st.mirror[m].at)
  BY <1>3, <1>4, AimedIn DEF Put, Alike
<1>11. Narrows(w, v)
  BY <1>1, <1>9, <1>10, NarrowsBy
<1> QED
  BY <1>8, <1>11 DEF v

\* to enable one,
LEMMA BpSetEnabledInTime ==
    ASSUME NEW w, NEW n \in 1 .. setting.numbers, NEW on \in BOOLEAN, Base(setting, w),
           setting.late = 0, NEW v \in BpSetEnabled(w, n, on)
    PROVE  Keeps(w, v)
<1> DEFINE cmd == Switching(n, on)
<1>0. n \in Nat /\ w \in AllWorlds /\ setting.numbers \in Nat
  BY DEF Base, Shape, Sized
<1>1. cmd \in Commands /\ cmd.n = n
  BY <1>0, SwitchingIs
<1>f. PICK f \in BOOLEAN : f = FALSE
  OBVIOUS
<1>2. \/ /\ n \in DOMAIN w.gdb.table
         /\ n \in DOMAIN w.st.mirror => v = Noted(Enable(w, cmd, f), n, on)
         /\ n \notin DOMAIN w.st.mirror => v = Enable(w, cmd, f)
      \/ Left(w, cmd, v)
  BY <1>0, <1>f, BpSetEnabledIs DEF SwitchOk
<1> HIDE DEF cmd
<1>6. CASE Left(w, cmd, v)
  <2>1. v = w
    BY <1>6, LeftInTime
  <2> QED
    BY <1>0, <2>1, KeepsSelf
<1>7. CASE /\ n \in DOMAIN w.gdb.table
           /\ n \in DOMAIN w.st.mirror => v = Noted(Enable(w, cmd, f), n, on)
           /\ n \notin DOMAIN w.st.mirror => v = Enable(w, cmd, f)
  <2> DEFINE x == Enable(w, cmd, f)
  <2>1. cmd.n \in DOMAIN w.gdb.table
    BY <1>1, <1>7
  <2>2. x \in AllWorlds /\ x.st = w.st
    BY <1>0, <1>1, <2>1, EnableIs
  <2>3. Later(w, x) /\ Narrows(w, x)
    BY <1>1, <2>1, EnableLater
  <2>v. \/ v = x
        \/ v = Noted(x, n, on) /\ n \in DOMAIN x.st.mirror
    BY <1>7, <2>2
  <2> HIDE DEF x
  <2>4. Keeps(w, x)
    BY <1>0, <2>3, LaterKeeps
  <2>5. CASE v = Noted(x, n, on) /\ n \in DOMAIN x.st.mirror
    <3>1. Later(x, v) /\ Narrows(x, v)
      BY <2>2, <2>5, NotedLater
    <3>2. Keeps(x, v)
      BY <1>0, <3>1, LaterKeeps
    <3> QED
      BY <2>4, <3>2, KeepsOn
  <2> QED
    BY <2>v, <2>4, <2>5
<1> QED
  BY <1>2, <1>6, <1>7

\* What is typed: no run-to, and no name.
LEMMA ConsoleExecInTime ==
    ASSUME NEW w, NEW verb \in {"insert", "delete", "enable"}, NEW n \in Nat, NEW bp \in Bps,
           "typed" \in setting.kinds, verb = "insert" => bp.by = "typed" /\ bp.tag = 0,
           verb # "insert" => n \in 1 .. setting.numbers, bp.place # "name",
           Base(setting, w), setting.late = 0, NEW v \in ConsoleExec(w, TypedAs(verb, n, bp))
    PROVE  Keeps(w, v)
<1> DEFINE cmd == TypedAs(verb, n, bp)
<1>0. w \in AllWorlds /\ setting.numbers \in Nat
  BY DEF Base, Shape, Sized
<1>1. /\ Fit(setting, w, cmd)
      /\ cmd \in Commands
      /\ cmd.typed
      /\ cmd.verb = verb
      /\ cmd.n = n
      /\ cmd.bp = bp
  BY TypedAsIs
<1>2. v \in ConsoleExec(w, cmd)
  OBVIOUS
<1> HIDE DEF cmd
<1>3. PICK r \in Send(w, cmd) :
         \/ r.w.st.runState = "running" /\ v = r.w
         \/ r.w.st.runState # "running" /\ v \in Reconcile(r.w)
  BY <1>2, ConsoleExecIs DEF ConsoleIs
<1>4. Base(setting, r.w)
  <2>1. Unanswered(cmd, FALSE)
    BY <1>1 DEF Unanswered
  <2> QED
    BY <1>1, <2>1, SendBase
<1>f. PICK f \in BOOLEAN : f = FALSE
  OBVIOUS
<1>5. (Accepts(w, cmd) /\ r.w = Execute(w, cmd, f)) \/ Left(w, cmd, r.w)
  BY <1>f, SendIs DEF Succeeds, Fails
<1>6. Keeps(w, r.w)
  <2>1. CASE Left(w, cmd, r.w)
    <3>1. r.w = w
      BY <2>1, LeftInTime
    <3> QED
      BY <1>0, <3>1, KeepsSelf
  <2>2. CASE Accepts(w, cmd) /\ r.w = Execute(w, cmd, f)
    <3>1. /\ verb = "insert" => r.w = Insert(w, cmd, f)
          /\ verb = "delete" => cmd.n \in DOMAIN w.gdb.table /\ r.w = Delete(w, cmd, f)
          /\ verb = "enable" => cmd.n \in DOMAIN w.gdb.table /\ r.w = Enable(w, cmd, f)
      BY <1>1, <1>f, <2>2, AnsweredIs
    <3>2. CASE verb = "insert"
      <4>1. cmd.bp.by # "runTo" /\ cmd.bp.place # "name"
        BY <1>1, <3>2
      <4>2. Later(w, r.w) /\ Narrows(w, r.w)
        BY <1>1, <3>1, <3>2, <4>1, InsertLater
      <4> QED
        BY <1>0, <4>2, LaterKeeps
    <3>3. CASE verb = "delete"
      <4>2. Later(w, r.w) /\ Narrows(w, r.w)
        BY <1>1, <3>1, <3>3, DeleteLater
      <4> QED
        BY <1>0, <4>2, LaterKeeps
    <3>4. CASE verb = "enable"
      <4>2. Later(w, r.w) /\ Narrows(w, r.w)
        BY <1>1, <3>1, <3>4, EnableLater
      <4> QED
        BY <1>0, <4>2, LaterKeeps
    <3> QED
      BY <3>2, <3>3, <3>4
  <2> QED
    BY <1>5, <2>1, <2>2
<1>7. CASE v = r.w
  BY <1>6, <1>7
<1>8. CASE v \in Reconcile(r.w)
  <2>1. Keeps(r.w, v)
    BY <1>4, <1>8, ReconcileInTime
  <2> QED
    BY <1>6, <2>1, KeepsOn
<1> QED
  BY <1>3, <1>7, <1>8

\* A gdb that died.
LEMMA DeadInTime ==
    ASSUME NEW w \in AllWorlds
    PROVE  Keeps(w, Dead(w))
<1> DEFINE v == Dead(w)
<1>1. /\ v \in AllWorlds
      /\ v.st = w.st
      /\ v.intake = w.intake
      /\ v.gdb.table = w.gdb.table
      /\ v.gdb.resumes = w.gdb.resumes
      /\ v.gdb.process = "none"
  BY DeadIs
<1> HIDE DEF v
<1>2. w.gdb.resumes <= v.gdb.resumes
  BY <1>1, Counts
<1>3. Narrows(w, v)
  BY <1>1, AimedIn, NarrowsBy
<1>4. Past(w, v)
  BY <1>1, <1>2, <1>3 DEF Past
<1>5. Alive(v) /\ Clear(setting, v)
  BY <1>1, NoProcess
<1> QED
  BY <1>1, <1>4, <1>5 DEF v, Keeps, Waits

\* A new gdb, before the file is loaded: nothing is left but what is queued.
LEMMA FreshInTime ==
    ASSUME NEW w \in AllWorlds, NEW queued \in SUBSET Nat
    PROVE  Keeps(w, Fresh(w, queued))
<1> DEFINE v == Fresh(w, queued)
<1>1. /\ v \in AllWorlds
      /\ v.gdb.process = "none"
      /\ v.gdb.table = NoBreakpoints
      /\ v.gdb.resumes = w.gdb.resumes
      /\ v.st.mirror = NoBreakpoints
      /\ v.st.runState = "none"
      /\ v.intake = w.intake
  <2>1. w \in AllWorlds /\ queued \in SUBSET Nat
    OBVIOUS
  <2> QED
    BY <2>1, FreshIs, SMTT(30)
<1> HIDE DEF v
<1>2. w.gdb.resumes <= v.gdb.resumes
  BY <1>1, Counts
<1>3. Narrows(w, v)
  BY <1>1, TableEmpty, NarrowsBy
<1>4. Past(w, v)
  BY <1>1, <1>2, <1>3 DEF Past
<1>5. Alive(v) /\ Clear(setting, v)
  BY <1>1, NoProcess
<1>6. Waits(setting, v)
  BY <1>1, <1>5 DEF Waits
<1> QED
  BY <1>4, <1>6 DEF v, Keeps

\* Only the wishes changed.
LEMMA WishesInTime ==
    ASSUME NEW w \in AllWorlds, NEW v \in AllWorlds, setting.numbers \in Nat,
           v.st = w.st, v.gdb = w.gdb, v.intake = w.intake
    PROVE  Keeps(w, v)
<1>1. w.gdb.next <= v.gdb.next
  BY Counts
<1>2. SameStatus(v.gdb, w.gdb)
  BY DEF SameStatus
<1>3. \A m \in DOMAIN v.gdb.table : v.gdb.table[m].place = "name" => NamedAt(w, m, v.gdb.table[m].at)
  BY DEF NamedAt
<1>4. Later(w, v)
  BY <1>1, <1>2, <1>3, LaterBy
<1>5. Narrows(w, v)
  BY AimedIn, NarrowsBy
<1> QED
  BY <1>4, <1>5, LaterKeeps

\* to restore one,
LEMMA RestoreOneInTime ==
    ASSUME NEW w, NEW old \in Bps, Base(setting, w), setting.late = 0, old.place # "name",
           NEW v \in RestoreOne(w, old)
    PROVE  Keeps(w, v)
<1> DEFINE bp == RestoredBp(w, old)
<1>0. w \in AllWorlds /\ setting.numbers \in Nat
  BY DEF Base, Shape, Sized
<1>t. PICK f \in BOOLEAN, verb \in {"insert", "insertNow"} : f = TRUE /\ verb = "insert"
  OBVIOUS
<1>1. /\ Showable(bp)
      /\ \/ InsertOk(w, Inserting("insert", bp, TRUE), v)
         \/ \E x : InsertFails(w, "insert", bp, TRUE, x) /\ v = Unwished(x, old.tag)
  BY RestoreOneIs
<1>2. bp \in Bps /\ bp.by # "runTo" /\ bp.place # "name"
  BY <1>1 DEF Showable, RestoredBp, Breakpoint
<1> HIDE DEF bp
<1>3. CASE InsertOk(w, Inserting(verb, bp, f), v)
  BY <1>2, <1>3, InsertsInTime
<1>4. ASSUME NEW x, InsertFails(w, verb, bp, f, x), v = Unwished(x, old.tag)
      PROVE  Keeps(w, v)
  <2>1. x = w
    BY <1>4, LeftInTime DEF InsertFails
  <2>2. /\ v \in AllWorlds
        /\ v.st = w.st
        /\ v.gdb = w.gdb
        /\ v.intake = w.intake
    BY <1>0, <1>4, <2>1, UnwishedIs
  <2> QED
    BY <1>0, <2>2, WishesInTime
<1> QED
  BY <1>1, <1>3, <1>4, <1>t

\* to restore all,
LEMMA RestoreInTime ==
    ASSUME NEW w, NEW mirror \in Tables, Base(setting, w), setting.late = 0,
           NEW v \in Restore(w, mirror)
    PROVE  Keeps(w, v)
<1> DEFINE N == setting.numbers
           R == {u \in AllWorlds : Base(setting, u) /\ Keeps(w, u)}
           Q == [j \in 0 .. N |-> R]
<1>n. N \in Nat /\ w \in AllWorlds
  BY DEF Base, Shape, Sized
<1>j. /\ 0 \in 0 .. N
      /\ N \in 0 .. N
      /\ \A n \in 1 .. N : n \in 0 .. N /\ n - 1 \in 0 .. N
  BY <1>n
<1>q. \A j \in 0 .. N : Q[j] = R
  OBVIOUS
<1>1. w \in R
  BY <1>n, KeepsSelf
<1>2. ASSUME NEW n \in 1 .. N, n \in Restorable(mirror), NEW u \in R
      PROVE  RestoreOne(u, mirror[n]) \subseteq R
  <2> SUFFICES ASSUME NEW x \in RestoreOne(u, mirror[n])
               PROVE  x \in R
    OBVIOUS
  <2> DEFINE old == mirror[n]
  <2>1. old \in Bps /\ old.place # "name"
    BY <1>2, TableBp DEF Restorable
  <2>2. x \in RestoreOne(u, old) /\ Base(setting, u) /\ Keeps(w, u)
    BY <1>2
  <2> HIDE DEF old
  <2>3. Base(setting, x) /\ Keeps(u, x)
    BY <2>1, <2>2, RestoreOneBase, RestoreOneInTime
  <2>4. Keeps(w, x)
    BY <2>2, <2>3, KeepsOn
  <2> QED
    BY <2>3, <2>4 DEF Base, Shape
<1> HIDE DEF Q, R
<1>3. Q[0] = R /\ Q[N] = R /\ \A n \in 1 .. N : Q[n] = R /\ Q[n - 1] = R
  BY <1>j, <1>q
<1>4. Restore(w, mirror) \subseteq Q[N]
  BY <1>n, <1>1, <1>2, <1>3, RestoreLoop
<1>5. v \in R
  BY <1>3, <1>4
<1> QED
  BY <1>5 DEF R

\* and to restart gdb.
LEMMA RestartInTime ==
    ASSUME NEW w, Base(setting, w), setting.late = 0, NEW v \in RestartGDB(w)
    PROVE  Keeps(w, v)
<1> DEFINE fresh == Fresh(w, QueuedIn(setting, w))
           old == w.st.mirror
<1>0. /\ w \in AllWorlds
      /\ old \in Tables
      /\ QueuedIn(setting, w) \in SUBSET Nat
      /\ setting.numbers \in Nat
      /\ Lines(w) \in SUBSET Wishes
  BY DEF Base, Shape, Sized, AllWorlds, Mirrors, QueuedIn, Lines
<1>1. \/ v = w
      \/ v = fresh
      \/ \E r \in ExeLoad(fresh) :
             \/ ~r.ok /\ v = r.w
             \/ r.ok /\ v \in Restore(Owing(r.w, Lines(w)), old)
  BY RestartGDBIs DEF RestartIs
<1>2. Base(setting, fresh) /\ Keeps(w, fresh)
  BY <1>0, FreshBase, FreshInTime
<1> HIDE DEF fresh, old
<1>3. CASE v = w
  BY <1>0, <1>3, KeepsSelf
<1>4. ASSUME NEW r \in ExeLoad(fresh)
      PROVE  Base(setting, r.w) /\ Keeps(w, r.w)
  <2>1. Base(setting, r.w) /\ Keeps(fresh, r.w)
    BY <1>2, ExeLoadBase, ExeLoadInTime
  <2> QED
    BY <1>2, <2>1, KeepsOn
<1>5. ASSUME NEW r \in ExeLoad(fresh), v \in Restore(Owing(r.w, Lines(w)), old)
      PROVE  Keeps(w, v)
  <2> DEFINE x == Owing(r.w, Lines(w))
  <2>1. Base(setting, r.w) /\ Keeps(w, r.w)
    BY <1>4
  <2>2. r.w \in AllWorlds
    BY <2>1 DEF Base, Shape
  <2>3. /\ x \in AllWorlds
        /\ x.st = r.w.st
        /\ x.gdb = r.w.gdb
        /\ x.intake = r.w.intake
        /\ x.adrift = r.w.adrift
    BY <1>0, <2>2, OwingIs
  <2>4. v \in Restore(x, old)
    BY <1>5
  <2> HIDE DEF x
  <2>5. Base(setting, x) /\ Keeps(r.w, x)
    BY <1>0, <2>1, <2>2, <2>3, ActorBase, WishesInTime
  <2>6. Keeps(x, v)
    BY <1>0, <2>4, <2>5, RestoreInTime
  <2>7. Keeps(w, x)
    BY <2>1, <2>5, KeepsOn
  <2> QED
    BY <2>6, <2>7, KeepsOn
<1> QED
  BY <1>1, <1>2, <1>3, <1>4, <1>5

\* The run-tos there are were asked for before the last resume.
Behind(w) == \A a : Aimed(w, a) => a < w.gdb.resumes

InTime(w) == Behind(w) /\ (~setting.refuse => Waits(setting, w))

\* What a run-to is aimed from is a count.
LEMMA AimedNat ==
    ASSUME NEW w \in AllWorlds, NEW a, Aimed(w, a)
    PROVE  a \in Nat
<1>1. /\ \A n \in DOMAIN w.gdb.table : w.gdb.table[n] \in Bps
      /\ \A n \in DOMAIN w.st.mirror : w.st.mirror[n] \in Bps
  BY TableBp DEF AllWorlds, Gdbs, Mirrors
<1>2. \A i \in 1 .. Len(w.intake) : w.intake[i] \in Records
  BY DEF AllWorlds
<1>3. \A i \in 1 .. Len(w.intake) : w.intake[i].bp.at \in Nat
  BY <1>2 DEF Records, Bps
<1>4. \A bp \in Bps : bp.at \in Nat
  BY DEF Bps
<1> QED
  BY <1>1, <1>3, <1>4 DEF Aimed

\* Run-tos that are behind stay so.
LEMMA PastBehind ==
    ASSUME NEW w, NEW v, Past(w, v), Behind(w)
    PROVE  Behind(v)
<1> SUFFICES ASSUME NEW a, Aimed(v, a)
             PROVE  a < v.gdb.resumes
  BY DEF Behind
<1>1. a < w.gdb.resumes
  BY DEF Past, Narrows, Behind
<1>2. w.gdb.resumes \in Nat /\ v.gdb.resumes \in Nat /\ w.gdb.resumes <= v.gdb.resumes
  BY DEF Past, AllWorlds, Gdbs
<1>3. a \in Nat
  BY AimedNat DEF Past
<1> QED
  BY <1>1, <1>2, <1>3

\* A step that keeps both keeps the invariant.
LEMMA KeepsIn ==
    ASSUME NEW w, NEW v, Keeps(w, v), InTime(w)
    PROVE  InTime(v)
BY PastBehind DEF Keeps, InTime

\* A run-to set: it is the only new one.
LEMMA RunToSet ==
    ASSUME NEW w, NEW place \in Places, Base(setting, w), NEW x,
           InsertOk(w, Sets(w, place), x)
    PROVE  /\ Base(setting, x)
           /\ Later(w, x)
           /\ x.gdb.up
           /\ w.gdb.next \in DOMAIN x.gdb.table
           /\ w.gdb.next \in Nat
           /\ x.intake = w.intake
           /\ \A m \in DOMAIN x.gdb.table : m # w.gdb.next =>
                 m \in DOMAIN w.gdb.table /\ x.gdb.table[m] = w.gdb.table[m]
           /\ \A m \in DOMAIN x.st.mirror : m # w.gdb.next =>
                 m \in DOMAIN w.st.mirror /\ x.st.mirror[m] = w.st.mirror[m]
           /\ \A a : Aimed(x, a) => Aimed(w, a) \/ a = w.gdb.resumes
<1> DEFINE bp == RunToBp(w, place)
           verb == RunToVerb(place)
           k == w.gdb.next
<1>0. w \in AllWorlds
  BY DEF Base, Shape
<1>1. /\ Showable(bp) /\ bp \in Bps /\ bp.at = w.gdb.resumes
      /\ verb \in {"insert", "insertNow"}
  BY <1>0, RunToBpIs
<1>f. PICK f \in BOOLEAN : f = FALSE
  OBVIOUS
<1> DEFINE made == Made(w, Inserting(verb, bp, f))
<1>2. InsertOk(w, Inserting(verb, bp, f), x)
  BY <1>f DEF Sets
<1> HIDE DEF bp, verb
<1>3. /\ w.gdb.up
      /\ k \in Nat
      /\ Alike(made, bp)
      /\ Put(x.gdb.table, w.gdb.table, k, made)
      /\ Put(x.st.mirror, w.st.mirror, k, made)
      /\ SameStatus(x.gdb, w.gdb)
      /\ x.intake = w.intake
  BY <1>0, <1>1, <1>2, InsertOkPuts
<1>4. Base(setting, x)
  BY <1>1, <1>2, InsertOkIs
<1>5. Later(w, x)
  BY <1>0, <1>1, <1>2, InsertOkLater
<1> HIDE DEF made, k
<1>6. \A m \in DOMAIN x.gdb.table : m # k =>
         m \in DOMAIN w.gdb.table /\ x.gdb.table[m] = w.gdb.table[m]
  BY <1>3 DEF Put
<1>7. \A m \in DOMAIN x.st.mirror : m # k =>
         m \in DOMAIN w.st.mirror /\ x.st.mirror[m] = w.st.mirror[m]
  BY <1>3 DEF Put
<1>8. x.gdb.table[k].at = w.gdb.resumes /\ x.st.mirror[k].at = w.gdb.resumes
  BY <1>1, <1>3 DEF Put, Alike
<1>9. ASSUME NEW a, Aimed(x, a)
      PROVE  Aimed(w, a) \/ a = w.gdb.resumes
  <2>1. CASE \E n \in DOMAIN x.gdb.table : x.gdb.table[n].by = "runTo" /\ x.gdb.table[n].at = a
    BY <1>6, <1>8, <2>1, AimedIn
  <2>2. CASE \E n \in DOMAIN x.st.mirror : x.st.mirror[n].by = "runTo" /\ x.st.mirror[n].at = a
    BY <1>7, <1>8, <2>2, AimedIn
  <2>3. CASE \E i \in 1 .. Len(x.intake) : x.intake[i].bp.by = "runTo" /\ x.intake[i].bp.at = a
    BY <1>3, <2>3 DEF Aimed
  <2> QED
    BY <1>9, <2>1, <2>2, <2>3 DEF Aimed
<1>10. x.gdb.up /\ k \in DOMAIN x.gdb.table
  BY <1>3 DEF Put, SameStatus
<1> QED
  BY <1>3, <1>4, <1>5, <1>6, <1>7, <1>9, <1>10 DEF k

\* It is dropped if the program could not be resumed.
LEMMA RunToDropped ==
    ASSUME NEW w, NEW place \in Places, Base(setting, w), setting.late = 0, NEW x,
           InsertOk(w, Sets(w, place), x), NEW v \in DropBreakpoint(x, w.gdb.next, FALSE)
    PROVE  Keeps(w, v)
<1> DEFINE k == w.gdb.next
<1>0. w \in AllWorlds /\ setting.numbers \in Nat
  BY DEF Base, Shape, Sized
<1>1. /\ Base(setting, x)
      /\ Later(w, x)
      /\ x.gdb.up
      /\ k \in DOMAIN x.gdb.table
      /\ k \in Nat
      /\ x.intake = w.intake
      /\ \A m \in DOMAIN x.gdb.table : m # k =>
            m \in DOMAIN w.gdb.table /\ x.gdb.table[m] = w.gdb.table[m]
      /\ \A m \in DOMAIN x.st.mirror : m # k =>
            m \in DOMAIN w.st.mirror /\ x.st.mirror[m] = w.st.mirror[m]
  BY RunToSet
<1>f. PICK f \in BOOLEAN : f = FALSE
  OBVIOUS
<1>2. v \in DropBreakpoint(x, k, f)
  BY <1>f
<1> HIDE DEF k
<1>3. x \in AllWorlds
  BY <1>1 DEF Base, Shape
<1>4. DropOk(x, k, f, v)
  <2>1. DropOk(x, k, f, v) \/ DropFails(x, k, f, v)
    BY <1>1, <1>2, DropBreakpointIs
  <2> QED
    BY <1>1, <2>1 DEF DropFails
<1>5. /\ Cut(v.gdb.table, x.gdb.table, k)
      /\ Cut(v.st.mirror, x.st.mirror, k)
      /\ v.intake = x.intake
  BY <1>1, <1>3, <1>4, DropOkCuts
<1>6. Later(x, v)
  BY <1>1, <1>3, <1>4, DropOkLater
<1>7. Later(w, v)
  BY <1>1, <1>6, LaterOn
<1>8. \A m \in DOMAIN v.gdb.table : m \in DOMAIN w.gdb.table /\ v.gdb.table[m] = w.gdb.table[m]
  BY <1>1, <1>5 DEF Cut
<1>9. \A m \in DOMAIN v.st.mirror : m \in DOMAIN w.st.mirror /\ v.st.mirror[m] = w.st.mirror[m]
  BY <1>1, <1>5 DEF Cut
<1>10. Narrows(w, v)
  <2>1. v.intake = w.intake
    BY <1>1, <1>5
  <2> QED
    BY <1>8, <1>9, <2>1, AimedIn, NarrowsBy
<1> QED
  BY <1>0, <1>7, <1>10, LaterKeeps

\* A run-to leaves its breakpoint only to a program it has resumed.
LEMMA ExecRunToInTime ==
    ASSUME NEW w, NEW place \in Places, Base(setting, w), setting.late = 0, InTime(w),
           NEW v \in ExecRunTo(w, place)
    PROVE  InTime(v)
<1>0. w \in AllWorlds /\ setting.numbers \in Nat /\ "run" \in RunVerbs
  BY DEF Base, Shape, Sized, RunVerbs
<1>1. ExecRunToIs(w, place, v)
  BY ExecRunToComesTo
<1>2. CASE InsertFails(w, RunToVerb(place), RunToBp(w, place), FALSE, v)
  <2>1. v = w
    BY <1>2, LeftInTime DEF InsertFails
  <2> QED
    BY <2>1
<1>3. ASSUME NEW x, NEW r, InsertOk(w, Sets(w, place), x), Going(w, x, r),
             \/ r.ok /\ v = r.w
             \/ ~r.ok /\ v \in DropBreakpoint(r.w, w.gdb.next, FALSE)
      PROVE  InTime(v)
  <2>1. /\ Base(setting, x)
        /\ Later(w, x)
        /\ \A a : Aimed(x, a) => Aimed(w, a) \/ a = w.gdb.resumes
    BY <1>3, RunToSet
  <2>2. \/ r.ok /\ w.st.runState = "stopped" /\ CarryOk(x, r.w)
        \/ r.ok /\ w.st.runState # "stopped" /\ RunOk(x, "run", r.w)
        \/ ~r.ok /\ r.w = x
    BY <1>3, <2>1, GoingIs, LeftInTime DEF RunFails
  <2>3. ASSUME Keeps(x, v), v.gdb.resumes = x.gdb.resumes + 1
        PROVE  InTime(v)
    <3>1. ~setting.refuse => Waits(setting, v)
      BY <1>0, <2>1, <2>3, LaterWaits DEF InTime, Keeps
    <3>2. w.gdb.resumes \in Nat /\ v.gdb.resumes = w.gdb.resumes + 1
      BY <1>0, <2>1, <2>3, Counts DEF Later
    <3>3. ASSUME NEW a, Aimed(v, a)
          PROVE  a < v.gdb.resumes
      <4>1. Aimed(x, a)
        BY <2>3, <3>3 DEF Keeps, Past, Narrows
      <4>2. Aimed(w, a) \/ a = w.gdb.resumes
        BY <2>1, <4>1
      <4>3. CASE Aimed(w, a)
        <5>1. a < w.gdb.resumes
          BY <4>3 DEF InTime, Behind
        <5>2. a \in Nat
          BY <1>0, <4>3, AimedNat
        <5> QED
          BY <3>2, <5>1, <5>2
      <4>4. CASE a = w.gdb.resumes
        BY <3>2, <4>4
      <4> QED
        BY <4>2, <4>3, <4>4
    <3> QED
      BY <3>1, <3>3 DEF InTime, Behind
  <2>4. CASE r.ok /\ w.st.runState = "stopped" /\ CarryOk(x, r.w)
    <3>1. v = r.w /\ Carries(x, v) /\ CarryOk(x, v)
      BY <1>3, <2>4 DEF Carries
    <3>2. x.st.runState = "stopped"
      BY <2>1, <2>4 DEF Later
    <3>3. Keeps(x, v)
      BY <2>1, <3>1, <3>2, ResumeInTime
    <3>4. v.gdb.resumes = x.gdb.resumes + 1
      BY <2>1, <3>1, CarryInTime
    <3> QED
      BY <2>3, <3>3, <3>4
  <2>5. CASE r.ok /\ w.st.runState # "stopped" /\ RunOk(x, "run", r.w)
    <3>1. v = r.w
      BY <1>3, <2>5
    <3> DEFINE verb == "run"
    <3>2. verb \in RunVerbs /\ RunOk(x, verb, v)
      BY <1>0, <2>5, <3>1
    <3> HIDE DEF verb
    <3>3. Past(x, v) /\ v.gdb.resumes = x.gdb.resumes + 1 /\ Waits(setting, v)
      BY <2>1, <3>2, RunOkInTime
    <3> QED
      BY <2>3, <3>3 DEF Keeps
  <2>6. CASE ~r.ok /\ r.w = x
    <3>1. v \in DropBreakpoint(x, w.gdb.next, FALSE)
      BY <1>3, <2>6
    <3>2. Keeps(w, v)
      BY <1>3, <3>1, RunToDropped
    <3> QED
      BY <3>2, KeepsIn
  <2> QED
    BY <2>2, <2>4, <2>5, <2>6
<1> QED
  BY <1>1, <1>2, <1>3 DEF ExecRunToIs

\* Every step, in time.
LEMMA RequestInTime ==
    ASSUME NEW w, Base(setting, w), setting.late = 0, InTime(w), NEW v, RequestIs(w, v)
    PROVE  InTime(v)
<1>0. w \in AllWorlds /\ setting.numbers \in Nat
  BY DEF Base, Shape, Sized
<1>1. ASSUME NEW place \in Places, NEW temporary \in BOOLEAN, NEW tag \in Nat,
             tag # 0 => ~temporary, v \in BpSet(IssuedState(w), place, temporary, tag)
      PROVE  InTime(v)
  <2> DEFINE x == IssuedState(w)
  <2>1. /\ OnlyStatus(w, x)
        /\ x.st.runState = w.st.runState
        /\ x.st.deferred = w.st.deferred
        /\ x.st.missed = w.st.missed
    BY <1>0, IssuedStateIs
  <2>3. v \in BpSet(x, place, temporary, tag)
    BY <1>1
  <2> HIDE DEF x
  <2>4. Base(setting, x)
    BY <2>1, StatusBase
  <2>5. Past(w, x) /\ (Alive(w) => Alive(x)) /\ (Clear(setting, w) => Clear(setting, x))
    BY <1>0, <2>1, StatusPast
  <2>6. Keeps(w, x)
    BY <2>1, <2>5 DEF Keeps, Waits, OnlyStatus
  <2>7. place \in {"line", "library", "address", "name"}
    BY DEF Places
  <2>8. Keeps(x, v)
    BY <1>1, <2>3, <2>4, <2>7, BpSetInTime
  <2> QED
    BY <2>6, <2>8, KeepsIn
<1>2. ASSUME NEW n \in 1 .. setting.numbers, v \in DropBreakpoint(w, n, TRUE)
      PROVE  InTime(v)
  BY <1>2, BpDeleteInTime, KeepsIn
<1>3. ASSUME NEW n \in 1 .. setting.numbers, NEW on \in BOOLEAN, v \in BpSetEnabled(w, n, on)
      PROVE  InTime(v)
  BY <1>3, BpSetEnabledInTime, KeepsIn
<1>4. CASE v \in Reconcile(w)
  BY <1>4, ReconcileInTime, KeepsIn
<1>5. ASSUME NEW r \in ExeLoad(w), v = r.w
      PROVE  InTime(v)
  BY <1>5, ExeLoadInTime, KeepsIn
<1>6. ASSUME NEW verb \in RunVerbs, NEW r \in Run(w, verb), v = r.w
      PROVE  InTime(v)
  BY <1>6, RunInTime, KeepsIn
<1>7. ASSUME NEW place \in Places, v \in ExecRunTo(w, place)
      PROVE  InTime(v)
  BY <1>7, ExecRunToInTime
<1>8. ASSUME w.st.runState = "stopped", NEW r \in Continue(w), v = r.w
      PROVE  InTime(v)
  BY <1>8, ContinueInTime, KeepsIn
<1> QED
  BY <1>1, <1>2, <1>3, <1>4, <1>5, <1>6, <1>7, <1>8 DEF RequestIs

\* What is typed and a restart keep the invariant,
LEMMA OtherInTime ==
    ASSUME NEW w, Base(setting, w), setting.late = 0, InTime(w), NEW v, OtherIs(w, v)
    PROVE  InTime(v)
<1>1. ASSUME NEW verb \in {"insert", "delete", "enable"}, NEW n \in Nat, NEW bp \in Bps,
             "typed" \in setting.kinds, verb = "insert" => bp.by = "typed" /\ bp.tag = 0,
             verb # "insert" => n \in 1 .. setting.numbers, bp.place # "name",
             v \in ConsoleExec(w, TypedAs(verb, n, bp))
      PROVE  InTime(v)
  <2>1. Keeps(w, v)
    BY <1>1, ConsoleExecInTime
  <2> QED
    BY <2>1, KeepsIn
<1>2. CASE v \in RestartGDB(w)
  BY <1>2, RestartInTime, KeepsIn
<1> QED
  BY <1>1, <1>2 DEF OtherIs

\* and so do records and what happens by itself.
LEMMA EventInTime ==
    ASSUME NEW w, Base(setting, w), setting.late = 0, InTime(w), NEW v, EventIs(w, v)
    PROVE  InTime(v)
<1>0. w \in AllWorlds
  BY DEF Base, Shape
<1>1. ASSUME Past(w, v), ~setting.refuse /\ Waits(setting, w) => Waits(setting, v)
      PROVE  InTime(v)
  BY <1>1, PastBehind DEF InTime
<1>2. CASE w.intake # <<>> /\ OnRecordIs(w, v)
  BY <1>1, <1>2, OnRecordInTime
<1>3. CASE w.gdb.process = "running" /\ v = Pause(w)
  BY <1>0, <1>1, <1>3, PauseInTime
<1>4. ASSUME NEW n \in 1 .. setting.numbers, w.gdb.process = "running", CanHit(w.gdb, n),
             v = Hit(w, n)
      PROVE  InTime(v)
  <2>1. n \in DOMAIN w.gdb.table
    BY <1>4 DEF CanHit
  <2>2. Past(w, Hit(w, n)) /\ (Waits(setting, w) => Waits(setting, Hit(w, n)))
    BY <1>4, <2>1, HitInTime
  <2> QED
    BY <1>1, <1>4, <2>2
<1>5. CASE v = Exit(w)
  BY <1>0, <1>1, <1>5, ExitInTime
<1>6. CASE w.gdb.late # <<>>
  BY <1>6 DEF Base, Shape, Lates
<1>7. CASE v = Dead(w)
  BY <1>0, <1>7, DeadInTime, KeepsIn
<1>8. CASE w.gdb.process = "running" /\ v = LoadLibrary(w)
  BY <1>1, <1>8, LibraryInTime
<1> QED
  BY <1>2, <1>3, <1>4, <1>5, <1>6, <1>7, <1>8 DEF EventIs

\* So does every step.
LEMMA StepInTime ==
    ASSUME NEW w, Base(setting, w), setting.late = 0, InTime(w), NEW v, StepIs(w, v)
    PROVE  InTime(v)
BY RequestInTime, OtherInTime, EventInTime DEF StepIs

\* The invariant: when gdb answers in time, run-tos are behind, and a name waits
\* for no program that is past its first instruction.
IInTime == IBase /\ (setting.late = 0 => InTime(World))

\* No run-to and no name is there at first,
LEMMA InitInTime == Init => IInTime
<1> SUFFICES ASSUME Init
             PROVE  IInTime
  OBVIOUS
<1> DEFINE w == World
<1>1. IBase
  BY InitBase
<1>2. /\ w.intake = <<>>
      /\ w.gdb.process = "none"
      /\ w.gdb.table = NoBreakpoints
      /\ w.st.mirror = NoBreakpoints
      /\ w.st.deferred = "none"
  BY DEF Init, World, NewGdb
<1>3. Alive(w) /\ Clear(setting, w)
  <2> HIDE DEF w
  <2> QED
    BY <1>2, NoProcess
<1>4. Waits(setting, w)
  BY <1>2, <1>3 DEF Waits
<1>5. Behind(w)
  <2> HIDE DEF w
  <2>1. Len(w.intake) = 0
    BY <1>2
  <2>2. 1 .. Len(w.intake) = {}
    BY <2>1
  <2> QED
    BY <1>2, <2>2, TableEmpty DEF Behind, Aimed
<1> QED
  BY <1>1, <1>4, <1>5 DEF IInTime, InTime

\* and every step keeps the invariant.
LEMMA NextInTime == IInTime /\ [Next]_vars => IInTime'
<1> SUFFICES ASSUME IInTime, [Next]_vars
             PROVE  IInTime'
  OBVIOUS
<1>b. Base(setting, World) /\ IBase'
  BY NextBase DEF IInTime, IBase
<1>u. setting' = setting
  <2>1. CASE Next
    <3>1. World \in AllWorlds /\ setting.numbers \in Nat
      BY <1>b DEF Base, Shape, Sized
    <3>2. PICK v : StepIs(World, v) /\ Become(v)
      BY <2>1, <3>1, NextIs
    <3> QED
      BY <3>2 DEF Become
  <2>2. CASE UNCHANGED vars
    BY <2>2 DEF vars
  <2> QED
    BY <2>1, <2>2
<1>i. ASSUME NEW v, World' = v, InTime(v)
      PROVE  InTime(World)'
  <2>1. /\ Behind(World)' <=> Behind(World')
        /\ Waits(setting, World)' <=> Waits(setting', World')
    BY DEF Behind, Waits, Aimed, Alive, Clear, Overtaken
  <2> QED
    BY <1>i, <1>u, <2>1 DEF InTime
<1>1. ASSUME setting.late = 0, Next
      PROVE  InTime(World)'
  <2>1. World \in AllWorlds /\ setting.numbers \in Nat
    BY <1>b DEF Base, Shape, Sized
  <2>2. PICK v : StepIs(World, v) /\ Become(v)
    BY <1>1, <2>1, NextIs
  <2>3. Base(setting, v) /\ InTime(v)
    BY <1>1, <1>b, <2>2, StepBase, StepInTime DEF IInTime
  <2>4. v \in AllWorlds
    BY <2>3 DEF Base, Shape
  <2>5. World' = v
    BY <2>2, <2>4, BecomeIs
  <2> QED
    BY <1>i, <2>3, <2>5
<1>2. ASSUME setting.late = 0, UNCHANGED vars
      PROVE  InTime(World)'
  <2>1. World' = World
    BY <1>2 DEF vars, World
  <2> QED
    BY <1>2, <1>i, <2>1 DEF IInTime
<1> QED
  BY <1>b, <1>u, <1>1, <1>2 DEF IInTime

\* When gdb answers every command in time, a run-to's breakpoint in gdb is of a
\* program that was resumed since, and a name in gdb's table waits for a start
\* that is deferred, was made after the process began, or could not be placed by
\* the decompiler (execRunTo; deferredbp.go).
THEOREM InTimeHolds == Spec => []IInTime
BY InitInTime, NextInTime, PTL DEF Spec

\* A run-to that is behind has been resumed from, which is the property.
LEMMA InTimeCleansUp == IInTime => RunToCleansUp
<1> SUFFICES ASSUME IInTime, setting.late = 0, NEW n \in DOMAIN gdb.table,
                    gdb.table[n].by = "runTo"
             PROVE  gdb.table[n].at < gdb.resumes
  BY DEF RunToCleansUp
<1> DEFINE w == World
<1>0. w.gdb = gdb
  BY DEF World
<1>1. Behind(w)
  BY DEF IInTime, InTime
<1> HIDE DEF w
<1>2. Aimed(w, w.gdb.table[n].at)
  BY <1>0, AimedIn
<1> QED
  BY <1>0, <1>1, <1>2 DEF Behind

\* A run-to that could not resume the program leaves no breakpoint of its own
\* (execRunTo).
THEOREM RunToCleansUpHolds == Spec => []RunToCleansUp
BY InTimeHolds, InTimeCleansUp, PTL

\* A name that does not wait was made after the process began, which is the
\* property.
LEMMA InTimePlaces == IInTime => NamesPlaced
<1> SUFFICES ASSUME IInTime, ~setting.refuse, setting.late = 0, CanMake(gdb),
                    gdb.process = "running", ~gdb.entry, ~gdb.overtaken,
                    NEW n \in DOMAIN gdb.table \ (gdb.inherited \cup st.missed),
                    gdb.table[n].place = "name"
             PROVE  gdb.table[n].at > gdb.began
  BY DEF NamesPlaced
<1> DEFINE w == World
<1>0. w.gdb = gdb /\ w.st = st
  BY DEF World
<1>1. Waits(setting, w)
  BY DEF IInTime, InTime
<1>2. w \in AllWorlds
  BY DEF IInTime, IBase, Base, Shape
<1> HIDE DEF w
<1>3. Clear(setting, w)
  BY <1>0, <1>1 DEF Waits
<1>4. gdb.next <= setting.numbers
  BY DEF CanMake
<1>5. gdb.began < gdb.table[n].at
  BY <1>0, <1>3, <1>4 DEF Clear
<1>6. gdb.began \in Nat /\ gdb.table[n].at \in Nat
  BY <1>0, <1>2, Counts
<1> QED
  BY <1>5, <1>6

\* A program past its first instruction leaves no earlier breakpoint waiting on
\* a name that the decompiler could place (deferredbp.go).
THEOREM NamesPlacedHolds == Spec => []NamesPlaced
BY InTimeHolds, InTimePlaces, PTL
=============================================================================
