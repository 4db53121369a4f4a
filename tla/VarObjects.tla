----------------------------- MODULE VarObjects -----------------------------
(***************************************************************************)
(* The registry of gdb's variable objects (varobj.go), the watches and the *)
(* rows of the tree built on it (values.go), and the writes that change    *)
(* what they show (write.go).                                              *)
(*                                                                         *)
(* The program has a function f, which calls g.  Both have a local x, an   *)
(* aggregate of a type of their own with one member; f also has y, which   *)
(* lies on the member of its x.  A bound object belongs to the frame it    *)
(* was created in, a floating one to whichever frame gdb has selected when *)
(* it is updated.  gdb keeps what it last told of an object and reports    *)
(* differences only.                                                       *)
(*                                                                         *)
(* A handler is an operator from a world to the worlds it may leave.  A    *)
(* command whose answer does not come in time is executed all the same.    *)
(***************************************************************************)
EXTENDS Naturals, SequencesExt

CONSTANTS
    MaxRoots,     \* how many root objects the registry holds
    Settings      \* what is asked for and how often

RequestKinds == {"expand", "assign", "add", "remove", "edit", "write", "typed", "run", "select", "restart"}

\* kinds: the requests made.  names, watches, stops, unheard, deaths: bounds on
\* the objects made from one registry, on watches, on stops, on answers that do
\* not come, and on deaths of gdb.
ASSUME SettingsAssumption ==
    /\ MaxRoots \in Nat \ {0}
    /\ Settings \subseteq [kinds : SUBSET RequestKinds, names : Nat, watches : Nat,
                           stops : Nat, unheard : Nat, deaths : Nat]

VARIABLES
    setting,    \* the one this behaviour has, for good
    st,         \* the actor: run state, selected frame, watches
    reg,        \* its registry
    gdb         \* gdb: the program, the selected frame, its objects

vars == <<setting, st, reg, gdb>>

World == [st |-> st, reg |-> reg, gdb |-> gdb]

Become(w) ==
    /\ st' = w.st
    /\ reg' = w.reg
    /\ gdb' = w.gdb
    /\ UNCHANGED setting

Without(f, S) == [k \in DOMAIN f \ S |-> f[k]]

With(f, k, v) == [j \in DOMAIN f \cup {k} |-> IF j = k THEN v ELSE f[j]]

Nothing == [k \in {} |-> k]

-----------------------------------------------------------------------------
(* gdb and the program.                                                    *)

Exprs == {"x", "y"}

\* The function of a frame of the stack, innermost first.
Function(g, level) == IF level = 0 THEN g.fn ELSE "f"

Levels(g) == IF g.fn = "g" THEN {0, 1} ELSE {0}

Resolves(expr, fn) == expr = "y" => fn = "f"

\* Of an aggregate there is no value to show.
ValueOf(g, expr, fn) == IF expr = "x" THEN 0 ELSE g.val[fn]

TypeOf(expr, fn) == IF expr = "x" THEN fn ELSE "int"

\* What gdb finds when it evaluates an object: frame is a function, or "@".
Evaluated(g, o) ==
    LET fn == IF o.frame = "@" THEN Function(g, o.level) ELSE o.frame
        there == fn = "f" \/ g.fn = "g"
    IN IF there /\ Resolves(o.expr, fn)
       THEN [scope |-> TRUE, val |-> ValueOf(g, o.expr, fn), type |-> TypeOf(o.expr, fn)]
       ELSE [o.known EXCEPT !.scope = FALSE]

\* A root "r3" is [root |-> 3, floating, child |-> FALSE]; its child has the
\* same name but for the last field.
Name(n, floating) == [root |-> n, floating |-> floating, child |-> FALSE]

ChildName(name) == [name EXCEPT !.child = TRUE]

RootName(name) == [name EXCEPT !.child = FALSE]

Deleted(g, root) == [g EXCEPT !.objs = Without(@, {root, ChildName(root)})]

\* -var-update *: a root of another type loses its child; one out of scope
\* keeps its child as it was.
Updated(g) ==
    LET here(n) == [g.objs[n] EXCEPT !.level = g.sel]
        roots == [n \in {m \in DOMAIN g.objs : ~m.child} |-> Evaluated(g, here(n))]
        kept == {n \in DOMAIN g.objs : n.child => roots[RootName(n)].type = g.objs[RootName(n)].known.type}
        now(n) == IF ~n.child THEN roots[n]
                  ELSE IF roots[RootName(n)].scope THEN Evaluated(g, here(n))
                  ELSE g.objs[n].known
    IN [g EXCEPT !.objs = [n \in kept |-> [here(n) EXCEPT !.known = now(n)]]]

\* The names in the changelist of the update that led from g to h.
Changelist(g, h) == {n \in DOMAIN h.objs : h.objs[n].known # g.objs[n].known}

CanSend(g) == g.up

\* Session.send: gdb does what it accepts, and may not be heard.
Send(w, accepted, after) ==
    IF ~CanSend(w.gdb) \/ ~accepted
    THEN {[ok |-> FALSE, w |-> w]}
    ELSE {[ok |-> TRUE, w |-> [w EXCEPT !.gdb = after]]}
         \cup (IF w.gdb.unheard < setting.unheard
               THEN {[ok |-> FALSE, w |-> [w EXCEPT !.gdb = [after EXCEPT !.unheard = @ + 1]]]}
               ELSE {})

Follow(outcomes, Then(_), Else(_)) ==
    UNION {IF r.ok THEN Then(r.w) ELSE Else(r.w) : r \in outcomes}

SendThenElse(w, accepted, after, Then(_), Else(_)) ==
    Follow(Send(w, accepted, after), Then, Else)

Done(w) == {w}

\* One handler's step after another's.
AndThen(worlds, Step(_)) == UNION {Step(w) : w \in worlds}

-----------------------------------------------------------------------------
(* The registry (varobj.go).                                               *)

\* A path is a row and a place below it: "", ".m" for the member, or ":pending".
NewRegistry == [byPath |-> Nothing, byName |-> Nothing, lruRoots |-> <<>>, nextID |-> 0]

GetUntouched(r, path) == r

Touch(r, root) ==
    IF Contains(r.lruRoots, root)
    THEN [r EXCEPT !.lruRoots = Append(Remove(@, root), root)]
    ELSE r

\* What get does to the registry when path has an object.
Get(r, path) == Touch(r, RootName(r.byPath[path]))

Add(r, v) ==
    LET added == [r EXCEPT !.byPath = With(@, v.path, v.name),
                           !.byName = With(@, v.name, v)]
    IN IF v.name.child THEN Touch(added, RootName(v.name))
                       ELSE [added EXCEPT !.lruRoots = Append(@, v.name)]

\* What a path leads to, and only that, is forgotten with the root.
EvictRoot(r, root) ==
    LET paths == {p \in DOMAIN r.byPath : RootName(r.byPath[p]) = root}
    IN [r EXCEPT !.byPath = Without(@, paths),
                 !.byName = Without(@, {r.byPath[p] : p \in paths}),
                 !.lruRoots = Remove(@, root)]

Rename(r, from, to) ==
    IF from \in DOMAIN r.byPath
    THEN LET n == r.byPath[from]
         IN [r EXCEPT !.byPath = With(Without(@, {from}), to, n), !.byName[n].path = to]
    ELSE r

\* The function a frame identity names, with the depth of the stack it was
\* taken in and its level.
FrameIdentity(g, level) == <<Function(g, level), g.fn, level>>

\* -var-delete, answered or not, and the registry without the root.
DropRoot(w, root) ==
    LET Forgotten(v) == {[v EXCEPT !.reg = EvictRoot(@, root)]}
    IN SendThenElse(w, root \in DOMAIN w.gdb.objs, Deleted(w.gdb, root), Forgotten, Forgotten)

EvictByForgetting(w) ==
    IF Len(w.reg.lruRoots) >= MaxRoots
    THEN {[w EXCEPT !.reg = EvictRoot(@, Head(w.reg.lruRoots))]} ELSE {w}

EvictIfFull(w) ==
    IF Len(w.reg.lruRoots) >= MaxRoots THEN DropRoot(w, Head(w.reg.lruRoots)) ELSE {w}

\* createRoot.  A floating object is first evaluated in the actor's selected
\* frame; a name the registry has used before may still be taken in gdb.
CreateRoot(w, path, expr, level, floating) ==
    LET Create(v) ==
            LET name == Name(v.reg.nextID + 1, floating)
                fn == Function(v.gdb, level)
                new == [expr |-> expr, frame |-> IF floating THEN "@" ELSE fn, level |-> level,
                        known |-> [scope |-> TRUE, val |-> 0, type |-> fn]]
                obj == [new EXCEPT !.known = Evaluated(v.gdb, new)]
                named == [v EXCEPT !.reg.nextID = @ + 1]
                free == Resolves(expr, fn) /\ name \notin DOMAIN v.gdb.objs /\ v.gdb.process
                Created(u) == Add(u.reg, [name |-> name, path |-> path, expr |-> expr,
                                          frame |-> FrameIdentity(u.gdb, level),
                                          known |-> obj.known])
            IN {IF r.ok THEN [r EXCEPT !.w.reg = Created(r.w)] ELSE r :
                   r \in Send(named, free, [v.gdb EXCEPT !.objs = With(@, name, obj)])}
    IN AndThen(EvictIfFull(w), Create)

\* A re-run or a load empties the registry and starts its numbers again.
DeleteAllVarobjs(w) ==
    LET Drop(worlds, root) == AndThen(worlds, LAMBDA v : DropRoot(v, root))
        Fresh(v) == {[v EXCEPT !.reg = NewRegistry]}
    IN AndThen(FoldLeft(Drop, {w}, w.reg.lruRoots), Fresh)

DropChildren(r, root) ==
    LET paths == {p \in DOMAIN r.byPath : r.byPath[p] = ChildName(root)}
    IN [r EXCEPT !.byPath = Without(@, paths),
                 !.byName = Without(@, {r.byPath[p] : p \in paths})]

\* updateVarobjs; refreshVarobjs, which also takes back the change marks.
UpdateVarobjs(w) ==
    LET after == Updated(w.gdb)
        told == Changelist(w.gdb, after)
        Note(r, n) ==
            LET typed == after.objs[n].known.type # r.byName[n].known.type
                noted == [r EXCEPT !.byName[n].known = after.objs[n].known]
            IN IF typed THEN DropChildren(noted, n) ELSE noted
        \* A root is told before its child, which may go with it.
        Take(r, n) == IF n \in DOMAIN r.byName THEN Note(r, n) ELSE r
        Told(v) == {[v EXCEPT !.reg =
                        FoldLeft(Take, @, SetToSeq({n \in told : ~n.child})
                                          \o SetToSeq({n \in told : n.child}))]}
    IN IF DOMAIN w.reg.byName = {} THEN {w} ELSE SendThenElse(w, TRUE, after, Told, Done)

\* -var-list-children, which answers from what gdb knows already.
ListChildren(w, name) ==
    LET child == ChildName(name)
        parent == w.gdb.objs[name]
        fn == IF parent.frame = "@" THEN Function(w.gdb, parent.level) ELSE parent.frame
        obj == [parent EXCEPT !.expr = "m",
                              !.known = [scope |-> TRUE, val |-> w.gdb.val[fn], type |-> "int"]]
        after == IF child \in DOMAIN w.gdb.objs
                 THEN w.gdb ELSE [w.gdb EXCEPT !.objs = With(@, child, obj)]
        mine == w.reg.byName[name]
        known == [after.objs[child].known EXCEPT !.scope = mine.known.scope]
        v == [mine EXCEPT !.name = child, !.path = <<mine.path[1], ".m">>,
                          !.expr = "m", !.known = known]
        Listed(u) == {[u EXCEPT !.reg = IF child \in DOMAIN @.byName
                                        THEN [@ EXCEPT !.byName[child].known = known]
                                        ELSE Add(@, v)]}
    IN IF name \in DOMAIN w.gdb.objs /\ parent.expr = "x"
       THEN SendThenElse(w, TRUE, after, Listed, Done)
       ELSE {w}

-----------------------------------------------------------------------------
(* Rows and watches (values.go).                                           *)

\* Whether an object still describes what is asked about.
Usable(w, name, level) ==
    /\ w.reg.byName[name].known.scope
    /\ name.floating \/ w.reg.byName[name].frame = FrameIdentity(w.gdb, level)

\* varobjFor: the object of the path, the one the tab has the name of, or a new
\* one, bound, that takes the path.
VarobjFor(w, path, id, expr, level) ==
    LET known == path \in DOMAIN w.reg.byPath
        got == IF known THEN [w EXCEPT !.reg = Get(@, path)] ELSE w
        old == w.reg.byPath[path]
        It(name) == {[ok |-> TRUE, w |-> got, name |-> name]}
        Make(v) == {[ok |-> r.ok, w |-> r.w, name |-> Name(r.w.reg.nextID, FALSE)] :
                       r \in CreateRoot(v, path, expr, level, FALSE)}
    IN IF known /\ Usable(w, old, level) THEN It(old)
       ELSE IF id \in DOMAIN w.reg.byName /\ Usable(w, id, level) THEN It(id)
       ELSE IF known THEN AndThen(DropRoot(got, RootName(old)), Make)
                     ELSE Make(w)

\* The handler goes on with the object, if there is one.
WithVarobj(outcomes, Use(_, _)) ==
    UNION {IF r.ok THEN Use(r.w, r.name) ELSE {r.w} : r \in outcomes}

WatchRow(i) == <<"w1", "w2", "w3">>[i]

WatchPath(i) == <<WatchRow(i), "">>

\* watchList looks every watch up, which touches it.
WatchList(w) ==
    LET Look(r, watch) == IF WatchPath(watch.n) \in DOMAIN r.byPath
                          THEN Get(r, WatchPath(watch.n)) ELSE r
    IN [w EXCEPT !.reg = FoldLeft(Look, @, w.st.watches)]

WatchAdd(w, expr) ==
    LET n == w.st.watchSeq + 1
        counted == [w EXCEPT !.st.watchSeq = n]
        Added(v) == {WatchList([v EXCEPT !.st.watches = Append(@, [n |-> n, expr |-> expr])])}
    IN Follow(CreateRoot(counted, WatchPath(n), expr, w.st.sel, TRUE), Added, Done)

DropWatchVarobj(w, path) ==
    IF path \in DOMAIN w.reg.byPath THEN DropRoot(w, RootName(w.reg.byPath[path])) ELSE {w}

WatchRemove(w, watch) ==
    LET Gone(v) == {WatchList([v EXCEPT !.st.watches = Remove(@, watch)])}
    IN AndThen(DropWatchVarobj(w, WatchPath(watch.n)), Gone)

\* The new expression's object is made first, then takes the place of the old.
WatchSetExpr(w, watch, expr) ==
    LET scratch == <<WatchRow(watch.n), ":pending">>
        at == CHOOSE i \in DOMAIN w.st.watches : w.st.watches[i] = watch
        Moved(v) == {WatchList([v EXCEPT !.reg = Rename(@, scratch, WatchPath(watch.n)),
                                         !.st.watches[at].expr = expr])}
        Proved(v) == AndThen(DropWatchVarobj(v, WatchPath(watch.n)), Moved)
    IN Follow(CreateRoot(w, scratch, expr, w.st.sel, TRUE), Proved, Done)

RecreateWatches(w) ==
    LET One(v, watch) ==
            LET path == WatchPath(watch.n)
            IN IF path \in DOMAIN v.reg.byPath THEN {[v EXCEPT !.reg = Get(@, path)]}
               ELSE {r.w : r \in CreateRoot(v, path, watch.expr, v.st.sel, TRUE)}
        Each(worlds, watch) == AndThen(worlds, LAMBDA v : One(v, watch))
    IN FoldLeft(Each, {w}, w.st.watches)

VarsExpand(w, path, id, expr) ==
    WithVarobj(VarobjFor(w, path, id, expr, 0), ListChildren)

\* -var-assign, then everything else is updated.
VarsAssign(w, path, id, expr, level, value) ==
    LET Assign(v, name) ==
            LET o == v.gdb.objs[name]
                fn == IF o.frame = "@" THEN Function(v.gdb, o.level) ELSE o.frame
                after == [v.gdb EXCEPT !.val[fn] = value, !.objs[name].known.val = value]
                Written(u) == {IF name \in DOMAIN u.reg.byName
                               THEN [u EXCEPT !.reg.byName[name].known.val = value] ELSE u}
                Update(u) == AndThen(UpdateVarobjs(u), Written)
            IN IF name \notin DOMAIN v.gdb.objs THEN {v}
               ELSE SendThenElse(v, Evaluated(v.gdb, o).scope /\ o.expr # "x", after, Update, Done)
    IN WithVarobj(VarobjFor(w, path, id, expr, level), Assign)

WriteUnseen(w, fn, value) ==
    SendThenElse(w, TRUE, [w.gdb EXCEPT !.val[fn] = value], Done, Done)

\* mem.write and regs.write: the bytes below a variable.
Write(w, fn, value) ==
    SendThenElse(w, TRUE, [w.gdb EXCEPT !.val[fn] = value], UpdateVarobjs, Done)

FrameSelect(w, level) ==
    LET Selected(v) == {[v EXCEPT !.st.sel = level]}
    IN SendThenElse(w, TRUE, [w.gdb EXCEPT !.sel = level], Selected, Done)

\* onStopped: what changed, then the watches that have no object.
OnStopped(w) ==
    LET stopped == [w EXCEPT !.st.runState = "stopped", !.st.sel = 0]
        Shown(v) == {WatchList(v)}
    IN AndThen(AndThen(UpdateVarobjs(stopped), RecreateWatches), Shown)

\* exec.run and exe.load: the process and the frames of every object are gone.
Run(w) ==
    LET Begun(v) == {[v EXCEPT !.st.runState = "running"]}
        Start(v) == SendThenElse(v, TRUE, [v.gdb EXCEPT !.process = TRUE], Begun, Done)
    IN AndThen(DeleteAllVarobjs(w), Start)

-----------------------------------------------------------------------------
(* Steps.                                                                  *)

NewGdb == [up |-> TRUE, process |-> FALSE, fn |-> "f", sel |-> 0, objs |-> Nothing,
           val |-> [fn \in {"f", "g"} |-> 0], stops |-> 0, unheard |-> 0, deaths |-> 0]

Init ==
    /\ setting \in Settings
    /\ st = [runState |-> "none", sel |-> 0, watches |-> <<>>, watchSeq |-> 0]
    /\ reg = NewRegistry
    /\ gdb = NewGdb

\* The gate, and a bound: names enough for what a request may create.
Serve(kind, worlds) ==
    /\ kind \in setting.kinds
    /\ gdb.up
    /\ reg.nextID < setting.names
    /\ st.runState = "stopped" \/ kind \in {"run", "remove"}
    /\ kind = "run" => st.runState # "running"
    /\ \E w \in worlds : Become(w)

Watched == {st.watches[i] : i \in DOMAIN st.watches}

\* The rows of a tree and their expressions: the locals of the selected frame,
\* the watches, and the members of both.
Rows ==
    {[path |-> <<e, "">>, expr |-> e] : e \in {e \in Exprs : Resolves(e, Function(gdb, st.sel))}}
    \cup {[path |-> WatchPath(u.n), expr |-> u.expr] : u \in Watched}

Members ==
    {[path |-> <<r.path[1], ".m">>, expr |-> "m"] : r \in {r \in Rows : r.expr = "x"}}

\* The name a tab has for a row, if it has been told one.
Ids(path) == {n \in DOMAIN reg.byName : reg.byName[n].path = path} \cup {Name(0, FALSE)}

\* A tab opens an aggregate, for the innermost frame whatever is selected.
AsksToExpand ==
    \E row \in Rows : \E id \in Ids(row.path) :
        row.expr = "x" /\ Serve("expand", VarsExpand(World, row.path, id, row.expr))

AsksToAssign(value) ==
    \E row \in Rows \cup Members : \E id \in Ids(row.path) :
        /\ row.expr # "x"
        /\ row.expr = "m" => id # Name(0, FALSE)
        /\ Serve("assign", VarsAssign(World, row.path, id, row.expr, st.sel, value))

AsksToWatch(expr) ==
    /\ st.watchSeq < setting.watches
    /\ Serve("add", WatchAdd(World, expr))

AsksToUnwatch ==
    \E watch \in Watched : Serve("remove", WatchRemove(World, watch))

AsksForExpr(expr) ==
    \E watch \in Watched : expr # watch.expr /\ Serve("edit", WatchSetExpr(World, watch, expr))

AsksToWrite(value) ==
    \E level \in Levels(gdb) : Serve("write", Write(World, Function(gdb, level), value))

\* set var at the console, which reads no object again.
Types(value) ==
    \E level \in Levels(gdb) :
        /\ value # gdb.val[Function(gdb, level)]
        /\ Serve("typed", {[World EXCEPT !.gdb.val[Function(gdb, level)] = value]})

AsksToSelect ==
    \E level \in Levels(gdb) : level # st.sel /\ Serve("select", FrameSelect(World, level))

AsksToRun ==
    /\ gdb.stops < setting.stops
    /\ Serve("run", Run(World))

\* The program goes on, in f or g, and comes to a stop, which the actor handles
\* before it serves anything that reads a frame.
Resumes ==
    /\ st.runState = "stopped" /\ gdb.up
    /\ gdb.stops < setting.stops
    /\ st' = [st EXCEPT !.runState = "running"]
    /\ UNCHANGED <<setting, reg, gdb>>

Stops(fn, val) ==
    /\ gdb.process /\ gdb.up /\ st.runState = "running"
    /\ reg.nextID + Len(st.watches) <= setting.names
    /\ \E w \in OnStopped([World EXCEPT !.gdb.fn = fn, !.gdb.sel = 0, !.gdb.val = val,
                                        !.gdb.stops = @ + 1]) : Become(w)

GdbDies ==
    /\ gdb.up /\ gdb.deaths < setting.deaths
    /\ gdb' = [gdb EXCEPT !.up = FALSE, !.process = FALSE, !.objs = Nothing, !.deaths = @ + 1]
    /\ UNCHANGED <<setting, st, reg>>

\* A new gdb has no objects, and the watches stay.
AsksToRestart ==
    /\ ~gdb.up /\ "restart" \in setting.kinds
    /\ gdb' = [NewGdb EXCEPT !.stops = gdb.stops, !.unheard = gdb.unheard, !.deaths = gdb.deaths]
    /\ reg' = NewRegistry
    /\ st' = [st EXCEPT !.runState = "none"]
    /\ UNCHANGED setting

Next ==
    \/ AsksToExpand
    \/ \E value \in {0, 1} : AsksToAssign(value)
    \/ \E expr \in Exprs : AsksToWatch(expr)
    \/ AsksToUnwatch
    \/ \E expr \in Exprs : AsksForExpr(expr)
    \/ \E value \in {0, 1} : AsksToWrite(value)
    \/ \E value \in {0, 1} : Types(value)
    \/ AsksToSelect
    \/ AsksToRun
    \/ Resumes
    \/ \E fn \in {"f", "g"}, val \in [{"f", "g"} -> {0, 1}] : Stops(fn, val)
    \/ GdbDies
    \/ AsksToRestart

Spec == Init /\ [][Next]_vars

-----------------------------------------------------------------------------
(* Properties.                                                             *)

\* While gdb answers, its root objects are those of the registry, no more, for
\* gdb never collects one, and no fewer; and every path the tree shows leads to
\* an object gdb has, through evictions, re-runs, edited watches and types that
\* change.  Answers that do not come may leave gdb with more.
ObjectsKnown ==
    gdb.up =>
        /\ Range(reg.lruRoots) \subseteq DOMAIN gdb.objs
        /\ gdb.unheard = 0 => {n \in DOMAIN gdb.objs : ~n.child} \subseteq Range(reg.lruRoots)
        /\ Len(reg.lruRoots) <= MaxRoots
        /\ gdb.unheard = 0 => Range(reg.byPath) \subseteq DOMAIN gdb.objs

\* What an object in scope shows at a stop is the program's value in the frame
\* it was last evaluated in, after every write the server makes (not what is
\* typed at the console), and so is the scope of a root.
ValuesCurrent ==
    gdb.unheard = 0 /\ st.runState = "stopped" /\ gdb.up /\ "typed" \notin setting.kinds =>
        \A p \in DOMAIN reg.byPath :
            LET n == reg.byPath[p]
                shown == reg.byName[n].known
            IN reg.byName[RootName(n)].known.scope =>
                   shown = Evaluated(gdb, gdb.objs[n])

\* After a stop every watch whose expression means something there has an
\* object, and one that follows the frame has the watch's own expression:
\* making one object may evict another, but not a watch's that is already
\* there.
WatchesShown ==
    [][st.runState = "running" /\ st'.runState = "stopped" /\ setting.unheard = 0 =>
        \A i \in DOMAIN st'.watches :
            LET watch == st'.watches[i]
                path == WatchPath(watch.n)
            IN /\ Resolves(watch.expr, gdb'.fn) => path \in DOMAIN reg'.byPath
               /\ path \in DOMAIN reg'.byPath =>
                      reg'.byName[reg'.byPath[path]].expr = watch.expr]_vars
=============================================================================
