-------------------------------- MODULE Edits --------------------------------
(***************************************************************************)
(* Corrections of what the decompiler guessed (decompedit.go), the journal *)
(* of their inverses, and the index of its names (decompindex.go), over    *)
(* the Ghidra that makes and saves the edits (DecompServer.java).          *)
(*                                                                         *)
(* A program is one function with two variables, a global it uses and a    *)
(* comment on it.  A tab addresses a variable by the id and the name it    *)
(* last read; every edit renumbers the ids.  The coming and going of       *)
(* decompilers is Decomp's: here one dies, and another starts for the      *)
(* program that is loaded then.                                            *)
(***************************************************************************)
EXTENDS Integers, SequencesExt

CONSTANTS
    Programs,     \* what can be loaded
    MaxUndo,      \* how many inverses the journal holds
    Settings      \* bounds: the edits, the faults (an edit made and not answered,
                  \* or not saved) and the deaths of a behaviour, and its authors

ASSUME BoundsAssumption ==
    /\ Programs # {}
    /\ MaxUndo \in Nat \ {0}
    /\ Settings \subseteq [edits : Nat, faults : Nat, deaths : Nat, authors : SUBSET {"", "agent"}]

VARIABLES
    loaded,     \* the program the actor has loaded
    client,     \* the Ghidra in use: none, or of a program, and its number
    db,         \* each program's database in the running Ghidra
    disk,       \* and as it was last saved
    ids,        \* the ids of the variables, until the next edit
    view,       \* what a tab last read of the function
    journal,    \* inverses, most recent last
    runSeq,     \* runs so far
    index,      \* the names the actor holds, and whose they are; listed, history
                \* for the properties only, is what the listings gave
    count,      \* edits, faults and deaths so far
    setting     \* the setting of this behaviour

vars == <<loaded, client, db, disk, ids, view, journal, runSeq, index, count, setting>>

Variables == {"v1", "v2"}
Things == Variables \cup {"F", "g"}
\* A value of an edit: a name, a type, both for a prototype, or a comment.
Value(name, type, text) == [name |-> name, type |-> type, text |-> text]

None == Value("", "", "")

\* The name Ghidra makes up for the global says what is there: a string, or not.
Label(type) == IF type = "chars" THEN "s_g" ELSE "g"

\* The global's bytes have no type until somebody gives them one, and its name is
\* Ghidra's own, until somebody gives it another.
NewProgram ==
    [names |-> [t \in Things |-> t], types |-> [t \in Things |-> IF t = "g" THEN "" ELSE "undefined"],
     text |-> "", mark |-> "", own |-> TRUE]

World == [client |-> client, db |-> db, disk |-> disk, ids |-> ids, journal |-> journal,
          runSeq |-> runSeq, index |-> index, count |-> count]

Become(w) ==
    /\ client' = w.client
    /\ db' = w.db
    /\ disk' = w.disk
    /\ ids' = w.ids
    /\ journal' = w.journal
    /\ runSeq' = w.runSeq
    /\ index' = w.index
    /\ count' = w.count
    /\ UNCHANGED <<loaded, setting>>

-----------------------------------------------------------------------------
(* Ghidra (DecompServer.java).                                             *)

Edit(op, kind, symbol, name, value, author) ==
    [op |-> op, kind |-> kind, symbol |-> symbol, name |-> name, value |-> value, author |-> author]

\* symbolIn: the name decides, and the id only when there is no name.
SymbolIn(p, numbers, edit) ==
    IF edit.name # ""
    THEN {v \in Variables : p.names[v] = edit.name}
    ELSE {v \in Variables : numbers[v] = edit.symbol}

\* What an edit lands on, if anything.
Target(p, numbers, edit) ==
    CASE edit.kind \in {"function", "line"} -> {"F"}
      [] edit.kind = "variable" -> SymbolIn(p, numbers, edit)
      [] edit.kind = "global" -> {t \in {"g"} : edit.name \in {"", p.names[t]}}

\* Two variables of one function may not share a name.
Taken(p, t, name) == t \in Variables /\ \E v \in Variables \ {t} : p.names[v] = name

\* rename, retype and comment: the program after, what was there, and the name
\* the thing is said to answer to now.  A prototype carries a name.  A type
\* changes a name of Ghidra's own, which was read before.
Made(p, t, edit) ==
    LET renamed == [p EXCEPT !.names[t] = edit.value.name, !.own = @ /\ t # "g"]
        retyped == [p EXCEPT !.types[t] = edit.value.type]
        labelled == [retyped EXCEPT !.names[t] = IF t = "g" /\ p.own
                                                 THEN Label(edit.value.type) ELSE @]
    IN CASE edit.op = "rename" ->
                [p |-> renamed, was |-> Value(p.names[t], "", ""), now |-> edit.value.name]
         [] edit.op = "retype" /\ t = "F" ->
                [p |-> [retyped EXCEPT !.names[t] = edit.value.name],
                 was |-> Value(p.names[t], p.types[t], ""), now |-> edit.value.name]
         [] edit.op = "retype" /\ t # "F" ->
                [p |-> labelled, was |-> Value("", p.types[t], ""), now |-> p.names[t]]
         [] edit.op = "comment" ->
                [p |-> [p EXCEPT !.text = edit.value.text,
                                 !.mark = IF edit.value.text = "" THEN "" ELSE edit.author],
                 was |-> Value("", "", p.text), now |-> ""]

\* Nothing there, or a name that is taken.
Refused(p, numbers, edit) ==
    LET hits == Target(p, numbers, edit)
    IN hits = {} \/ (edit.op = "rename" /\ \E t \in hits : Taken(p, t, edit.value.name))

\* An edit that lands as its caller learns of it: made and answered, or made
\* and not answered (too late, or the function no longer decompiles).  It is
\* saved at once, which may fail.
Landed(w, t, edit) ==
    LET prog == w.client.program
        made == Made(w.db[prog], t, edit)
        there == [w EXCEPT !.db[prog] = made.p, !.ids = [v \in Variables |-> 3 - w.ids[v]]]
        saved == [there EXCEPT !.disk[prog] = made.p]
        Faulty(v) == [v EXCEPT !.count.faults = @ + 1]
        Answer(ok, v) == [ok |-> ok, was |-> made.was, now |-> made.now, w |-> v]
    IN {Answer(TRUE, saved)} \cup
       (IF w.count.faults < setting.faults
        THEN {Answer(FALSE, Faulty(saved)), Answer(TRUE, Faulty(there))} ELSE {})

Call(w, edit) ==
    LET p == w.db[w.client.program]
    IN IF Refused(p, w.ids, edit)
       THEN {[ok |-> FALSE, was |-> None, now |-> "", w |-> w]}
       ELSE UNION {Landed(w, t, edit) : t \in Target(p, w.ids, edit)}

-----------------------------------------------------------------------------
(* The journal (decompedit.go).                                            *)

\* An entry also remembers, for the properties only, the program before and
\* after its edit.
Entry(edit, run, author, prog, before, after) ==
    [edit |-> edit, run |-> run, author |-> author,
     prog |-> prog, before |-> before, after |-> after]

\* The run of an edit; quiet is whether the last one is long ago.
RunFor(w, author, quiet) ==
    IF w.journal # <<>> /\ Last(w.journal).author = author /\ ~quiet
    THEN [run |-> Last(w.journal).run, runSeq |-> w.runSeq]
    ELSE [run |-> w.runSeq + 1, runSeq |-> w.runSeq + 1]

\* 0 when the journal is empty.
TopRun(j) == IF j = <<>> THEN 0 ELSE Last(j).run

TopCount(j) ==
    Len(j) - Max({0} \cup {i \in DOMAIN j : j[i].run # TopRun(j)})

InverseOfById(edit, r) == [edit EXCEPT !.value = r.was]

\* By the name the thing answers to now, and by no id.
InverseOf(edit, r) ==
    IF edit.op = "comment" THEN [edit EXCEPT !.value = r.was]
    ELSE [edit EXCEPT !.symbol = 0, !.name = r.now, !.value = r.was]

\* pushUndo: not when there is nothing to go back to.
PushUndo(w, edit, r, before, quiet) ==
    LET run == RunFor(w, edit.author, quiet)
        prog == w.client.program
        longer == Append(w.journal, Entry(InverseOf(edit, r), run.run, edit.author,
                                          prog, before, w.db[prog]))
    IN IF edit.op # "comment" /\ r.was = None THEN w
       ELSE [w EXCEPT !.runSeq = run.runSeq,
                      !.journal = IF Len(longer) > MaxUndo THEN Tail(longer) ELSE longer]

NoIndex == [of |-> 0, names |-> {}, listed |-> {}]

\* What it is made of: functions and data.
Listed == {"F", "g"}

NamesOf(p, things) == {<<t, p.names[t]>> : t \in things}

ForgetOnRenameOnly(w, edit) ==
    IF edit.op = "rename" THEN [w EXCEPT !.index = NoIndex] ELSE w

\* For every edit: a prototype renames too.
ForgetDecompIndex(w, edit) == [w EXCEPT !.index = NoIndex]

\* applyDecompEdit, the path of edits and of undo, which records nothing.
ApplyDecompEdit(w, edit, record, quiet) ==
    LET before == w.db[w.client.program]
        Settle(r) == IF r.ok
                     THEN ForgetDecompIndex(IF record THEN PushUndo(r.w, edit, r, before, quiet)
                                                      ELSE r.w, edit)
                     ELSE r.w
    IN {[ok |-> r.ok, w |-> Settle(r)] : r \in Call(w, edit)}

\* The newest inverse is taken off and applied; a failure ends a run half way.
UndoOne(w) ==
    LET last == Last(w.journal)
    IN ApplyDecompEdit([w EXCEPT !.journal = Front(@)], last.edit, FALSE, FALSE)

UndoMany(w, want) ==
    LET after[i \in 0..want] ==
            IF i = 0 THEN {[ok |-> TRUE, w |-> w]}
            ELSE UNION {IF r.ok THEN UndoOne(r.w) ELSE {r} : r \in after[i - 1]}
    IN after[want]

-----------------------------------------------------------------------------
(* Requests.                                                               *)

Init ==
    /\ loaded \in Programs
    /\ client = [program |-> loaded, number |-> 1]
    /\ db = [p \in Programs |-> NewProgram]
    /\ disk = [p \in Programs |-> NewProgram]
    /\ ids = [v1 |-> 1, v2 |-> 2]
    /\ view = [names |-> NewProgram.names, ids |-> ids]
    /\ journal = <<>>
    /\ runSeq = 0
    /\ index = NoIndex
    /\ count = [edits |-> 0, faults |-> 0, deaths |-> 0]
    /\ setting \in Settings

Ready == client.number # 0

\* writableDecomp, then the edit.
DecompEdit(edit, quiet) ==
    /\ Ready
    /\ count.edits < setting.edits
    /\ quiet => journal # <<>> /\ Last(journal).author = edit.author
    /\ \E r \in ApplyDecompEdit([World EXCEPT !.count.edits = @ + 1], edit, TRUE, quiet) :
          Become(r.w)
    /\ UNCHANGED view

Kind(t) == IF t = "F" THEN "function" ELSE IF t = "g" THEN "global" ELSE "variable"

NewNames(t) == IF t \in Variables THEN {"a", "v1"} ELSE {"a"}

NewTypes(t) == IF t = "g" THEN {"int", "chars"} ELSE {"int"}

DecompRename(t, name, author, quiet) ==
    DecompEdit(Edit("rename", Kind(t), IF t \in Variables THEN view.ids[t] ELSE 0, view.names[t],
                    Value(name, "", ""), author), quiet)

\* A prototype gives a name with it.
DecompRetype(t, type, author, quiet) ==
    DecompEdit(Edit("retype", Kind(t), IF t \in Variables THEN view.ids[t] ELSE 0,
                    view.names[t], Value(IF t = "F" THEN "a" ELSE "", type, ""), author), quiet)

DecompComment(text, author, quiet) ==
    DecompEdit(Edit("comment", "line", 0, "", Value("", "", text), author), quiet)

DecompUndoLast ==
    /\ Ready /\ journal # <<>>
    /\ \E r \in UndoOne(World) : Become(r.w)
    /\ UNCHANGED view

\* A whole run, which must be the top one.
DecompUndoRun ==
    /\ Ready /\ TopCount(journal) > 1
    /\ \E r \in UndoMany(World, TopCount(journal)) : Become(r.w)
    /\ UNCHANGED view

\* decompIndex: built by the first who looks a name up, and held as it is,
\* although a listing ends at maxIndex, and that of data at the first error.
DecompIndex(listed) ==
    /\ Ready
    /\ index.of # client.number
    /\ index' = [of |-> client.number, names |-> NamesOf(db[client.program], listed),
                 listed |-> listed]
    /\ UNCHANGED <<loaded, client, db, disk, ids, view, journal, runSeq, count, setting>>

\* decomp.function, the answer to an edit, or the event of somebody else's.
Reads ==
    /\ Ready
    /\ view' = [names |-> db[client.program].names, ids |-> ids]
    /\ view' # view
    /\ UNCHANGED <<loaded, client, db, disk, ids, journal, runSeq, index, count, setting>>

\* The Ghidra in use stays with the program it was started for.
ExeLoad(prog) ==
    /\ prog # loaded
    /\ setting.deaths > 0
    /\ loaded' = prog
    /\ UNCHANGED <<client, db, disk, ids, view, journal, runSeq, index, count, setting>>

GhidraDies ==
    /\ Ready
    /\ count.deaths < setting.deaths
    /\ client' = [client EXCEPT !.number = 0]
    /\ db' = disk
    /\ count' = [count EXCEPT !.deaths = @ + 1]
    /\ UNCHANGED <<loaded, disk, ids, view, journal, runSeq, index, setting>>

GhidraStarts ==
    /\ ~Ready
    /\ client' = [program |-> loaded, number |-> count.deaths + 1]
    /\ UNCHANGED <<loaded, db, disk, ids, view, journal, runSeq, index, count, setting>>

Next ==
    \/ \E t \in Things, author \in setting.authors, quiet \in BOOLEAN :
          \E name \in NewNames(t) : DecompRename(t, name, author, quiet)
    \/ \E t \in Things, author \in setting.authors, quiet \in BOOLEAN :
          \E type \in NewTypes(t) : DecompRetype(t, type, author, quiet)
    \/ \E text \in {"", "c"}, author \in setting.authors, quiet \in BOOLEAN :
          DecompComment(text, author, quiet)
    \/ DecompUndoLast
    \/ DecompUndoRun
    \/ \E listed \in SUBSET Listed : DecompIndex(listed)
    \/ Reads
    \/ \E prog \in Programs : ExeLoad(prog)
    \/ GhidraDies
    \/ GhidraStarts

Spec == Init /\ [][Next]_vars

-----------------------------------------------------------------------------
(* Properties.                                                             *)

\* What a reader of the program sees; who wrote a comment is another question.
Text(p) == [names |-> p.names, types |-> p.types, text |-> p.text]

\* The entries a step has taken off.
Undone == SubSeq(journal, Len(journal') + 1, Len(journal))

\* p reads as q, and no name somebody gave is Ghidra's own again.
ReadsAs(p, q) == Text(p) = Text(q) /\ (p.own => q.own)

\* Each edit undone was made on what the one before it left, and the last on
\* what is there now.
Unbroken ==
    /\ ReadsAs(db[client.program], Last(Undone).after)
    /\ \A i \in DOMAIN Undone :
          /\ Undone[i].prog = client.program
          /\ i > 1 => ReadsAs(Undone[i].before, Undone[i - 1].after)

\* A type that changed the name of what it was given to.
Relabelled(entry) ==
    entry.edit.op = "retype" /\ entry.before.names["g"] # entry.after.names["g"]

\* What an undo that is answered leaves.
Restores ==
    (/\ Len(journal') < Len(journal)
     /\ count'.faults = count.faults
     /\ Unbroken
     /\ \A i \in DOMAIN Undone : ~Relabelled(Undone[i]))
    => /\ Text(db'[client.program]) = Text(Undone[1].before)
       /\ \A i, j \in DOMAIN Undone : Undone[i].author = Undone[j].author

\* An undo, of one edit or of a run of one author's, that is answered puts the
\* program back as it was before them, unless something else has changed it in
\* between, although ids have been renumbered and names have changed since.
\* (The exception: a type that gave a global another of Ghidra's own names; its
\* inverse asks for the name of before, which is gone, and is refused.)
UndoRestores == [][Restores]_vars

\* The names the actor resolves go-to, breakpoints and searches with are those
\* Ghidra has now, all that its listings gave, through every kind of edit, undo
\* and a new Ghidra.  (The exceptions: an edit made and not answered may leave
\* the index behind; and one made when a listing failed or was cut short is held
\* without the rest, though Ghidra would tell it if asked again.)
IndexCurrent ==
    Ready /\ index.of = client.number /\ count.faults = 0 =>
        index.names = NamesOf(db[client.program], index.listed)
=============================================================================
